----------------------------- MODULE Calls_proofs -----------------------------
(***************************************************************************)
(* Theorems about Wire, Authentication, Cursor, Collection and             *)
(* ClientOptions, as the components of Calls, for all values of their      *)
(* constants.                                                              *)
(***************************************************************************)
EXTENDS Calls, CommonTheorems, FiniteSetTheorems, SequenceTheorems, TLAPS

-----------------------------------------------------------------------------
(* Whatever the focus, each component behaves as its own specification says. *)

LEMMA WireRuns == CallsSpec => Wire!Spec
<1>1. CallsInit => Wire!Init
  BY DEF CallsInit
<1>2. [CallsNext]_allVars => [Wire!Next]_(Wire!vars)
  BY DEF CallsNext, allVars, wire, Wire!vars
<1> QED
  BY <1>1, <1>2, PTL DEF CallsSpec, Wire!Spec

LEMMA AuthRuns == CallsSpec => Auth!Spec
<1>1. CallsInit => Auth!Init
  BY DEF CallsInit
<1>2. [CallsNext]_allVars => [Auth!Next]_(Auth!vars)
  BY DEF CallsNext, allVars, authentication, Auth!vars
<1> QED
  BY <1>1, <1>2, PTL DEF CallsSpec, Auth!Spec

LEMMA CursorRuns == CallsSpec => Cursor!Spec
<1>1. CallsInit => Cursor!Init
  BY DEF CallsInit
<1>2. [CallsNext]_allVars => [Cursor!Next]_(Cursor!vars)
  BY DEF CallsNext, allVars, cursor, Cursor!vars
<1> QED
  BY <1>1, <1>2, PTL DEF CallsSpec, Cursor!Spec

LEMMA CollectionRuns == CallsSpec => Coll!Spec
<1>1. CallsInit => Coll!Init
  BY DEF CallsInit
<1>2. [CallsNext]_allVars => [Coll!Next]_(Coll!vars)
  BY DEF CallsNext, allVars, collection, Coll!vars
<1> QED
  BY <1>1, <1>2, PTL DEF CallsSpec, Coll!Spec

LEMMA UriRuns == CallsSpec => Uri!Spec
<1>1. CallsInit => Uri!Init
  BY DEF CallsInit
<1>2. [CallsNext]_allVars => [Uri!Next]_(Uri!vars)
  BY DEF CallsNext, allVars, clientOptions, Uri!vars
<1> QED
  BY <1>1, <1>2, PTL DEF CallsSpec, Uri!Spec

-----------------------------------------------------------------------------
(***************************************************************************)
(* Authentication.  The server is asked one thing at a time, so that the   *)
(* reply which is read tells what the server has granted since.            *)
(***************************************************************************)

\* At most one message is under way, none before the start and after the end.
OneMessage ==
  /\ sent.name = "none" \/ reply.name = "none"
  /\ authPhase \in {"start", "ended"} => sent.name = "none" /\ reply.name = "none"

\* What the structs of the driver are deserialized from is told by what the
\* server granted.
RepliesTell ==
  /\ reply.name = "AuthenticateResponse" => granted
  /\ reply.name = "SaslResponse" /\ reply.done => granted

AuthInv ==
  /\ OneMessage /\ RepliesTell
  /\ verdict # "none" => authPhase = "ended"
  /\ verdict = "ok" => granted

-----------------------------------------------------------------------------
LEMMA AuthInit == ASSUME Auth!Init PROVE AuthInv
BY DEF Auth!Init, AuthInv, OneMessage, RepliesTell, Auth!Nothing

\* A slice with the attribute's name in front is not what base64 and parse take.
LEMMA SlicesNeverDecode ==
  ASSUME NEW message, NEW name PROVE ~Auth!Decodes(Auth!Slice(message, name))
BY DEF Auth!Decodes, Auth!Slice

LEMMA FirstFails ==
  ASSUME Auth!ReadFirst
  PROVE  authPhase' = "ended" /\ verdict' \in {"Bson", "InvalidReply"} /\ UNCHANGED sent
<1>1. ~Auth!Decodes(Auth!Slice(reply.payload, "s"))
  BY SlicesNeverDecode
<1>2. CASE Auth!End("Bson") /\ UNCHANGED sent
  BY <1>2 DEF Auth!End
<1>3. CASE Auth!End("InvalidReply") /\ UNCHANGED sent
  BY <1>3 DEF Auth!End
<1> QED BY <1>1, <1>2, <1>3, Zenon DEF Auth!ReadFirst

\* The driver reads a reply, which ends the conversation or goes on with it.
LEMMA ReadKeeps ==
  ASSUME AuthInv, Auth!ReadX509 \/ Auth!ReadPlain \/ Auth!ReadFirst \/ Auth!ReadFinal
  PROVE  AuthInv'
<1>0. authPhase \in {"x509", "plain", "first", "final"} /\ Auth!Received
  BY DEF Auth!ReadX509, Auth!ReadPlain, Auth!ReadFirst, Auth!ReadFinal
<1>1. /\ reply.name # "none" /\ reply'.name = "none" /\ granted' = granted
      /\ sent.name = "none" /\ verdict = "none"
  BY <1>0 DEF Auth!Received, Auth!Nothing, AuthInv, OneMessage
<1>2. CASE Auth!ReadX509
  BY <1>1, <1>2 DEF Auth!ReadX509, Auth!End, Auth!Deserializes, AuthInv, OneMessage, RepliesTell
<1>3. CASE Auth!ReadPlain
  BY <1>1, <1>3 DEF Auth!ReadPlain, Auth!End, Auth!Deserializes, AuthInv, OneMessage, RepliesTell
<1>4. CASE Auth!ReadFirst
  <2>1. authPhase' = "ended" /\ verdict' \in {"Bson", "InvalidReply"} /\ UNCHANGED sent
    BY <1>4, FirstFails
  <2> QED BY <1>1, <2>1 DEF AuthInv, OneMessage, RepliesTell
<1>5. CASE Auth!ReadFinal
  <2>1. /\ authPhase' = "ended" /\ UNCHANGED sent
        /\ verdict' = "ok" => reply.name = "SaslResponse" /\ reply.done
    BY <1>5 DEF Auth!ReadFinal, Auth!End, Auth!Deserializes
  <2> QED BY <1>1, <2>1 DEF AuthInv, OneMessage, RepliesTell, Auth!ReadFinal
<1> QED BY <1>2, <1>3, <1>4, <1>5

LEMMA ServeKeeps == ASSUME AuthInv, Auth!Serve PROVE AuthInv'
<1>1. /\ sent.name # "none" /\ sent'.name = "none" /\ authPhase' = authPhase /\ verdict' = verdict
      /\ authPhase \notin {"start", "ended"} /\ verdict = "none"
  BY DEF Auth!Serve, Auth!Nothing, AuthInv, OneMessage
<1>2. RepliesTell'
  <2>1. CASE Auth!Refuse
    BY <2>1 DEF Auth!Refuse, Auth!Answer, RepliesTell
  <2>2. CASE Auth!GrantX509
    BY <2>2 DEF Auth!GrantX509, Auth!Answer, RepliesTell
  <2>3. CASE Auth!GrantPlain
    BY <2>3 DEF Auth!GrantPlain, Auth!Answer, RepliesTell
  <2>4. CASE Auth!ServeFirst
    <3>1. PICK message : Auth!Answer("SaslResponse", FALSE, message)
      BY <2>4 DEF Auth!ServeFirst
    <3> QED BY <3>1 DEF Auth!Answer, RepliesTell
  <2>5. CASE Auth!ServeFinal
    BY <2>5 DEF Auth!ServeFinal, Auth!Answer, RepliesTell
  <2> QED BY <2>1, <2>2, <2>3, <2>4, <2>5 DEF Auth!Serve
<1> QED BY <1>1, <1>2 DEF AuthInv, OneMessage

LEMMA AuthStep == ASSUME AuthInv, [Auth!Next]_(Auth!vars) PROVE AuthInv'
<1>1. CASE Auth!AuthRefuses \/ Auth!AuthStarts
  BY <1>1 DEF Auth!AuthRefuses, Auth!AuthStarts, Auth!End, Auth!Ask, AuthInv, OneMessage,
              RepliesTell
<1>2. CASE UNCHANGED Auth!vars
  BY <1>2 DEF Auth!vars, AuthInv, OneMessage, RepliesTell
<1> QED BY <1>1, <1>2, ReadKeeps, ServeKeeps DEF Auth!Next

\* Whatever credentials and servers there are, a connection counts as
\* authenticated only if the server granted it.
THEOREM GrantedOnly == CallsSpec => []AgreesWithServer
<1>1. Auth!Init => AuthInv BY AuthInit
<1>2. AuthInv /\ [Auth!Next]_(Auth!vars) => AuthInv' BY AuthStep
<1>3. AuthInv => AgreesWithServer BY DEF AuthInv, AgreesWithServer, Auth!AgreesWithServer
<1> QED BY <1>1, <1>2, <1>3, AuthRuns, PTL DEF Auth!Spec

-----------------------------------------------------------------------------
\* The phases that lead SCRAM anywhere.
Fruitless ==
  credential.mechanism = "SCRAM-SHA-256" =>
    authPhase \in {"start", "first", "ended"} /\ verdict # "ok"

\* SCRAM-SHA-256 never sends its proof, whatever the server says.
THEOREM ScramEndsFirst == CallsSpec => []ScramNeverProves
<1>1. Auth!Init => Fruitless BY DEF Auth!Init, Fruitless
<1>2. Fruitless /\ [Auth!Next]_(Auth!vars) => Fruitless'
  <2> SUFFICES ASSUME Fruitless, [Auth!Next]_(Auth!vars) PROVE Fruitless'
    OBVIOUS
  <2>1. CASE Auth!AuthRefuses \/ Auth!AuthStarts
    BY <2>1 DEF Auth!AuthRefuses, Auth!AuthStarts, Auth!End, Auth!Ask, Fruitless
  <2>2. CASE Auth!ReadX509 \/ Auth!ReadPlain \/ Auth!ReadFinal
    BY <2>2 DEF Auth!ReadX509, Auth!ReadPlain, Auth!ReadFinal, Auth!Received, Fruitless
  <2>3. CASE Auth!ReadFirst
    <3>1. authPhase' = "ended" /\ verdict' \in {"Bson", "InvalidReply"}
      BY <2>3, FirstFails
    <3> QED BY <3>1, <2>3 DEF Auth!ReadFirst, Auth!Received, Fruitless
  <2>4. CASE Auth!Serve
    BY <2>4 DEF Auth!Serve, Fruitless
  <2>5. CASE UNCHANGED Auth!vars
    BY <2>5 DEF Auth!vars, Fruitless
  <2> QED BY <2>1, <2>2, <2>3, <2>4, <2>5 DEF Auth!Next
<1>3. Fruitless => ScramNeverProves BY DEF Fruitless, ScramNeverProves, Auth!ScramNeverProves
<1> QED BY <1>1, <1>2, <1>3, AuthRuns, PTL DEF Auth!Spec

-----------------------------------------------------------------------------
(***************************************************************************)
(* Wire.  The bytes of a message stay together and each reply is to a      *)
(* later request than those before it, wherever the driver has stopped to  *)
(* read; what is under way is not later than the request sent last.        *)
(***************************************************************************)
Kinds ==
  {"plain", "refusal", "typed", "foreign", "stub", "undersized"} \cup Wire!Compressed

\* The kinds of replies whose bodies recv reads, and those that are one header and body.
Simple == {"plain", "refusal", "typed", "stub"}

Replies == [to : Nat \ {0}, kind : Kinds]

Bytes == [reply : Replies, place : Nat \ {0}]

\* How many requests were sent.
Sent == Len(ids)

WireTypes ==
  /\ dialect \subseteq Kinds
  /\ streamPhase \in {"connected", "header", "compression", "body", "starved", "idle", "dropped"}
  /\ ids \in Seq(Nat) /\ Sent \in Nat
  /\ again \subseteq Nat
  /\ streamPhase = "connected" \/ Sent > 0
  /\ up \in BOOLEAN
  /\ requests \in Seq([number : Nat \ {0}, readable : BOOLEAN])
  /\ stream \in Seq(Bytes)

\* From any byte on, the rest of its message is there; then another one begins.
Framed(s) ==
  /\ \A i \in 1 .. Len(s), p \in Nat :
       s[i].place <= p /\ p <= Wire!SizeOf(s[i].reply.kind) =>
         /\ i + (p - s[i].place) \in 1 .. Len(s)
         /\ s[i + (p - s[i].place)] = [reply |-> s[i].reply, place |-> p]
  /\ \A i \in 1 .. Len(s) :
       /\ s[i].place <= Wire!SizeOf(s[i].reply.kind)
       /\ s[i].place = Wire!SizeOf(s[i].reply.kind) /\ i # Len(s) => s[i + 1].place = 1
  /\ \A i, j \in 1 .. Len(s) :
       i < j /\ s[j].place = 1 => s[i].reply.to < s[j].reply.to

\* Requests are answered one after the other, and there are no others.
InOrder ==
  /\ \A i \in 1 .. Len(stream) : stream[i].reply.to <= Sent
  /\ \A i \in 1 .. Len(requests) : requests[i].number <= Sent
  /\ \A i, j \in 1 .. Len(requests) : i < j => requests[i].number < requests[j].number
  /\ \A i \in 1 .. Len(stream), j \in 1 .. Len(requests) :
       stream[i].reply.to < requests[j].number
  /\ streamPhase = "connected" => stream = <<>> /\ requests = <<>>

\* What the driver is about to read, if the header tells.
Expected ==
  /\ \A i \in 1 .. Len(stream) : stream[i].reply.kind \in dialect
  /\ streamPhase = "body" =>
       /\ header.kind \in dialect \cap (Simple \cup {"noop", "nested"})
       /\ header.kind \in Simple =>
            IF stream = <<>> THEN ~up
            ELSE stream[1] = [reply |-> header, place |-> Wire!HeaderSize + 1]
  /\ streamPhase = "compression" => header.kind \in dialect \cap Wire!Compressed

\* A server that is understood is read message by message.
Aligned ==
  dialect \cap ({"foreign"} \cup Wire!Compressed) = {} =>
    streamPhase = "body" \/ stream = <<>> \/ stream[1].place = 1

WireInv == WireTypes /\ Framed(stream) /\ InOrder /\ Expected /\ Aligned

-----------------------------------------------------------------------------
LEMMA WireConstants ==
  /\ BodySize \in Nat /\ BodySize > 4
  /\ Dialects \subseteq SUBSET Kinds
BY CallsAssumption DEF Wire!WireAssumption, Kinds, Wire!Compressed

LEMMA BodySizes ==
  /\ Wire!BodyOf("undersized") = 0 /\ Wire!BodyOf("stub") = 4
  /\ \A kind : kind \notin {"undersized", "stub"} => Wire!BodyOf(kind) = BodySize
<1>1. Wire!BodyOf("undersized") = 0
  BY Zenon DEF Wire!BodyOf
<1>2. "stub" # "undersized"
  OBVIOUS
<1>3. Wire!BodyOf("stub") = 4
  BY <1>2, Zenon DEF Wire!BodyOf
<1>4. ASSUME NEW kind, kind \notin {"undersized", "stub"} PROVE Wire!BodyOf(kind) = BodySize
  BY <1>4, Zenon DEF Wire!BodyOf
<1> QED BY <1>1, <1>3, <1>4

LEMMA MessageSizes ==
  /\ \A kind \in Kinds : Wire!SizeOf(kind) \in Nat /\ Wire!SizeOf(kind) >= 16
  /\ Wire!SizeOf("undersized") = 16
  /\ \A kind \in Simple : /\ Wire!BodyOf(kind) \in Nat \ {0}
                          /\ Wire!SizeOf(kind) = 16 + Wire!BodyOf(kind)
<1>1. \A kind \in Kinds : Wire!BodyOf(kind) \in Nat
  BY BodySizes, WireConstants
<1>2. \A kind \in Simple : Wire!BodyOf(kind) \in Nat \ {0} /\ kind \notin Wire!Compressed
  BY BodySizes, WireConstants DEF Simple, Wire!Compressed
<1>3. \A kind : Wire!SizeOf(kind) =
                  16 + (IF kind \in Wire!Compressed THEN 9 ELSE 0) + Wire!BodyOf(kind)
  BY DEF Wire!SizeOf, Wire!HeaderSize, Wire!CompressionSize
<1>4. "undersized" \notin Wire!Compressed
  BY DEF Wire!Compressed
<1> QED BY <1>1, <1>2, <1>3, <1>4, BodySizes

\* Only a plain reply to the request counts as a success.
LEMMA SuccessIsOwnReply ==
  ASSUME NEW r, r.kind \in Simple \cup {"noop", "nested"}, "ok" \in Wire!Verdicts(r)
  PROVE  r.kind = "plain" /\ ids[r.to] = Wire!id
<1>1. ASSUME r.kind = "stub" PROVE Wire!Verdicts(r) = {"panic"}
  <2>1. r.kind # "nested" /\ r.kind # "typed" /\ r.kind # "noop" /\ r.kind # "refusal"
        /\ r.kind # "plain"
    BY <1>1
  <2> QED BY <1>1, <2>1, Zenon DEF Wire!Verdicts
<1>2. ASSUME r.kind = "nested" PROVE Wire!Verdicts(r) = {"OpCode"}
  <2>1. r.kind # "stub" /\ r.kind # "typed" /\ r.kind # "noop" /\ r.kind # "refusal"
        /\ r.kind # "plain"
    BY <1>2
  <2> QED BY <1>2, <2>1, Zenon DEF Wire!Verdicts
<1>3. ASSUME r.kind \notin {"stub", "nested"}, ~Wire!Answers(r)
      PROVE  Wire!Verdicts(r) = {"ResponseTo"}
  BY <1>3, Zenon DEF Wire!Verdicts
<1>4. ASSUME r.kind = "typed", Wire!Answers(r) PROVE Wire!Verdicts(r) = {"PayloadType"}
  <2>1. r.kind # "stub" /\ r.kind # "nested" /\ r.kind # "noop" /\ r.kind # "refusal"
        /\ r.kind # "plain"
    BY <1>4
  <2> QED BY <1>4, <2>1, Zenon DEF Wire!Verdicts
<1>5. ASSUME r.kind = "noop", Wire!Answers(r)
      PROVE  Wire!Verdicts(r) = {"PayloadType", "garbled"}
  <2>1. r.kind # "stub" /\ r.kind # "nested" /\ r.kind # "typed" /\ r.kind # "refusal"
        /\ r.kind # "plain"
    BY <1>5
  <2> QED BY <1>5, <2>1, Zenon DEF Wire!Verdicts
<1>6. ASSUME r.kind = "refusal", Wire!Answers(r) PROVE Wire!Verdicts(r) = {"refused"}
  <2>1. r.kind # "stub" /\ r.kind # "nested" /\ r.kind # "typed" /\ r.kind # "noop"
        /\ r.kind # "plain"
    BY <1>6
  <2> QED BY <1>6, <2>1, Zenon DEF Wire!Verdicts
<1> QED BY <1>1, <1>2, <1>3, <1>4, <1>5, <1>6 DEF Simple, Wire!Answers

-----------------------------------------------------------------------------
(* Framed sequences *)

LEMMA PlacesWithin ==
  ASSUME NEW s \in Seq(Bytes), NEW i \in 1 .. Len(s)
  PROVE  /\ s[i] \in Bytes /\ s[i].reply.kind \in Kinds /\ s[i].reply.to \in Nat
         /\ s[i].place \in Nat \ {0} /\ Wire!SizeOf(s[i].reply.kind) \in Nat
         /\ s[i] = [reply |-> s[i].reply, place |-> s[i].place]
<1>1. s[i] \in Bytes
  BY ElementOfSeq
<1> QED BY <1>1, MessageSizes DEF Bytes, Replies

\* Reading leaves a suffix.
LEMMA TakeKeepsFrames ==
  ASSUME NEW s \in Seq(Bytes), Framed(s), NEW n \in Nat, n <= Len(s)
  PROVE  LET t == SubSeq(s, n + 1, Len(s))
         IN  /\ t \in Seq(Bytes) /\ Framed(t)
             /\ Len(t) = Len(s) - n
             /\ \A i \in 1 .. Len(t) : t[i] = s[n + i]
<1> DEFINE t == SubSeq(s, n + 1, Len(s))
<1>1. PICK l \in Nat : l = Len(s)
  BY LenProperties
<1>2. \A i \in n + 1 .. l : s[i] \in Bytes
  BY <1>1, ElementOfSeq
<1>3. /\ t \in Seq(Bytes)
      /\ Len(t) = IF n + 1 <= l THEN l - (n + 1) + 1 ELSE 0
      /\ \A i \in 1 .. l - (n + 1) + 1 : t[i] = s[(n + 1) + i - 1]
  BY <1>1, <1>2, SubSeqProperties
<1> HIDE DEF t
<1>4. /\ Len(t) = l - n
      /\ \A i \in 1 .. l - n : t[i] = s[n + i]
  <2>1. \A i \in 1 .. l - n : i \in 1 .. l - (n + 1) + 1 /\ (n + 1) + i - 1 = n + i
    BY <1>1
  <2>2. \A i \in 1 .. l - n : t[i] = s[n + i]
    <3> SUFFICES ASSUME NEW i \in 1 .. l - n PROVE t[i] = s[n + i]
      OBVIOUS
    <3> QED BY <1>3, <2>1
  <2>3. Len(t) = l - n
    <3>1. CASE n + 1 <= l
      BY <1>1, <1>3, <3>1
    <3>2. CASE ~(n + 1 <= l)
      <4>1. l - n = 0
        BY <1>1, <3>2
      <4> QED BY <1>3, <3>2, <4>1
    <3> QED BY <3>1, <3>2
  <2> QED BY <2>2, <2>3
<1>5. \A i \in 1 .. l - n : n + i \in 1 .. l
  BY <1>1
<1>6. ASSUME NEW i \in 1 .. l - n, NEW p \in Nat,
             t[i].place <= p, p <= Wire!SizeOf(t[i].reply.kind)
      PROVE  /\ i + (p - t[i].place) \in 1 .. l - n
             /\ t[i + (p - t[i].place)] = [reply |-> t[i].reply, place |-> p]
  <2>1. PICK k \in 1 .. l : k = n + i
    BY <1>5
  <2>2. s[k].place <= p /\ p <= Wire!SizeOf(s[k].reply.kind) /\ t[i] = s[k]
    BY <1>4, <1>6, <2>1
  <2>3. /\ k + (p - s[k].place) \in 1 .. l
        /\ s[k + (p - s[k].place)] = [reply |-> s[k].reply, place |-> p]
    BY <1>1, <2>2 DEF Framed
  <2>4. PICK m \in Nat : m = p - s[k].place
    <3>1. s[k].place \in Nat
      BY <1>1, PlacesWithin
    <3>2. p - s[k].place \in Nat
      BY <2>2, <3>1
    <3> QED BY <3>2
  <2>5. i + m \in 1 .. l - n /\ n + (i + m) = k + m
    BY <1>1, <2>1, <2>3, <2>4
  <2> QED BY <1>4, <2>2, <2>3, <2>4, <2>5
<1>7. ASSUME NEW i \in 1 .. l - n
      PROVE  /\ t[i].place <= Wire!SizeOf(t[i].reply.kind)
             /\ t[i].place = Wire!SizeOf(t[i].reply.kind) /\ i # l - n => t[i + 1].place = 1
  <2>1. PICK k \in 1 .. l : k = n + i /\ t[i] = s[k]
    BY <1>4, <1>5
  <2>2. s[k].place <= Wire!SizeOf(s[k].reply.kind)
    BY <1>1 DEF Framed
  <2>3. ASSUME s[k].place = Wire!SizeOf(s[k].reply.kind), i # l - n PROVE t[i + 1].place = 1
    <3>1. k # l /\ i + 1 \in 1 .. l - n /\ n + (i + 1) = k + 1
      BY <1>1, <2>1, <2>3
    <3>2. s[k + 1].place = 1
      BY <1>1, <2>3, <3>1 DEF Framed
    <3> QED BY <1>4, <3>1, <3>2
  <2> QED BY <2>1, <2>2, <2>3
<1>8. ASSUME NEW i \in 1 .. l - n, NEW j \in 1 .. l - n, i < j, t[j].place = 1
      PROVE  t[i].reply.to < t[j].reply.to
  <2>1. n + i \in 1 .. l /\ n + j \in 1 .. l /\ n + i < n + j
    BY <1>5, <1>8
  <2> QED BY <1>1, <1>4, <1>8, <2>1 DEF Framed
<1>9. Framed(t)
  BY <1>4, <1>6, <1>7, <1>8 DEF Framed
<1> QED BY <1>1, <1>3, <1>4, <1>9 DEF t

\* A reply behind those to earlier requests.
LEMMA MessageKeepsFrames ==
  ASSUME NEW s \in Seq(Bytes), Framed(s), NEW r \in Replies,
         \A i \in 1 .. Len(s) : s[i].reply.to < r.to
  PROVE  LET t == s \o Wire!Message(r)
         IN  /\ t \in Seq(Bytes) /\ Framed(t)
             /\ Len(t) = Len(s) + Wire!SizeOf(r.kind)
             /\ \A i \in 1 .. Len(s) : t[i] = s[i]
             /\ \A i \in Len(s) + 1 .. Len(t) : t[i].reply = r /\ t[i].place = i - Len(s)
<1> DEFINE m == Wire!Message(r)
           t == s \o m
<1>1. PICK l \in Nat, n \in Nat : l = Len(s) /\ n = Wire!SizeOf(r.kind) /\ n >= 16
  BY LenProperties, MessageSizes DEF Replies
<1>2. m \in Seq(Bytes) /\ Len(m) = n /\ \A i \in 1 .. n : m[i] = [reply |-> r, place |-> i]
  <2>1. m = [i \in 1 .. n |-> [reply |-> r, place |-> i]]
    BY <1>1 DEF Wire!Message
  <2> HIDE DEF m
  <2>2. \A i \in 1 .. n : [reply |-> r, place |-> i] \in Bytes
    BY DEF Bytes
  <2> QED BY <2>1, <2>2
<1> HIDE DEF m
<1>3. /\ t \in Seq(Bytes) /\ Len(t) = Len(s) + Len(m)
      /\ \A i \in 1 .. Len(s) + Len(m) : t[i] = IF i <= Len(s) THEN s[i] ELSE m[i - Len(s)]
  BY <1>2, ConcatProperties, Zenon
<1> HIDE DEF t
<1>4. /\ Len(t) = l + n
      /\ \A i \in 1 .. l : t[i] = s[i]
  BY <1>1, <1>2, <1>3
<1>5. ASSUME NEW i \in l + 1 .. l + n
      PROVE  /\ t[i] = [reply |-> r, place |-> i - l]
             /\ t[i].reply = r /\ t[i].place = i - l
  <2>1. i \in 1 .. l + n /\ ~(i <= l) /\ i - l \in 1 .. n
    BY <1>1
  <2>2. PICK k \in 1 .. n : k = i - l
    BY <2>1
  <2>3. t[i] = [reply |-> r, place |-> k]
    BY <1>1, <1>2, <1>3, <2>1, <2>2
  <2>4. t[i].reply = r /\ t[i].place = k
    BY <2>3
  <2> QED BY <2>2, <2>3, <2>4
<1>6. ASSUME NEW i \in 1 .. l + n, NEW p \in Nat,
             t[i].place <= p, p <= Wire!SizeOf(t[i].reply.kind)
      PROVE  /\ i + (p - t[i].place) \in 1 .. l + n
             /\ t[i + (p - t[i].place)] = [reply |-> t[i].reply, place |-> p]
  <2>1. CASE i \in 1 .. l
    <3>1. t[i] = s[i]
      BY <1>4, <2>1
    <3>2. /\ i + (p - s[i].place) \in 1 .. l
          /\ s[i + (p - s[i].place)] = [reply |-> s[i].reply, place |-> p]
      BY <1>1, <1>6, <2>1, <3>1 DEF Framed
    <3> QED BY <1>1, <1>4, <3>1, <3>2
  <2>2. CASE i \in l + 1 .. l + n
    <3>1. t[i].reply = r /\ t[i].place = i - l
      BY <1>5, <2>2
    <3>2. i + (p - (i - l)) = l + p /\ l + p \in l + 1 .. l + n /\ (l + p) - l = p
      BY <1>1, <1>6, <2>2, <3>1
    <3>3. t[l + p] = [reply |-> r, place |-> p]
      BY <1>5, <3>2
    <3>4. l + p \in 1 .. l + n
      BY <1>1, <3>2
    <3> QED BY <3>1, <3>2, <3>3, <3>4
  <2> QED BY <1>1, <2>1, <2>2
<1>7. ASSUME NEW i \in 1 .. l + n
      PROVE  /\ t[i].place <= Wire!SizeOf(t[i].reply.kind)
             /\ t[i].place = Wire!SizeOf(t[i].reply.kind) /\ i # l + n => t[i + 1].place = 1
  <2>1. CASE i \in 1 .. l
    <3>1. t[i] = s[i]
      BY <1>4, <2>1
    <3>2. /\ s[i].place <= Wire!SizeOf(s[i].reply.kind)
          /\ s[i].place = Wire!SizeOf(s[i].reply.kind) /\ i # l => s[i + 1].place = 1
      BY <1>1, <2>1 DEF Framed
    <3>3. CASE i = l
      <4>1. t[l + 1] = [reply |-> r, place |-> (l + 1) - l]
        BY <1>1, <1>5
      <4>2. (l + 1) - l = 1
        BY <1>1
      <4> QED BY <3>1, <3>2, <3>3, <4>1, <4>2
    <3>4. CASE i # l
      <4>1. i + 1 \in 1 .. l
        BY <2>1, <3>4
      <4>2. t[i + 1] = s[i + 1]
        BY <1>4, <4>1
      <4> QED BY <3>1, <3>2, <3>4, <4>2
    <3> QED BY <3>3, <3>4
  <2>2. CASE i \in l + 1 .. l + n
    <3>1. t[i].reply = r /\ t[i].place = i - l
      BY <1>5, <2>2
    <3> QED BY <1>1, <2>2, <3>1
  <2> QED BY <1>1, <2>1, <2>2
<1>8. ASSUME NEW i \in 1 .. l + n, NEW j \in 1 .. l + n, i < j, t[j].place = 1
      PROVE  t[i].reply.to < t[j].reply.to
  <2>1. CASE j \in 1 .. l
    <3>1. i \in 1 .. l
      BY <1>8, <2>1
    <3> QED BY <1>1, <1>4, <1>8, <2>1, <3>1 DEF Framed
  <2>2. CASE j \in l + 1 .. l + n
    <3>1. t[j].reply = r /\ t[j].place = j - l
      BY <1>5, <2>2
    <3>2. i \in 1 .. l
      BY <1>1, <1>8, <2>2, <3>1
    <3> QED BY <1>1, <1>4, <3>1, <3>2
  <2> QED BY <1>1, <2>1, <2>2
<1>9. Framed(t)
  BY <1>4, <1>6, <1>7, <1>8 DEF Framed
<1> QED BY <1>1, <1>3, <1>4, <1>5, <1>9 DEF t, m

LEMMA EmptyIsFramed == <<>> \in Seq(Bytes) /\ Framed(<<>>) /\ Len(<<>>) = 0
<1>1. <<>> \in Seq(Bytes) /\ Len(<<>>) = 0
  BY EmptySeq
<1> QED BY <1>1 DEF Framed

\* What a read of n bytes leaves of a stream.
LEMMA TakeFacts ==
  ASSUME WireInv, NEW n \in Nat, Wire!Take(n)
  PROVE  /\ n <= Len(stream) /\ Len(stream) \in Nat
         /\ stream' \in Seq(Bytes) /\ Framed(stream')
         /\ Len(stream') = Len(stream) - n
         /\ \A i \in 1 .. Len(stream') : n + i \in 1 .. Len(stream)
                                           /\ stream'[i] = stream[n + i]
<1>1. /\ stream \in Seq(Bytes) /\ Framed(stream) /\ Len(stream) \in Nat /\ n <= Len(stream)
      /\ stream' = SubSeq(stream, n + 1, Len(stream))
  BY LenProperties DEF WireInv, WireTypes, Wire!Take
<1> DEFINE s == stream
           t == stream'
<1> HIDE DEF s, t
<1>2. s \in Seq(Bytes) /\ Framed(s) /\ n <= Len(s) /\ t = SubSeq(s, n + 1, Len(s))
  BY <1>1 DEF s, t
<1>3. /\ t \in Seq(Bytes) /\ Framed(t) /\ Len(t) = Len(s) - n
      /\ \A i \in 1 .. Len(t) : t[i] = s[n + i]
  BY <1>2, TakeKeepsFrames
<1>4. \A i \in 1 .. Len(t) : n + i \in 1 .. Len(s)
  BY <1>1, <1>3 DEF s
<1> QED BY <1>1, <1>3, <1>4 DEF s, t

-----------------------------------------------------------------------------
(* Every step on a stream keeps the invariant. *)

LEMMA WireInit == ASSUME Wire!Init PROVE WireInv
<1>1. dialect \subseteq Kinds /\ stream = <<>> /\ requests = <<>>
  BY WireConstants DEF Wire!Init
<1>2. WireTypes
  BY <1>1, EmptySeq DEF Wire!Init, WireTypes, Sent
<1>3. InOrder /\ Expected /\ Aligned /\ Framed(stream)
  BY <1>1, EmptyIsFramed DEF Wire!Init, InOrder, Expected, Aligned
<1> QED BY <1>2, <1>3 DEF WireInv

\* Calls that may be retried had an id.
LEMMA AgainTyped ==
  ASSUME WireTypes,
         \/ Wire!Serve \/ Wire!Close
         \/ Wire!ReadHeader \/ Wire!ReadCompression \/ Wire!ReadBody \/ Wire!ReadFails
  PROVE  again' \subseteq Nat
<1>1. ASSUME NEW end, Wire!Complete(end), streamPhase # "connected"
      PROVE  again' \subseteq Nat
  <2>1. Sent \in 1 .. Len(ids)
    BY <1>1 DEF WireTypes, Sent
  <2>2. Wire!id \in Nat
    BY <2>1, ElementOfSeq DEF WireTypes, Wire!id, Sent
  <2> QED BY <1>1, <2>2 DEF Wire!Complete, Wire!Finish, WireTypes
<1>2. CASE again' = again
  BY <1>2 DEF WireTypes
<1> QED
  BY <1>1, <1>2 DEF Wire!Serve, Wire!Close, Wire!ReadHeader, Wire!ReadCompression, Wire!ReadBody,
     Wire!ReadFails

\* The server answers the request at the head, later than all that it has answered.
LEMMA AnswerKeeps == ASSUME WireInv, Wire!Serve PROVE WireInv'
<1> DEFINE q == Head(requests)
           request == [number : Nat \ {0}, readable : BOOLEAN]
<1>1. /\ WireTypes /\ Framed(stream) /\ InOrder /\ Expected /\ Aligned
      /\ up /\ requests # <<>> /\ requests' = Tail(requests)
      /\ UNCHANGED <<dialect, streamPhase, ids, Sent, header>>
  BY DEF WireInv, Wire!Serve, Sent
<1>2. PICK n \in Nat \ {0} : n = Len(requests)
  BY <1>1, EmptySeq DEF WireTypes
<1>3. /\ requests' \in Seq(request) /\ Len(requests') = n - 1
      /\ \A i \in 1 .. n - 1 : i + 1 \in 1 .. n /\ requests'[i] = requests[i + 1]
  BY <1>1, <1>2, HeadTailProperties DEF WireTypes
<1>4. q = requests[1] /\ q \in request /\ \A i \in 1 .. n : requests[i] \in request
  <2>1. requests \in Seq(request)
    BY <1>1 DEF WireTypes
  <2>2. \A i \in 1 .. n : requests[i] \in request
    BY <1>2, <2>1, ElementOfSeq
  <2>3. q = requests[1]
    BY <1>1, <2>1
  <2>4. 1 \in 1 .. n
    BY <1>2
  <2> QED BY <2>2, <2>3, <2>4
<1>5. /\ q.number \in Nat \ {0} /\ q.number <= Sent
      /\ \A i \in 1 .. Len(stream) : stream[i].reply.to < q.number
      /\ \A i \in 1 .. n - 1 : q.number < requests'[i].number
  BY <1>1, <1>2, <1>3, <1>4 DEF InOrder
<1>6. /\ \A i \in 1 .. n - 1 : requests'[i].number <= Sent
      /\ \A i, j \in 1 .. n - 1 : i < j => requests'[i].number < requests'[j].number
  <2>1. \A i \in 1 .. n : requests[i].number <= Sent
    BY <1>1, <1>2 DEF InOrder
  <2>2. \A i, j \in 1 .. n : i < j => requests[i].number < requests[j].number
    BY <1>1, <1>2 DEF InOrder
  <2>3. ASSUME NEW i \in 1 .. n - 1, NEW j \in 1 .. n - 1, i < j
        PROVE  requests'[i].number < requests'[j].number
    <3>1. i + 1 < j + 1
      BY <2>3
    <3> QED BY <1>3, <2>2, <3>1
  <2> QED BY <1>3, <2>1, <2>3
<1>7. streamPhase # "connected"
  BY <1>1 DEF InOrder
<1>8. CASE UNCHANGED stream
  <2>1. WireTypes'
    BY <1>1, <1>3, <1>8, AgainTyped DEF WireTypes, Wire!Serve
  <2>2. ASSUME NEW i \in 1 .. Len(stream), NEW j \in 1 .. n - 1
        PROVE  stream[i].reply.to < requests'[j].number
    BY <1>1, <1>2, <1>3 DEF InOrder
  <2>3. InOrder'
    BY <1>1, <1>3, <1>6, <1>7, <1>8, <2>2 DEF InOrder
  <2>4. Expected'
    BY <1>1, <1>8 DEF Expected, WireTypes, Wire!Serve
  <2> QED BY <1>1, <1>8, <2>1, <2>3, <2>4 DEF WireInv, Aligned
<1>9. ASSUME NEW kind \in dialect,
             stream' = stream \o Wire!Message([to |-> q.number, kind |-> kind]), UNCHANGED up
      PROVE  WireInv'
  <2>1. PICK r \in Replies : r.to = q.number /\ r.kind = kind /\ r = [to |-> q.number, kind |-> kind]
    BY <1>1, <1>5 DEF Replies, WireTypes
  <2>2. PICK l \in Nat, m \in Nat \ {0} :
          /\ l = Len(stream) /\ Len(stream') = l + m
          /\ stream' \in Seq(Bytes) /\ Framed(stream')
          /\ \A i \in 1 .. l : stream'[i] = stream[i]
          /\ \A i \in l + 1 .. l + m : stream'[i].reply = r /\ stream'[i].place = i - l
    <3>1. stream \in Seq(Bytes) /\ Len(stream) \in Nat
      BY <1>1, LenProperties DEF WireTypes
    <3>2. Wire!SizeOf(r.kind) \in Nat \ {0}
      BY MessageSizes DEF Replies
    <3> DEFINE s == stream
               t == s \o Wire!Message(r)
    <3>3. stream' = t
      BY <1>9, <2>1
    <3>4. \A i \in 1 .. Len(s) : s[i].reply.to < r.to
      BY <1>5, <2>1
    <3> HIDE DEF s
    <3>5. s \in Seq(Bytes) /\ Framed(s)
      BY <1>1, <3>1 DEF s
    <3>6. /\ t \in Seq(Bytes) /\ Framed(t)
          /\ Len(t) = Len(s) + Wire!SizeOf(r.kind)
          /\ \A i \in 1 .. Len(s) : t[i] = s[i]
          /\ \A i \in Len(s) + 1 .. Len(t) : t[i].reply = r /\ t[i].place = i - Len(s)
      BY <3>4, <3>5, MessageKeepsFrames
    <3> HIDE DEF t
    <3> QED BY <3>1, <3>2, <3>3, <3>6 DEF s
  <2>3. WireTypes'
    BY <1>1, <1>3, <1>9, <2>2, AgainTyped DEF WireTypes
  <2>4. \A i \in 1 .. l + m : i \in 1 .. l \/ i \in l + 1 .. l + m
    BY <2>2
  <2>5. ASSUME NEW i \in 1 .. l + m
        PROVE  /\ stream'[i].reply.to <= Sent /\ stream'[i].reply.kind \in dialect
               /\ \A j \in 1 .. n - 1 : stream'[i].reply.to < requests'[j].number
    <3>1. CASE i \in 1 .. l
      <4>1. stream'[i] = stream[i]
        BY <2>2, <3>1
      <4>2. stream[i].reply.to <= Sent /\ stream[i].reply.kind \in dialect
        BY <1>1, <2>2, <3>1 DEF InOrder, Expected
      <4>3. \A j \in 1 .. n - 1 : stream[i].reply.to < requests'[j].number
        BY <1>1, <1>2, <1>3, <2>2, <3>1 DEF InOrder
      <4> QED BY <4>1, <4>2, <4>3
    <3>2. CASE i \in l + 1 .. l + m
      <4>1. stream'[i].reply = r
        BY <2>2, <3>2
      <4> QED BY <1>5, <2>1, <4>1
    <3> QED BY <2>4, <3>1, <3>2
  <2>6. InOrder'
    BY <1>1, <1>3, <1>6, <1>7, <2>2, <2>5 DEF InOrder
  <2>7. stream' # <<>> /\ (stream # <<>> => stream'[1] = stream[1])
        /\ (stream = <<>> => stream'[1].place = 1)
    <3>1. stream' # <<>> /\ (l = 0 <=> stream = <<>>)
      BY <1>1, <2>2, EmptySeq, EmptyIsFramed DEF WireTypes
    <3>2. l # 0 => stream'[1] = stream[1]
      BY <2>2
    <3>3. l = 0 => stream'[1].place = 1
      <4>1. l = 0 => 1 \in l + 1 .. l + m /\ 1 - l = 1
        BY <2>2
      <4> QED BY <2>2, <4>1
    <3> QED BY <3>1, <3>2, <3>3
  <2>8. Expected'
    BY <1>1, <1>9, <2>2, <2>5, <2>7 DEF Expected
  <2>9. Aligned'
    BY <1>1, <2>7 DEF Aligned
  <2> QED BY <2>2, <2>3, <2>6, <2>8, <2>9 DEF WireInv
<1> QED BY <1>8, <1>9 DEF Wire!Serve

LEMMA CloseKeeps == ASSUME WireInv, Wire!Close PROVE WireInv'
<1>1. /\ WireTypes /\ Framed(stream) /\ InOrder /\ Expected /\ Aligned
      /\ up' = FALSE /\ requests' = <<>> /\ (stream' = stream \/ stream' = <<>>)
      /\ UNCHANGED <<dialect, streamPhase, ids, Sent, header>>
  BY DEF WireInv, Wire!Close, Sent
<1>2. <<>> \in Seq([number : Nat \ {0}, readable : BOOLEAN]) /\ Len(<<>>) = 0
  BY EmptySeq
<1>3. WireTypes' /\ Framed(stream')
  BY <1>1, <1>2, EmptyIsFramed, AgainTyped DEF WireTypes
<1>4. InOrder'
  BY <1>1, <1>2 DEF InOrder
<1>5. Expected' /\ Aligned'
  BY <1>1, <1>2 DEF Expected, Aligned
<1> QED BY <1>3, <1>4, <1>5 DEF WireInv

LEMMA SendKeeps ==
  ASSUME WireInv, NEW new \in Nat, NEW comp, Wire!Send(new, comp),
         streamPhase \in {"connected", "idle"}
  PROVE  WireInv'
<1> PICK i \in Nat \ {0} : i = Sent + 1
  BY DEF WireInv, WireTypes
<1> DEFINE request == [number : Nat \ {0}, readable : BOOLEAN]
<1>1. /\ WireTypes /\ Framed(stream) /\ InOrder /\ Expected /\ Aligned
      /\ UNCHANGED <<dialect, header, up, stream>>
      /\ streamPhase' \in {"header", "idle", "dropped"}
      /\ requests' = requests \/ requests' = Append(requests, Wire!Written(i, comp))
  BY DEF WireInv, Wire!Send, Wire!Finish, Sent
<1>0. ids' \in Seq(Nat) /\ Sent' = i
  <2>1. ids' = Append(ids, new)
    BY DEF Wire!Send
  <2> QED BY <1>1, <2>1, AppendProperties DEF WireTypes, Sent
<1>2. Wire!Written(i, comp) \in request /\ Wire!Written(i, comp).number = i
  BY DEF Wire!Written
<1>3. PICK n \in Nat : n = Len(requests)
  BY <1>1, LenProperties DEF WireTypes
<1>4. \A j \in 1 .. n : requests[j].number \in Nat
  <2>1. \A j \in 1 .. n : requests[j] \in request
    BY <1>1, <1>3, ElementOfSeq DEF WireTypes
  <2> QED BY <2>1
<1>5. \A j \in 1 .. n : requests[j].number < i
  BY <1>1, <1>3, <1>4 DEF InOrder, WireTypes
<1>6. \A k \in 1 .. Len(stream) : stream[k].reply.to \in Nat /\ stream[k].reply.to < i
  <2>1. \A k \in 1 .. Len(stream) : stream[k].reply.to \in Nat
    BY <1>1, PlacesWithin DEF WireTypes
  <2> QED BY <1>1, <2>1 DEF InOrder, WireTypes
<1>7. /\ requests' \in Seq(request)
      /\ \A j \in 1 .. Len(requests') : requests'[j].number <= i
      /\ \A j, k \in 1 .. Len(requests') : j < k => requests'[j].number < requests'[k].number
      /\ \A k \in 1 .. Len(stream), j \in 1 .. Len(requests') :
           stream[k].reply.to < requests'[j].number
  <2>1. CASE requests' = requests
    <3>1. \A j, k \in 1 .. n : j < k => requests[j].number < requests[k].number
      BY <1>1, <1>3 DEF InOrder
    <3>2. \A k \in 1 .. Len(stream), j \in 1 .. n : stream[k].reply.to < requests[j].number
      BY <1>1, <1>3 DEF InOrder
    <3> QED BY <1>1, <1>3, <1>4, <1>5, <2>1, <3>1, <3>2 DEF WireTypes
  <2>2. CASE requests' = Append(requests, Wire!Written(i, comp))
    <3>1. /\ requests' \in Seq(request) /\ Len(requests') = n + 1
          /\ \A j \in 1 .. n : requests'[j] = requests[j]
          /\ requests'[n + 1].number = i
      BY <1>1, <1>2, <1>3, <2>2, AppendProperties DEF WireTypes
    <3>2. \A j, k \in 1 .. n : j < k => requests[j].number < requests[k].number
      BY <1>1, <1>3 DEF InOrder
    <3>3. \A k \in 1 .. Len(stream), j \in 1 .. n : stream[k].reply.to < requests[j].number
      BY <1>1, <1>3 DEF InOrder
    <3>4. \A j \in 1 .. n + 1 : j \in 1 .. n \/ j = n + 1
      BY <1>3
    <3>5. \A j \in 1 .. n + 1 : requests'[j].number <= i
      BY <1>4, <1>5, <3>1, <3>4
    <3>6. ASSUME NEW j \in 1 .. n + 1, NEW k \in 1 .. n + 1, j < k
          PROVE  requests'[j].number < requests'[k].number
      <4>1. j \in 1 .. n
        BY <1>3, <3>6
      <4>2. CASE k \in 1 .. n
        BY <3>1, <3>2, <3>6, <4>1, <4>2
      <4>3. CASE k = n + 1
        BY <1>5, <3>1, <4>1, <4>3
      <4> QED BY <3>4, <4>2, <4>3
    <3>7. ASSUME NEW k \in 1 .. Len(stream), NEW j \in 1 .. n + 1
          PROVE  stream[k].reply.to < requests'[j].number
      BY <1>6, <3>1, <3>3, <3>4
    <3> QED BY <3>1, <3>5, <3>6, <3>7
  <2> QED BY <1>1, <2>1, <2>2
<1>8. WireTypes'
  <2>1. again' \subseteq Nat
    BY <1>1 DEF Wire!Send, Wire!Finish, WireTypes
  <2> QED BY <1>0, <1>1, <1>7, <2>1 DEF WireTypes
<1>9. InOrder'
  <2>1. \A k \in 1 .. Len(stream) : stream[k].reply.to <= i
    BY <1>6
  <2> QED BY <1>0, <1>1, <1>7, <2>1 DEF InOrder
<1>10. Aligned'
  BY <1>1 DEF Aligned, InOrder
<1>11. Expected'
  BY <1>1 DEF Expected
<1> QED BY <1>1, <1>8, <1>9, <1>10, <1>11 DEF WireInv

\* Reading keeps the order of what is left.
LEMMA TakeKeepsOrder ==
  ASSUME WireInv, NEW n \in Nat, Wire!Take(n), UNCHANGED <<ids, Sent, requests, dialect>>,
         streamPhase' # "connected"
  PROVE  InOrder' /\ \A i \in 1 .. Len(stream') : stream'[i].reply.kind \in dialect
<1>1. /\ \A i \in 1 .. Len(stream') : n + i \in 1 .. Len(stream) /\ stream'[i] = stream[n + i]
      /\ InOrder /\ Expected
  BY TakeFacts DEF WireInv
<1>2. \A i \in 1 .. Len(stream') :
        stream'[i].reply.to <= Sent /\ stream'[i].reply.kind \in dialect
  BY <1>1 DEF InOrder, Expected
<1>3. \A i \in 1 .. Len(stream'), j \in 1 .. Len(requests) :
        stream'[i].reply.to < requests[j].number
  BY <1>1 DEF InOrder
<1> QED BY <1>1, <1>2, <1>3 DEF InOrder

\* The same if everything is thrown away.
LEMMA EmptyKeepsOrder ==
  ASSUME WireInv, stream' = <<>>, UNCHANGED <<ids, Sent, requests, dialect>>,
         streamPhase' # "connected"
  PROVE  /\ InOrder' /\ stream' \in Seq(Bytes) /\ Framed(stream')
         /\ \A i \in 1 .. Len(stream') : stream'[i].reply.kind \in dialect
<1>1. /\ InOrder /\ Len(stream') = 0
      /\ stream' \in Seq(Bytes) /\ Framed(stream')
  BY EmptyIsFramed DEF WireInv
<1> QED BY <1>1 DEF InOrder

\* Behind a header that was read at its place there is its body, or a compression
\* header, or the next message.
LEMMA HeaderFacts ==
  ASSUME WireInv, Wire!Take(16), Wire!AtMessage
  PROVE  /\ stream # <<>> /\ stream[1].place = 1
         /\ Head(stream).reply = stream[1].reply
         /\ stream[1].reply.kind \in Kinds \cap dialect
         /\ stream[1].reply.kind \in Simple =>
              stream' # <<>> /\ stream'[1] = [reply |-> stream[1].reply, place |-> 17]
         /\ stream[1].reply.kind = "undersized" => stream' = <<>> \/ stream'[1].place = 1
<1>1. PICK l \in Nat : l = Len(stream) /\ 16 <= l
  BY TakeFacts
<1>2. /\ stream \in Seq(Bytes) /\ Framed(stream)
      /\ stream' \in Seq(Bytes) /\ Len(stream') = l - 16
      /\ \A i \in 1 .. l - 16 : stream'[i] = stream[16 + i]
  BY <1>1, TakeFacts DEF WireInv, WireTypes
<1>3. stream # <<>> /\ Head(stream) = stream[1] /\ 1 \in 1 .. l
  BY <1>1, <1>2, EmptyIsFramed
<1>4. /\ stream[1].place = 1 /\ stream[1].reply.kind \in Kinds
      /\ stream[1].reply.kind \in dialect
  BY <1>1, <1>2, <1>3, PlacesWithin DEF Wire!AtMessage, WireInv, Expected
<1> DEFINE r == stream[1].reply
<1>5. \A p \in Nat : 1 <= p /\ p <= Wire!SizeOf(r.kind) =>
        1 + (p - 1) \in 1 .. l /\ stream[1 + (p - 1)] = [reply |-> r, place |-> p]
  BY <1>1, <1>2, <1>3, <1>4 DEF Framed
<1> HIDE DEF r
<1>6. ASSUME r.kind \in Simple
      PROVE  stream' # <<>> /\ stream'[1] = [reply |-> r, place |-> 17]
  <2>1. 17 <= Wire!SizeOf(r.kind)
    BY <1>6, MessageSizes
  <2>2. 17 \in 1 .. l /\ stream[17] = [reply |-> r, place |-> 17]
    <3>1. 1 + (17 - 1) \in 1 .. l /\ stream[1 + (17 - 1)] = [reply |-> r, place |-> 17]
      BY <1>5, <2>1
    <3>2. 1 + (17 - 1) = 17
      OBVIOUS
    <3> QED BY <3>1, <3>2
  <2>3. 1 \in 1 .. l - 16 /\ 16 + 1 = 17
    BY <1>1, <2>2
  <2>4. stream'[1] = stream[17]
    BY <1>2, <2>3
  <2>5. stream' # <<>>
    BY <1>1, <1>2, <2>3, EmptyIsFramed
  <2> QED BY <2>2, <2>4, <2>5
<1>7. ASSUME r.kind = "undersized", stream' # <<>>
      PROVE  stream'[1].place = 1
  <2>1. Wire!SizeOf(r.kind) = 16
    BY <1>7, MessageSizes
  <2>2. stream[16] = [reply |-> r, place |-> 16]
    <3>1. stream[1 + (16 - 1)] = [reply |-> r, place |-> 16]
      BY <1>5, <2>1
    <3>2. 1 + (16 - 1) = 16
      OBVIOUS
    <3> QED BY <3>1, <3>2
  <2>3. stream[16].place = Wire!SizeOf(stream[16].reply.kind)
    BY <2>1, <2>2
  <2>4. l - 16 # 0
    <3>1. Len(stream') # 0
      BY <1>2, <1>7, EmptySeq
    <3> QED BY <1>2, <3>1
  <2>5. 16 # l /\ 16 \in 1 .. l /\ 1 \in 1 .. l - 16
    BY <1>1, <2>4
  <2>6. stream[16 + 1].place = 1
    BY <1>1, <1>2, <2>3, <2>5 DEF Framed
  <2> QED BY <1>2, <2>5, <2>6
<1> QED BY <1>3, <1>4, <1>6, <1>7 DEF r

LEMMA ReadHeaderKeeps == ASSUME WireInv, Wire!ReadHeader PROVE WireInv'
<1>1. /\ streamPhase = "header" /\ Wire!Take(16)
      /\ UNCHANGED <<dialect, ids, Sent, up, requests>>
      /\ WireTypes /\ InOrder /\ Expected /\ Aligned
  BY DEF WireInv, Wire!ReadHeader, Wire!HeaderSize, Sent
<1>2. stream' \in Seq(Bytes) /\ Framed(stream')
  BY <1>1, TakeFacts
<1>3. stream # <<>> /\ Head(stream) = stream[1]
  <2>1. 16 <= Len(stream)
    BY <1>1, TakeFacts
  <2>2. stream # <<>>
    BY <1>1, <2>1, EmptyIsFramed
  <2> QED BY <1>1, <2>2 DEF WireTypes
<1>4. CASE /\ ~Wire!AtMessage \/ Head(stream).reply.kind = "foreign"
           /\ Wire!Complete("io")
  <2>1. streamPhase' \in {"idle", "dropped"}
    BY <1>4 DEF Wire!Complete, Wire!Finish
  <2>2. InOrder' /\ \A i \in 1 .. Len(stream') : stream'[i].reply.kind \in dialect
    BY <1>1, <2>1, TakeKeepsOrder
  <2>3. dialect \cap ({"foreign"} \cup Wire!Compressed) # {}
    <3>1. Wire!AtMessage => stream[1].reply.kind \in dialect
      BY <1>1, HeaderFacts
    <3>2. Head(stream).place # 1 => dialect \cap ({"foreign"} \cup Wire!Compressed) # {}
      BY <1>1, <1>3 DEF Aligned
    <3> QED BY <1>3, <1>4, <3>1, <3>2 DEF Wire!AtMessage
  <2>4. Expected' /\ Aligned'
    BY <1>1, <2>1, <2>2, <2>3 DEF Expected, Aligned
  <2>5. WireTypes'
    BY <1>1, <1>2, <2>1, AgainTyped DEF WireTypes
  <2> QED BY <1>2, <2>2, <2>4, <2>5 DEF WireInv
<1>5. CASE /\ Wire!AtMessage /\ header' = Head(stream).reply /\ header'.kind # "foreign"
           /\ \/ header'.kind = "undersized" /\ Wire!Complete("panic")
              \/ streamPhase' = IF header'.kind \in Wire!Compressed THEN "compression"
                                ELSE IF header'.kind = "undersized" THEN "starved" ELSE "body"
  <2>1. /\ header'.kind \in Kinds \cap dialect
        /\ header'.kind \in Simple =>
             stream' # <<>> /\ stream'[1] = [reply |-> header', place |-> 17]
        /\ header'.kind = "undersized" => stream' = <<>> \/ stream'[1].place = 1
    BY <1>1, <1>5, HeaderFacts
  <2>2. /\ streamPhase' \in {"idle", "dropped", "compression", "starved", "body"}
        /\ streamPhase' = "body" => header'.kind \in Simple
        /\ streamPhase' = "compression" => header'.kind \in Wire!Compressed
        /\ streamPhase' \in {"idle", "dropped", "starved"} => header'.kind = "undersized"
    BY <1>5, <2>1 DEF Kinds, Simple, Wire!Complete, Wire!Finish
  <2>3. InOrder' /\ \A i \in 1 .. Len(stream') : stream'[i].reply.kind \in dialect
    BY <1>1, <2>2, TakeKeepsOrder
  <2>4. Expected'
    BY <1>1, <2>1, <2>2, <2>3 DEF Expected, Wire!HeaderSize
  <2>5. Aligned'
    BY <1>1, <2>1, <2>2 DEF Aligned
  <2>6. WireTypes'
    BY <1>1, <1>2, <2>2, AgainTyped DEF WireTypes
  <2> QED BY <1>2, <2>3, <2>4, <2>5, <2>6 DEF WireInv
<1> QED BY <1>4, <1>5 DEF Wire!ReadHeader

LEMMA ReadCompressionKeeps == ASSUME WireInv, Wire!ReadCompression PROVE WireInv'
<1>1. /\ streamPhase = "compression" /\ UNCHANGED <<dialect, ids, Sent, header, up, requests>>
      /\ streamPhase' \in {"body", "idle", "dropped"}
      /\ Wire!Take(16) \/ stream' = <<>>
      /\ streamPhase' = "body" => header.kind \in {"noop", "nested"}
      /\ WireTypes /\ Expected
  BY DEF WireInv, Wire!ReadCompression, Wire!Complete, Wire!Finish, Wire!CompressionRead, Sent
<1>2. /\ stream' \in Seq(Bytes) /\ Framed(stream') /\ InOrder'
      /\ \A i \in 1 .. Len(stream') : stream'[i].reply.kind \in dialect
  BY <1>1, TakeFacts, TakeKeepsOrder, EmptyKeepsOrder
<1>3. header.kind \in dialect \cap Wire!Compressed
  BY <1>1 DEF Expected
<1>4. WireTypes'
  BY <1>1, <1>2, AgainTyped DEF WireTypes
<1>5. Expected'
  BY <1>1, <1>2, <1>3 DEF Expected, Simple
<1>6. Aligned'
  BY <1>1, <1>3 DEF Aligned
<1> QED BY <1>2, <1>4, <1>5, <1>6 DEF WireInv

\* A body ends where its message ends.
LEMMA BodyFacts ==
  ASSUME WireInv, streamPhase = "body", header.kind \in Simple,
         Wire!Take(Wire!BodyOf(header.kind))
  PROVE  /\ 1 \in 1 .. Len(stream) /\ stream[1].reply = header
         /\ Wire!BodyOf(header.kind) + 1 \in 2 .. Len(stream) =>
              stream[Wire!BodyOf(header.kind) + 1].place = 1
<1>1. PICK b \in Nat \ {0} : b = Wire!BodyOf(header.kind) /\ Wire!SizeOf(header.kind) = 16 + b
  BY MessageSizes
<1>2. PICK l \in Nat : l = Len(stream) /\ b <= l
  BY <1>1, TakeFacts
<1>3. stream \in Seq(Bytes) /\ Framed(stream) /\ 1 \in 1 .. l /\ stream # <<>>
  BY <1>1, <1>2, EmptyIsFramed DEF WireInv, WireTypes
<1>4. stream[1] = [reply |-> header, place |-> 17]
  BY <1>3 DEF WireInv, Expected, Wire!HeaderSize
<1>5. stream[1].reply = header /\ stream[1].place = 17
  BY <1>4
<1>6. stream[b] = [reply |-> header, place |-> 16 + b]
  <2>1. 16 + b \in Nat /\ 17 <= 16 + b /\ 1 + ((16 + b) - 17) = b
    BY <1>1
  <2>2. stream[1 + ((16 + b) - 17)] = [reply |-> header, place |-> 16 + b]
    BY <1>1, <1>2, <1>3, <1>5, <2>1 DEF Framed
  <2> QED BY <2>1, <2>2
<1>7. stream[b].place = Wire!SizeOf(stream[b].reply.kind)
  BY <1>1, <1>6
<1>8. ASSUME b + 1 \in 2 .. l PROVE stream[b + 1].place = 1
  <2>1. b \in 1 .. l /\ b # l
    BY <1>1, <1>2, <1>8
  <2> QED BY <1>2, <1>3, <1>7, <2>1 DEF Framed
<1> QED BY <1>1, <1>2, <1>3, <1>5, <1>8

LEMMA ReadBodyKeeps == ASSUME WireInv, Wire!ReadBody PROVE WireInv'
<1>1. /\ streamPhase = "body" /\ Wire!Take(Wire!BodyOf(header.kind))
      /\ UNCHANGED <<dialect, ids, Sent, header, up, requests>>
      /\ streamPhase' \in {"idle", "dropped"}
      /\ WireTypes /\ Expected
  BY DEF WireInv, Wire!ReadBody, Wire!Complete, Wire!Finish, Sent
<1>2. header.kind \in dialect \cap (Simple \cup {"noop", "nested"})
  BY <1>1 DEF Expected
<1>3. PICK b \in Nat : b = Wire!BodyOf(header.kind)
  BY <1>2, BodySizes, MessageSizes, WireConstants
<1>4. /\ stream' \in Seq(Bytes) /\ Framed(stream') /\ InOrder'
      /\ \A i \in 1 .. Len(stream') : stream'[i].reply.kind \in dialect
      /\ Len(stream) \in Nat /\ Len(stream') = Len(stream) - b
      /\ \A i \in 1 .. Len(stream') : b + i \in 1 .. Len(stream) /\ stream'[i] = stream[b + i]
  BY <1>1, <1>3, TakeFacts, TakeKeepsOrder
<1>5. ASSUME header.kind \in Simple, stream' # <<>> PROVE stream'[1].place = 1
  <2>1. b # 0
    BY <1>3, <1>5, MessageSizes
  <2>2. Len(stream') \in Nat \ {0}
    BY <1>4, <1>5, EmptySeq
  <2>3. 1 \in 1 .. Len(stream')
    BY <2>2
  <2>4. b + 1 \in 1 .. Len(stream) /\ stream'[1] = stream[b + 1]
    BY <1>4, <2>3
  <2>5. b + 1 \in 2 .. Len(stream)
    BY <1>3, <1>4, <2>1, <2>4
  <2> QED BY <1>1, <1>3, <1>5, <2>4, <2>5, BodyFacts
<1>6. WireTypes'
  BY <1>1, <1>4, AgainTyped DEF WireTypes
<1>7. Expected'
  BY <1>1, <1>4 DEF Expected
<1>8. Aligned'
  BY <1>1, <1>2, <1>5 DEF Aligned, Wire!Compressed
<1> QED BY <1>4, <1>6, <1>7, <1>8 DEF WireInv

LEMMA ReadFailsKeeps == ASSUME WireInv, Wire!ReadFails PROVE WireInv'
<1>1. /\ stream' = <<>> /\ UNCHANGED <<dialect, ids, Sent, header, up, requests>>
      /\ streamPhase # "connected" /\ streamPhase' \in {"idle", "dropped"}
      /\ WireTypes
  BY DEF WireInv, Wire!ReadFails, Wire!Complete, Wire!Finish, Sent
<1>2. /\ InOrder' /\ stream' \in Seq(Bytes) /\ Framed(stream')
      /\ \A i \in 1 .. Len(stream') : stream'[i].reply.kind \in dialect
  BY <1>1, EmptyKeepsOrder
<1>3. WireTypes'
  BY <1>1, <1>2, AgainTyped DEF WireTypes
<1> QED
  BY <1>1, <1>2, <1>3 DEF WireInv, Expected, Aligned

LEMMA WireStep ==
  ASSUME WireInv, [Wire!Next]_(Wire!vars)
  PROVE  WireInv'
<1>1. CASE Wire!Handshake
  BY <1>1, SendKeeps DEF Wire!Handshake
<1>2. CASE Wire!Command
  <2>1. PICK i \in (1 .. LastRequest) \cup again : Wire!Send(i, compressor)
    BY <1>2 DEF Wire!Command
  <2>2. i \in Nat
    BY <2>1, CallsAssumption DEF Wire!WireAssumption, WireInv, WireTypes
  <2> QED BY <1>2, <2>1, <2>2, SendKeeps DEF Wire!Command
<1>3. CASE UNCHANGED Wire!vars
  BY <1>3 DEF Wire!vars, WireInv, WireTypes, InOrder, Expected, Aligned, Sent
<1>4. CASE Wire!Serve \/ Wire!Close
  BY <1>4, AnswerKeeps, CloseKeeps
<1>5. CASE Wire!ReadHeader \/ Wire!ReadCompression
  BY <1>5, ReadHeaderKeeps, ReadCompressionKeeps
<1>6. CASE Wire!ReadBody \/ Wire!ReadFails
  BY <1>6, ReadBodyKeeps, ReadFailsKeeps
<1> QED BY <1>1, <1>2, <1>3, <1>4, <1>5, <1>6 DEF Wire!Next

LEMMA WireAlways == CallsSpec => []WireInv
<1> QED BY WireInit, WireStep, WireRuns, PTL DEF Wire!Spec

\* A stream that run_command gives back, after an error as well, is at the start of
\* a message, unless the server answers with another op code or compressed.
THEOREM ReadsInStep == CallsSpec => []InStep
<1>1. ASSUME WireInv PROVE InStep
  <2>1. SUFFICES ASSUME streamPhase = "idle", stream # <<>>,
                        dialect \cap ({"foreign"} \cup Wire!Compressed) = {}
                 PROVE  Wire!AtMessage
    BY DEF InStep, Wire!InStep
  <2>2. stream[1].place = 1 /\ stream \in Seq(Bytes)
    BY <1>1, <2>1 DEF WireInv, Aligned, WireTypes
  <2>3. Head(stream) = stream[1]
    BY <2>1, <2>2
  <2> QED BY <2>2, <2>3 DEF Wire!AtMessage
<1> QED BY <1>1, WireAlways, PTL

\* The only step that ends a call with success reads the last byte of a reply to it.
\* If that is the latest, there is no request left that the server could still answer.
LEMMA SuccessLeavesNothing ==
  ASSUME WireInv, [Wire!Next]_(Wire!vars), exchange # "ok", exchange' = "ok"
  PROVE  /\ header.to \in Wire!Attempts(Wire!id)
         /\ header.to = Len(ids) => stream' = <<>> /\ requests' = <<>>
<1>1. Wire!ReadBody
  <2>1. \A i : ~Wire!Send(i, "none") /\ ~Wire!Send(i, compressor)
    BY DEF Wire!Send, Wire!Finish
  <2> QED
    BY <2>1 DEF Wire!Next, Wire!vars, Wire!Serve, Wire!Close, Wire!Handshake, Wire!Command,
                Wire!ReadHeader, Wire!ReadCompression, Wire!ReadFails, Wire!Complete, Wire!Finish
<1>2. /\ streamPhase = "body" /\ Wire!Take(Wire!BodyOf(header.kind))
      /\ "ok" \in Wire!Verdicts(header) /\ requests' = requests
      /\ header.kind \in Simple \cup {"noop", "nested"}
      /\ WireTypes /\ InOrder /\ Framed(stream)
  BY <1>1 DEF Wire!ReadBody, Wire!Complete, Wire!Finish, WireInv, Expected
<1>3. header.kind = "plain" /\ ids[header.to] = Wire!id
  BY <1>2, SuccessIsOwnReply
<1>4. PICK b \in Nat \ {0} : b = Wire!BodyOf(header.kind)
  BY <1>3, MessageSizes DEF Simple
<1>5. /\ 1 \in 1 .. Len(stream) /\ stream[1].reply = header
      /\ b + 1 \in 2 .. Len(stream) => stream[b + 1].place = 1
  BY <1>2, <1>3, <1>4, BodyFacts DEF Simple
<1>6. /\ b <= Len(stream) /\ Len(stream) \in Nat /\ Len(stream') = Len(stream) - b
      /\ stream' \in Seq(Bytes)
  BY <1>2, <1>4, TakeFacts
<1>7. header.to \in Wire!Attempts(Wire!id)
  <2>1. stream[1].reply.to \in Nat \ {0} /\ stream[1].reply.to <= Sent
    <3>1. stream[1] \in Bytes
      BY <1>2, <1>5, PlacesWithin DEF WireTypes
    <3> QED BY <1>2, <1>5, <3>1 DEF Bytes, Replies, InOrder
  <2> QED BY <1>2, <1>3, <1>5, <2>1 DEF Wire!Attempts, WireTypes, Sent
<1> SUFFICES ASSUME header.to = Sent PROVE stream' = <<>> /\ requests' = <<>>
  BY <1>7 DEF Sent
<1>10. Len(stream) = b
  <2>1. SUFFICES ASSUME Len(stream) # b PROVE FALSE
    OBVIOUS
  <2>2. b + 1 \in 2 .. Len(stream) /\ b + 1 \in 1 .. Len(stream) /\ 1 < b + 1
    BY <1>4, <1>6, <2>1
  <2>3. stream[1].reply.to < stream[b + 1].reply.to
    BY <1>2, <1>5, <2>2 DEF Framed
  <2>4. stream[b + 1].reply.to <= Sent /\ stream[b + 1].reply.to \in Nat
    BY <1>2, <2>2, PlacesWithin DEF InOrder, WireTypes
  <2> QED BY <1>2, <1>3, <1>5, <2>3, <2>4 DEF WireTypes
<1>8. stream' = <<>>
  BY <1>6, <1>10, EmptySeq
<1>9. requests = <<>>
  <2>1. SUFFICES ASSUME requests # <<>> PROVE FALSE
    OBVIOUS
  <2>2. 1 \in 1 .. Len(requests)
    BY <1>2, <2>1, EmptySeq DEF WireTypes
  <2>3. stream[1].reply.to < requests[1].number /\ requests[1].number <= Sent
    BY <1>2, <1>5, <2>2 DEF InOrder
  <2>4. requests[1].number \in Nat
    <3>1. requests[1] \in [number : Nat \ {0}, readable : BOOLEAN]
      BY <1>2, <2>2, ElementOfSeq DEF WireTypes
    <3> QED BY <3>1
  <2> QED BY <1>2, <1>3, <1>5, <2>3, <2>4 DEF WireTypes
<1> QED BY <1>2, <1>8, <1>9

\* A call succeeds only with a reply to a request of its own, and if that is the one
\* sent last no reply to an earlier one, and no request, is still under way.
THEOREM RepliesAreOwn == CallsSpec => OwnReply
<1>1. WireInv /\ [Wire!Next]_(Wire!vars) =>
        [exchange # "ok" /\ exchange' = "ok" =>
           /\ header.to \in Wire!Attempts(Wire!id)
           /\ header.to = Len(ids) => stream' = <<>> /\ requests' = <<>>]_(Wire!vars)
  BY SuccessLeavesNothing
<1> QED BY <1>1, WireAlways, WireRuns, PTL DEF Wire!Spec, OwnReply, Wire!OwnReply

-----------------------------------------------------------------------------
(***************************************************************************)
(* Cursor.  What has been read, delivered or not, against what the server  *)
(* has sent: where the two differ an error has been shown that no gap      *)
(* accounts for yet.                                                       *)
(***************************************************************************)
GapsOf(s) == {i \in 2 .. Len(s) : s[i] # s[i - 1] + 1}

LastOf(s) == s[Len(s)]

Ascends(s) == \A i, j \in 1 .. Len(s) : i < j => s[i] < s[j]

Read == (<<0>> \o delivered) \o buffer

Reached == IF cursor_id = 0 THEN Last ELSE cursors[cursor_id].sent

CursorTypes ==
  /\ caller \in Callers
  /\ cursor_id \in {0} \cup Cursor!Ids
  /\ buffer \in Seq(Nat) /\ delivered \in Seq(Nat)
  /\ errors \in Nat /\ faults \in Nat
  /\ cursors \in [Cursor!Ids -> [at : CursorServers \cup {NoServer}, sent : 0 .. Last]]

\* The attempt that opens the cursor finds it as it was.
NothingRead ==
  cursorPhase = "opening" =>
    /\ delivered = <<>> /\ buffer = <<>>
    /\ errors = 0
    /\ cursors[2] = Cursor!Unknown
    /\ faults = 0 => cursors[1] = Cursor!Unknown

\* The server is ahead of what was read only with an error to show for it.
BehindWithErrors ==
  cursorPhase = "reading" =>
    /\ LastOf(Read) <= Reached
    /\ Cardinality(GapsOf(Read)) <= errors
    /\ LastOf(Read) # Reached => Cardinality(GapsOf(Read)) + 1 <= errors

EndsWithErrors ==
  cursorPhase = "ended" => Cardinality(GapsOf(Append(Read, Last + 1))) <= errors

CursorInv ==
  /\ CursorTypes
  /\ cursorPhase \in {"opening", "reading", "ended"}
  /\ NothingRead /\ BehindWithErrors /\ EndsWithErrors
  /\ Ascends(Read)

-----------------------------------------------------------------------------
(* Sequences of positions *)

LEMMA CursorConstants ==
  /\ Last \in Nat /\ BatchSize \in Nat
  /\ \A c \in Callers : c.openers \subseteq CursorServers /\ c.eligible \subseteq CursorServers
BY CallsAssumption DEF Cursor!CursorAssumption

\* The Cardinality that Cursor has from FiniteSets is the one of the library.
LEMMA CursorCardinality == ASSUME NEW S PROVE Cursor!Cardinality(S) = Cardinality(S)
BY DEF Cursor!Cardinality, Cardinality

LEMMA GapsAreFinite ==
  ASSUME NEW s \in Seq(Nat)
  PROVE  IsFiniteSet(GapsOf(s)) /\ Cardinality(GapsOf(s)) \in Nat
<1>1. Len(s) \in Nat
  BY LenProperties
<1>2. GapsOf(s) \in SUBSET Nat /\ \A i \in GapsOf(s) : i <= Len(s)
  BY <1>1 DEF GapsOf
<1>3. IsFiniteSet(GapsOf(s))
  BY <1>1, <1>2, FS_BoundedSetOfNaturals
<1> QED BY <1>3, FS_CardinalityType

\* A run of n positions from b + 1 on, put behind s, makes one gap, unless the
\* run is empty or goes on where s stops.
LEMMA RunMakesOneGap ==
  ASSUME NEW s \in Seq(Nat), s # <<>>, NEW b \in Nat, NEW n \in Nat, NEW t \in Seq(Nat),
         Len(t) = Len(s) + n,
         \A i \in 1 .. Len(s) : t[i] = s[i],
         \A i \in 1 .. n : t[Len(s) + i] = b + i
  PROVE  /\ n = 0 \/ LastOf(s) = b => GapsOf(t) = GapsOf(s)
         /\ Cardinality(GapsOf(t)) <= Cardinality(GapsOf(s)) + 1
         /\ LastOf(t) = IF n = 0 THEN LastOf(s) ELSE b + n
         /\ Ascends(s) /\ LastOf(s) <= b => Ascends(t)
<1>1. PICK l \in Nat \ {0} : l = Len(s)
  BY EmptySeq
<1>2. \A i \in 1 .. l : s[i] \in Nat
  BY <1>1, ElementOfSeq
<1>3. \A i \in 2 .. l : i \in GapsOf(t) <=> i \in GapsOf(s)
  <2>1. SUFFICES ASSUME NEW i \in 2 .. l PROVE i \in GapsOf(t) <=> i \in GapsOf(s)
    OBVIOUS
  <2>2. i \in 1 .. l /\ i - 1 \in 1 .. l /\ i \in 2 .. l + n
    BY <2>1
  <2>3. t[i] = s[i] /\ t[i - 1] = s[i - 1]
    BY <1>1, <2>2
  <2> QED BY <1>1, <2>2, <2>3 DEF GapsOf
<1>4. \A i \in l + 2 .. l + n : i \notin GapsOf(t)
  <2>1. SUFFICES ASSUME NEW i \in l + 2 .. l + n PROVE t[i] = t[i - 1] + 1
    BY DEF GapsOf
  <2>2. i - l \in 1 .. n /\ i - 1 - l \in 1 .. n
    BY <2>1
  <2>3. t[l + (i - l)] = b + (i - l) /\ t[l + (i - 1 - l)] = b + (i - 1 - l)
    BY <1>1, <2>2
  <2> QED BY <2>1, <2>3
<1>5. n > 0 => t[l + 1] = b + 1
  BY <1>1
<1>6. l + 1 \in GapsOf(t) => n > 0 /\ LastOf(s) # b
  <2>1. SUFFICES ASSUME l + 1 \in GapsOf(t) PROVE n > 0 /\ LastOf(s) # b
    OBVIOUS
  <2>2. l + 1 \in 2 .. l + n /\ t[l + 1] # t[(l + 1) - 1] + 1
    BY <1>1, <2>1 DEF GapsOf
  <2>3. n > 0
    BY <2>2
  <2>4. (l + 1) - 1 = l /\ t[l] = LastOf(s)
    BY <1>1 DEF LastOf
  <2> QED BY <1>5, <2>2, <2>3, <2>4
<1>7. GapsOf(s) \subseteq GapsOf(t)
  BY <1>1, <1>3 DEF GapsOf
<1>8. GapsOf(t) \subseteq GapsOf(s) \cup {l + 1}
  <2>1. SUFFICES ASSUME NEW i \in GapsOf(t), i # l + 1 PROVE i \in GapsOf(s)
    OBVIOUS
  <2>2. i \in 2 .. l + n
    BY <1>1 DEF GapsOf
  <2>3. i \in 2 .. l \/ i \in l + 2 .. l + n
    BY <2>1, <2>2
  <2> QED BY <1>3, <1>4, <2>1, <2>3
<1>9. n = 0 \/ LastOf(s) = b => GapsOf(t) = GapsOf(s)
  <2>1. SUFFICES ASSUME n = 0 \/ LastOf(s) = b PROVE GapsOf(t) = GapsOf(s)
    OBVIOUS
  <2>2. l + 1 \notin GapsOf(t)
    BY <1>6, <2>1
  <2> QED BY <1>7, <1>8, <2>2
<1>10. Cardinality(GapsOf(t)) <= Cardinality(GapsOf(s)) + 1
  <2>1. /\ IsFiniteSet(GapsOf(s)) /\ Cardinality(GapsOf(s)) \in Nat
        /\ Cardinality(GapsOf(t)) \in Nat
    BY GapsAreFinite
  <2>2. /\ IsFiniteSet(GapsOf(s) \cup {l + 1})
        /\ \/ Cardinality(GapsOf(s) \cup {l + 1}) = Cardinality(GapsOf(s))
           \/ Cardinality(GapsOf(s) \cup {l + 1}) = Cardinality(GapsOf(s)) + 1
    BY <2>1, FS_AddElement
  <2>3. Cardinality(GapsOf(t)) <= Cardinality(GapsOf(s) \cup {l + 1})
    BY <1>8, <2>2, FS_Subset
  <2> QED BY <2>1, <2>2, <2>3
<1>11. LastOf(t) = IF n = 0 THEN LastOf(s) ELSE b + n
  BY <1>1 DEF LastOf
<1>12. ASSUME Ascends(s), LastOf(s) <= b PROVE Ascends(t)
  <2>1. SUFFICES ASSUME NEW i \in 1 .. l + n, NEW j \in 1 .. l + n, i < j PROVE t[i] < t[j]
    BY <1>1 DEF Ascends
  <2>2. \A k \in 1 .. l : t[k] = s[k] /\ s[k] \in Nat
    BY <1>1, <1>2
  <2>3. \A k \in 1 .. l : s[k] <= b
    BY <1>1, <1>2, <1>12 DEF Ascends, LastOf
  <2>4. \A k \in l + 1 .. l + n : t[k] = b + (k - l)
    <3>1. SUFFICES ASSUME NEW k \in l + 1 .. l + n PROVE t[k] = b + (k - l)
      OBVIOUS
    <3>2. k - l \in 1 .. n
      OBVIOUS
    <3>3. t[l + (k - l)] = b + (k - l)
      BY <1>1, <3>2
    <3> QED BY <3>3
  <2>5. CASE j <= l
    BY <1>1, <1>12, <2>1, <2>2, <2>5 DEF Ascends
  <2>6. CASE i <= l /\ j > l
    BY <2>1, <2>2, <2>3, <2>4, <2>6
  <2>7. CASE i > l
    BY <2>1, <2>4, <2>7
  <2> QED BY <2>1, <2>5, <2>6, <2>7
<1> QED BY <1>9, <1>10, <1>11, <1>12

-----------------------------------------------------------------------------
(* What is read, as a sequence of positions. *)

LEMMA ReadParts ==
  ASSUME NEW d \in Seq(Nat), NEW b \in Seq(Nat)
  PROVE  LET r == (<<0>> \o d) \o b
         IN  /\ r \in Seq(Nat) /\ r # <<>>
             /\ Len(r) = 1 + Len(d) + Len(b)
             /\ r[1] = 0
             /\ \A i \in 1 .. Len(d) : r[1 + i] = d[i]
             /\ \A i \in 1 .. Len(b) : r[1 + Len(d) + i] = b[i]
<1> DEFINE z == <<0>>
           h == z \o d
           r == h \o b
<1>1. z \in Seq(Nat) /\ Len(z) = 1 /\ z[1] = 0
  OBVIOUS
<1>2. Len(d) \in Nat /\ Len(b) \in Nat
  BY LenProperties
<1> HIDE DEF z
<1>3. /\ h \in Seq(Nat) /\ Len(h) = 1 + Len(d)
      /\ \A i \in 1 .. 1 + Len(d) : h[i] = IF i <= 1 THEN z[i] ELSE d[i - 1]
  <2>1. /\ h \in Seq(Nat) /\ Len(h) = Len(z) + Len(d)
        /\ \A i \in 1 .. Len(z) + Len(d) : h[i] = IF i <= Len(z) THEN z[i] ELSE d[i - Len(z)]
    BY <1>1, ConcatProperties, Zenon
  <2> QED BY <1>1, <2>1
<1> HIDE DEF h
<1>4. /\ r \in Seq(Nat) /\ Len(r) = 1 + Len(d) + Len(b)
      /\ \A i \in 1 .. 1 + Len(d) + Len(b) :
           r[i] = IF i <= 1 + Len(d) THEN h[i] ELSE b[i - (1 + Len(d))]
  <2>1. /\ r \in Seq(Nat) /\ Len(r) = Len(h) + Len(b)
        /\ \A i \in 1 .. Len(h) + Len(b) : r[i] = IF i <= Len(h) THEN h[i] ELSE b[i - Len(h)]
    BY <1>3, ConcatProperties, Zenon
  <2> QED BY <1>3, <2>1
<1> HIDE DEF r
<1>5. r[1] = 0
  BY <1>1, <1>2, <1>3, <1>4
<1>6. ASSUME NEW i \in 1 .. Len(d) PROVE r[1 + i] = d[i]
  <2>1. 1 + i \in 1 .. 1 + Len(d) /\ 1 + i \in 1 .. 1 + Len(d) + Len(b)
    BY <1>2
  <2>2. h[1 + i] = d[i]
    BY <1>2, <1>3, <2>1
  <2> QED BY <1>2, <1>4, <2>1, <2>2
<1>7. ASSUME NEW i \in 1 .. Len(b) PROVE r[1 + Len(d) + i] = b[i]
  <2>1. 1 + Len(d) + i \in 1 .. 1 + Len(d) + Len(b)
    BY <1>2
  <2>2. ~(1 + Len(d) + i <= 1 + Len(d)) /\ (1 + Len(d) + i) - (1 + Len(d)) = i
    BY <1>2
  <2> QED BY <1>4, <2>1, <2>2
<1>8. r # <<>>
  BY <1>2, <1>4, EmptySeq
<1>9. r = (<<0>> \o d) \o b
  BY DEF r, h, z
<1> QED BY <1>4, <1>5, <1>6, <1>7, <1>8, <1>9

\* A document that goes from the buffer to the caller has been read before.
LEMMA PopReadsNothing ==
  ASSUME NEW d \in Seq(Nat), NEW b \in Seq(Nat), b # <<>>
  PROVE  /\ Append(d, Head(b)) \in Seq(Nat) /\ Tail(b) \in Seq(Nat)
         /\ (<<0>> \o Append(d, Head(b))) \o Tail(b) = (<<0>> \o d) \o b
<1> DEFINE d1 == Append(d, Head(b))
           b1 == Tail(b)
           r == (<<0>> \o d) \o b
           r1 == (<<0>> \o d1) \o b1
<1>1. PICK m \in Nat, n \in Nat \ {0} : m = Len(d) /\ n = Len(b)
  BY LenProperties, EmptySeq
<1>2. /\ d1 \in Seq(Nat) /\ Len(d1) = m + 1
      /\ \A i \in 1 .. m : d1[i] = d[i]
      /\ d1[m + 1] = b[1]
  BY <1>1, HeadTailProperties, AppendProperties
<1>3. /\ b1 \in Seq(Nat) /\ Len(b1) = n - 1
      /\ \A i \in 1 .. n - 1 : b1[i] = b[i + 1]
  BY <1>1, HeadTailProperties
<1> HIDE DEF d1, b1
<1>4. /\ r \in Seq(Nat) /\ Len(r) = 1 + m + n /\ r[1] = 0
      /\ \A i \in 1 .. m : r[1 + i] = d[i]
      /\ \A i \in 1 .. n : r[1 + m + i] = b[i]
  BY <1>1, ReadParts
<1>5. /\ r1 \in Seq(Nat) /\ Len(r1) = 1 + (m + 1) + (n - 1) /\ r1[1] = 0
      /\ \A i \in 1 .. m + 1 : r1[1 + i] = d1[i]
      /\ \A i \in 1 .. n - 1 : r1[1 + (m + 1) + i] = b1[i]
  <2>1. /\ r1 \in Seq(Nat) /\ Len(r1) = 1 + Len(d1) + Len(b1) /\ r1[1] = 0
        /\ \A i \in 1 .. Len(d1) : r1[1 + i] = d1[i]
        /\ \A i \in 1 .. Len(b1) : r1[1 + Len(d1) + i] = b1[i]
    BY <1>2, <1>3, ReadParts, Zenon
  <2> HIDE DEF r1
  <2> QED BY <1>2, <1>3, <2>1
<1> HIDE DEF r, r1
<1>6. ASSUME NEW i \in 1 .. 1 + m + n PROVE r1[i] = r[i]
  <2>1. CASE i = 1
    BY <1>4, <1>5, <2>1
  <2>2. CASE i > 1 /\ i <= 1 + m
    <3>1. PICK k \in 1 .. m : k \in 1 .. m + 1 /\ 1 + k = i
      <4>1. i - 1 \in 1 .. m /\ i - 1 \in 1 .. m + 1 /\ 1 + (i - 1) = i
        BY <2>2
      <4> QED BY <4>1
    <3>2. r1[i] = d1[k]
      BY <1>5, <3>1
    <3>3. r[i] = d[k]
      BY <1>4, <3>1
    <3> QED BY <1>2, <3>1, <3>2, <3>3
  <2>3. CASE i = 2 + m
    <3>1. m + 1 \in 1 .. m + 1 /\ 1 \in 1 .. n /\ 1 + (m + 1) = i /\ 1 + m + 1 = i
      BY <1>1, <2>3
    <3>2. r1[i] = d1[m + 1]
      BY <1>5, <3>1
    <3>3. r[i] = b[1]
      BY <1>4, <3>1
    <3> QED BY <1>2, <3>2, <3>3
  <2>4. CASE i > 2 + m
    <3>1. PICK k \in 1 .. n - 1 : k = i - (2 + m)
      BY <2>4
    <3>2. /\ 1 + (m + 1) + k = i /\ 1 + m + (k + 1) = i
          /\ k + 1 \in 1 .. n
      BY <3>1
    <3>3. r1[i] = b1[k]
      BY <1>5, <3>2
    <3>4. r[i] = b[k + 1]
      BY <1>4, <3>2
    <3> QED BY <1>3, <3>1, <3>3, <3>4
  <2> QED BY <2>1, <2>2, <2>3, <2>4
<1>7. Len(r1) = Len(r) /\ Len(r1) = 1 + m + n
  BY <1>4, <1>5
<1>8. r1 = r
  BY <1>4, <1>5, <1>6, <1>7, SeqEqual
<1> QED BY <1>2, <1>3, <1>8 DEF d1, b1, r, r1

\* A batch is a run of positions behind those that were read before.
LEMMA BatchIsRun ==
  ASSUME NEW d \in Seq(Nat), NEW b \in Nat, NEW n \in Nat
  PROVE  LET batch == [i \in 1 .. n |-> b + i]
             s == (<<0>> \o d) \o <<>>
             t == (<<0>> \o d) \o batch
         IN  /\ batch \in Seq(Nat) /\ s \in Seq(Nat) /\ s # <<>> /\ t \in Seq(Nat)
             /\ Len(t) = Len(s) + n
             /\ \A i \in 1 .. Len(s) : t[i] = s[i]
             /\ \A i \in 1 .. n : t[Len(s) + i] = b + i
<1> DEFINE batch == [i \in 1 .. n |-> b + i]
<1>1. batch \in Seq(Nat) /\ Len(batch) = n /\ \A i \in 1 .. n : batch[i] = b + i
  OBVIOUS
<1> HIDE DEF batch
<1> DEFINE s == (<<0>> \o d) \o <<>>
           t == (<<0>> \o d) \o batch
<1>2. PICK m \in Nat : m = Len(d)
  BY LenProperties
<1>3. /\ s \in Seq(Nat) /\ s # <<>> /\ Len(s) = 1 + m /\ s[1] = 0
      /\ \A i \in 1 .. m : s[1 + i] = d[i]
  <2>1. <<>> \in Seq(Nat) /\ Len(<<>>) = 0
    BY EmptySeq
  <2> QED BY <1>2, <2>1, ReadParts
<1>4. /\ t \in Seq(Nat) /\ Len(t) = 1 + m + n /\ t[1] = 0
      /\ \A i \in 1 .. m : t[1 + i] = d[i]
      /\ \A i \in 1 .. n : t[1 + m + i] = b + i
  BY <1>1, <1>2, ReadParts
<1> HIDE DEF s, t
<1>5. ASSUME NEW i \in 1 .. 1 + m PROVE t[i] = s[i]
  <2>1. CASE i = 1
    BY <1>3, <1>4, <2>1
  <2>2. CASE i > 1
    <3>1. i - 1 \in 1 .. m /\ 1 + (i - 1) = i
      BY <2>2
    <3> QED BY <1>3, <1>4, <3>1
  <2> QED BY <2>1, <2>2
<1>6. batch = [i \in 1 .. n |-> b + i]
  BY DEF batch
<1> QED BY <1>1, <1>2, <1>3, <1>4, <1>5, <1>6 DEF s, t

-----------------------------------------------------------------------------
(* Every step of an iteration keeps the invariant. *)

LEMMA ReadFacts ==
  ASSUME CursorTypes
  PROVE  /\ Read \in Seq(Nat) /\ Read # <<>>
         /\ Cardinality(GapsOf(Read)) \in Nat
         /\ LastOf(Read) \in Nat
<1>1. Read \in Seq(Nat) /\ Read # <<>>
  BY ReadParts DEF CursorTypes, Read
<1>2. Len(Read) \in 1 .. Len(Read)
  BY <1>1, EmptySeq
<1> QED BY <1>1, <1>2, ElementOfSeq, GapsAreFinite DEF LastOf

\* Before anything is read there is the position in front of the first.
LEMMA NothingReadFacts ==
  ASSUME delivered = <<>>, buffer = <<>>
  PROVE  Len(Read) = 1 /\ LastOf(Read) = 0 /\ Ascends(Read) /\ Cardinality(GapsOf(Read)) = 0
<1>1. <<>> \in Seq(Nat) /\ Len(<<>>) = 0
  BY EmptySeq
<1>2. Len(Read) = 1 /\ Read[1] = 0
  BY <1>1, ReadParts DEF Read
<1>3. GapsOf(Read) = {}
  BY <1>2 DEF GapsOf
<1> QED BY <1>2, <1>3, FS_EmptySet DEF LastOf, Ascends

\* What a batch adds to what was read.
LEMMA BatchIsRead ==
  ASSUME CursorTypes, buffer = <<>>, UNCHANGED delivered, NEW b \in Nat, NEW n \in Nat,
         buffer' = [i \in 1 .. n |-> b + i]
  PROVE  /\ buffer' \in Seq(Nat)
         /\ n = 0 \/ LastOf(Read) = b => GapsOf(Read') = GapsOf(Read)
         /\ Cardinality(GapsOf(Read')) <= Cardinality(GapsOf(Read)) + 1
         /\ LastOf(Read') = IF n = 0 THEN LastOf(Read) ELSE b + n
         /\ Ascends(Read) /\ LastOf(Read) <= b => Ascends(Read')
<1>1. /\ Read = (<<0>> \o delivered) \o <<>>
      /\ Read' = (<<0>> \o delivered) \o [i \in 1 .. n |-> b + i]
  BY DEF Read
<1>2. /\ buffer' \in Seq(Nat)
      /\ Read \in Seq(Nat) /\ Read # <<>> /\ Read' \in Seq(Nat)
      /\ Len(Read') = Len(Read) + n
      /\ \A i \in 1 .. Len(Read) : Read'[i] = Read[i]
      /\ \A i \in 1 .. n : Read'[Len(Read) + i] = b + i
  <2>1. delivered \in Seq(Nat)
    BY DEF CursorTypes
  <2> DEFINE run == [i \in 1 .. n |-> b + i]
             r == (<<0>> \o delivered) \o <<>>
             r1 == (<<0>> \o delivered) \o run
  <2>2. /\ run \in Seq(Nat) /\ r \in Seq(Nat) /\ r # <<>> /\ r1 \in Seq(Nat)
        /\ Len(r1) = Len(r) + n
        /\ \A i \in 1 .. Len(r) : r1[i] = r[i]
        /\ \A i \in 1 .. n : r1[Len(r) + i] = b + i
    BY <2>1, BatchIsRun
  <2>3. buffer' = run /\ Read = r /\ Read' = r1
    BY <1>1
  <2> HIDE DEF run, r, r1
  <2> QED BY <2>2, <2>3
<1> DEFINE s == Read
           t == Read'
<1> HIDE DEF s, t
<1>3. /\ s \in Seq(Nat) /\ s # <<>> /\ t \in Seq(Nat)
      /\ Len(t) = Len(s) + n
      /\ \A i \in 1 .. Len(s) : t[i] = s[i]
      /\ \A i \in 1 .. n : t[Len(s) + i] = b + i
  BY <1>2 DEF s, t
<1>4. /\ n = 0 \/ LastOf(s) = b => GapsOf(t) = GapsOf(s)
      /\ Cardinality(GapsOf(t)) <= Cardinality(GapsOf(s)) + 1
      /\ LastOf(t) = IF n = 0 THEN LastOf(s) ELSE b + n
      /\ Ascends(s) /\ LastOf(s) <= b => Ascends(t)
  BY <1>3, RunMakesOneGap
<1> QED BY <1>2, <1>4 DEF s, t

\* The end of the result, put behind what was read.
LEMMA LastIsRead ==
  ASSUME CursorTypes
  PROVE  LET t == Append(Read, Last + 1)
         IN  /\ LastOf(Read) = Last => GapsOf(t) = GapsOf(Read)
             /\ Cardinality(GapsOf(t)) <= Cardinality(GapsOf(Read)) + 1
             /\ Cardinality(GapsOf(t)) \in Nat
<1> DEFINE s == Read
           t == Append(s, Last + 1)
<1>1. s \in Seq(Nat) /\ s # <<>>
  BY ReadFacts
<1> HIDE DEF s
<1>2. /\ t \in Seq(Nat) /\ Len(t) = Len(s) + 1
      /\ \A i \in 1 .. Len(s) : t[i] = s[i]
      /\ t[Len(s) + 1] = Last + 1
  BY <1>1, CursorConstants, AppendProperties
<1> HIDE DEF t
<1>3. PICK n \in Nat : n = 1
  OBVIOUS
<1>4. Len(t) = Len(s) + n /\ \A i \in 1 .. n : t[Len(s) + i] = Last + i
  BY <1>2, <1>3
<1>5. /\ n = 0 \/ LastOf(s) = Last => GapsOf(t) = GapsOf(s)
      /\ Cardinality(GapsOf(t)) <= Cardinality(GapsOf(s)) + 1
  BY <1>1, <1>2, <1>4, CursorConstants, RunMakesOneGap
<1>6. Cardinality(GapsOf(t)) \in Nat
  BY <1>2, GapsAreFinite
<1> QED BY <1>5, <1>6 DEF s, t

LEMMA CursorInit == ASSUME Cursor!Init PROVE CursorInv
<1>1. CursorTypes
  BY EmptySeq, CursorConstants DEF Cursor!Init, CursorTypes, Cursor!Unknown, Cursor!Ids
<1>2. NothingRead
  BY DEF Cursor!Init, NothingRead, Cursor!Unknown, Cursor!Ids
<1>3. Ascends(Read)
  BY NothingReadFacts DEF Cursor!Init
<1> QED
  BY <1>1, <1>2, <1>3 DEF Cursor!Init, CursorInv, BehindWithErrors, EndsWithErrors

\* Of a batch: the cursor stays in its range, and its server has moved on by n.
LEMMA BatchFacts ==
  ASSUME CursorTypes, NEW s \in CursorServers, NEW c \in Cursor!Ids,
         NEW n \in 0 .. BatchSize, NEW done \in BOOLEAN, Cursor!Batch(s, c, n, done)
  PROVE  /\ cursors' \in [Cursor!Ids -> [at : CursorServers \cup {NoServer}, sent : 0 .. Last]]
         /\ n \in Nat
         /\ cursors'[c].sent = cursors[c].sent + n
         /\ done => cursors[c].sent + n = Last
         /\ \A other \in Cursor!Ids \ {c} : cursors'[other] = cursors[other]
<1>1. cursors[c].sent \in Nat /\ n \in Nat /\ cursors[c].sent + n \in 0 .. Last
  BY CursorConstants DEF CursorTypes, Cursor!Batch
<1>2. cursors' = [cursors EXCEPT ![c] =
                    [at |-> IF done THEN NoServer ELSE s, sent |-> cursors[c].sent + n]]
  BY DEF Cursor!Batch
<1>3. [at |-> IF done THEN NoServer ELSE s, sent |-> cursors[c].sent + n]
        \in [at : CursorServers \cup {NoServer}, sent : 0 .. Last]
  BY <1>1
<1> QED BY <1>1, <1>2, <1>3 DEF CursorTypes, Cursor!Batch

LEMMA ExpireKeeps == ASSUME CursorInv, Cursor!Expire PROVE CursorInv'
<1>1. PICK c \in Cursor!Ids : /\ cursors[c].at # NoServer
                              /\ cursors' = [cursors EXCEPT ![c].at = NoServer]
  BY DEF Cursor!Expire
<1>2. UNCHANGED <<caller, cursorPhase, cursor_id, buffer, delivered, errors>>
  BY DEF Cursor!Expire
<1>3. CursorTypes'
  <2>1. CursorTypes /\ faults' = faults + 1
    BY DEF CursorInv, Cursor!Expire
  <2>2. cursors' \in [Cursor!Ids -> [at : CursorServers \cup {NoServer}, sent : 0 .. Last]]
    <3> DEFINE row == [at : CursorServers \cup {NoServer}, sent : 0 .. Last]
    <3>1. cursors \in [Cursor!Ids -> row] /\ NoServer \in CursorServers \cup {NoServer}
      BY <2>1 DEF CursorTypes
    <3>2. [cursors[c] EXCEPT !.at = NoServer] \in row
      BY <3>1
    <3> HIDE DEF row
    <3>3. cursors' \in [Cursor!Ids -> row]
      BY <1>1, <3>1, <3>2
    <3> QED BY <3>3 DEF row
  <2> QED BY <1>2, <2>1, <2>2 DEF CursorTypes
<1>4. \A other \in Cursor!Ids : cursors'[other].sent = cursors[other].sent
  BY <1>1 DEF CursorInv, CursorTypes
<1>5. \A other \in Cursor!Ids : cursors[other] = Cursor!Unknown => cursors'[other] = Cursor!Unknown
  BY <1>1 DEF CursorInv, CursorTypes, Cursor!Unknown
<1>6. NothingRead'
  BY <1>2, <1>5 DEF CursorInv, NothingRead, Cursor!Expire, Cursor!Ids, CursorTypes
<1>7. Reached' = Reached /\ Read' = Read
  BY <1>2, <1>4 DEF Reached, Read, CursorInv, CursorTypes
<1> QED
  BY <1>2, <1>3, <1>6, <1>7 DEF CursorInv, BehindWithErrors, EndsWithErrors

LEMMA OpenedKeeps == ASSUME CursorInv, Cursor!Opened PROVE CursorInv'
<1> DEFINE c == Cursor!Attempt
<1>1. PICK s \in caller.openers, n \in 0 .. BatchSize, done \in BOOLEAN :
        /\ Cursor!Batch(s, c, n, done)
        /\ cursor_id' = IF done THEN 0 ELSE c
        /\ buffer' = Cursor!Positions(c, n)
  BY DEF Cursor!Opened
<1>2. /\ cursorPhase' = "reading" /\ UNCHANGED <<caller, delivered, errors, faults>>
      /\ delivered = <<>> /\ buffer = <<>> /\ errors = 0
  BY DEF Cursor!Opened, CursorInv, NothingRead
<1>3. c \in Cursor!Ids /\ c # 0 /\ cursors[c].sent = 0
  BY DEF Cursor!Opened, CursorInv, NothingRead, Cursor!Attempt, Cursor!Ids, Cursor!Unknown
<1> HIDE DEF c
<1>4. s \in CursorServers
  BY CursorConstants DEF CursorInv, CursorTypes
<1>5. /\ cursors' \in [Cursor!Ids -> [at : CursorServers \cup {NoServer}, sent : 0 .. Last]]
      /\ n \in Nat
      /\ cursors'[c].sent = n /\ (done => n = Last)
  BY <1>1, <1>3, <1>4, BatchFacts DEF CursorInv
<1>6. buffer' = [i \in 1 .. n |-> 0 + i]
  BY <1>1, <1>3 DEF Cursor!Positions
<1>7. LastOf(Read) = 0 /\ Ascends(Read) /\ Cardinality(GapsOf(Read)) = 0
  BY <1>2, NothingReadFacts
<1>8. /\ buffer' \in Seq(Nat)
      /\ LastOf(Read) = 0 => GapsOf(Read') = GapsOf(Read)
      /\ LastOf(Read') = IF n = 0 THEN LastOf(Read) ELSE 0 + n
      /\ Ascends(Read) /\ LastOf(Read) <= 0 => Ascends(Read')
  BY <1>2, <1>5, <1>6, BatchIsRead DEF CursorInv
<1>9. LastOf(Read') = n /\ GapsOf(Read') = GapsOf(Read) /\ Ascends(Read')
  BY <1>5, <1>7, <1>8
<1>10. Reached' = n
  BY <1>1, <1>3, <1>5 DEF Reached
<1>11. CursorTypes'
  BY <1>1, <1>2, <1>3, <1>5, <1>8 DEF CursorInv, CursorTypes
<1>12. BehindWithErrors'
  BY <1>2, <1>5, <1>7, <1>9, <1>10 DEF BehindWithErrors
<1> QED
  BY <1>2, <1>9, <1>11, <1>12 DEF CursorInv, NothingRead, EndsWithErrors

\* A command that may go to the server again leaves the cursor it has opened, and
\* the next attempt opens another; otherwise the call is over, with an error.
LEMMA OpeningFailsKeeps == ASSUME CursorInv, Cursor!OpeningFails PROVE CursorInv'
<1>1. /\ faults' = faults + 1 /\ UNCHANGED <<caller, cursor_id, buffer, delivered>>
      /\ cursorPhase = "opening" /\ CursorTypes
      /\ cursorPhase' = IF caller.retry /\ faults = 0 THEN "opening" ELSE "ended"
      /\ errors' = IF cursorPhase' = "ended" THEN errors + 1 ELSE errors
  BY DEF Cursor!OpeningFails, CursorInv
<1>2. /\ delivered = <<>> /\ buffer = <<>> /\ errors = 0
      /\ cursors[2] = Cursor!Unknown
  BY <1>1 DEF CursorInv, NothingRead
<1>3. Cursor!Attempt \in Cursor!Ids /\ (faults = 0 => Cursor!Attempt = 1) /\ 2 \in Cursor!Ids
  BY DEF Cursor!Attempt, Cursor!Ids
<1>4. /\ cursors' \in [Cursor!Ids -> [at : CursorServers \cup {NoServer}, sent : 0 .. Last]]
      /\ faults = 0 => cursors'[2] = cursors[2]
  <2>1. CASE UNCHANGED cursors
    BY <1>1, <2>1 DEF CursorTypes
  <2>2. ASSUME NEW s \in caller.openers, NEW n \in 0 .. BatchSize, NEW done \in BOOLEAN,
               Cursor!Batch(s, Cursor!Attempt, n, done)
        PROVE  /\ cursors' \in [Cursor!Ids -> [at : CursorServers \cup {NoServer},
                                                sent : 0 .. Last]]
               /\ faults = 0 => cursors'[2] = cursors[2]
    <3>1. s \in CursorServers
      BY <1>1, CursorConstants DEF CursorTypes
    <3> QED BY <1>1, <1>3, <2>2, <3>1, BatchFacts
  <2> QED BY <2>1, <2>2 DEF Cursor!OpeningFails
<1>5. CursorTypes'
  BY <1>1, <1>4 DEF CursorTypes
<1>6. NothingRead'
  BY <1>1, <1>2, <1>4 DEF NothingRead, CursorTypes, Cursor!Unknown
<1>7. Read' = Read /\ Ascends(Read)
  BY <1>1 DEF Read, CursorInv
<1>8. EndsWithErrors'
  <2>1. SUFFICES ASSUME cursorPhase' = "ended"
                 PROVE  Cardinality(GapsOf(Append(Read, Last + 1))) <= 1
    BY <1>1, <1>2, <1>7 DEF EndsWithErrors
  <2>2. Cardinality(GapsOf(Append(Read, Last + 1))) <= Cardinality(GapsOf(Read)) + 1
    BY <1>1, LastIsRead
  <2> QED BY <1>2, <2>2, NothingReadFacts
<1> QED
  BY <1>1, <1>5, <1>6, <1>7, <1>8 DEF CursorInv, BehindWithErrors

LEMMA PopKeeps == ASSUME CursorInv, Cursor!Pop PROVE CursorInv'
<1>1. /\ cursorPhase = "reading" /\ buffer # <<>> /\ CursorTypes
      /\ delivered' = Append(delivered, Head(buffer)) /\ buffer' = Tail(buffer)
      /\ UNCHANGED <<caller, cursorPhase, cursor_id, errors, faults, cursors>>
  BY DEF Cursor!Pop, CursorInv
<1>2. delivered' \in Seq(Nat) /\ buffer' \in Seq(Nat) /\ Read' = Read
  BY <1>1, PopReadsNothing DEF CursorTypes, Read
<1>3. CursorTypes' /\ Reached' = Reached
  BY <1>1, <1>2 DEF CursorTypes, Reached
<1> QED
  BY <1>1, <1>2, <1>3 DEF CursorInv, NothingRead, BehindWithErrors, EndsWithErrors

LEMMA EndKeeps == ASSUME CursorInv, Cursor!End PROVE CursorInv'
<1>1. /\ cursorPhase = "reading" /\ cursor_id = 0 /\ cursorPhase' = "ended"
      /\ UNCHANGED <<caller, cursor_id, buffer, delivered, errors, faults, cursors>>
      /\ CursorTypes /\ BehindWithErrors /\ Ascends(Read)
  BY DEF Cursor!End, CursorInv
<1>2. CursorTypes' /\ Read' = Read
  BY <1>1 DEF CursorTypes, Read
<1>3. Cardinality(GapsOf(Append(Read, Last + 1))) <= errors
  <2>1. /\ LastOf(Read) = Last => GapsOf(Append(Read, Last + 1)) = GapsOf(Read)
        /\ Cardinality(GapsOf(Append(Read, Last + 1))) <= Cardinality(GapsOf(Read)) + 1
        /\ Cardinality(GapsOf(Append(Read, Last + 1))) \in Nat
    BY <1>1, LastIsRead
  <2>2. /\ Cardinality(GapsOf(Read)) <= errors
        /\ LastOf(Read) # Last => Cardinality(GapsOf(Read)) + 1 <= errors
    BY <1>1 DEF BehindWithErrors, Reached
  <2>3. errors \in Nat /\ Cardinality(GapsOf(Read)) \in Nat
    BY <1>1, ReadFacts DEF CursorTypes
  <2> QED BY <2>1, <2>2, <2>3
<1> QED
  BY <1>1, <1>2, <1>3 DEF CursorInv, NothingRead, BehindWithErrors, EndsWithErrors

LEMMA GetMoreKeeps == ASSUME CursorInv, Cursor!GetMore PROVE CursorInv'
<1>1. /\ cursorPhase = "reading" /\ buffer = <<>> /\ cursor_id # 0
      /\ UNCHANGED <<caller, cursorPhase, delivered, errors, faults>>
      /\ CursorTypes /\ BehindWithErrors /\ Ascends(Read)
  BY DEF Cursor!GetMore, Cursor!Asking, CursorInv
<1>2. PICK s \in Cursor!Targets, n \in 0 .. BatchSize, done \in BOOLEAN :
        /\ Cursor!Batch(s, cursor_id, n, done)
        /\ buffer' = Cursor!Positions(cursor_id, n)
        /\ cursor_id' = Cursor!NextId(done)
  BY DEF Cursor!GetMore
<1>3. s \in CursorServers /\ cursor_id \in Cursor!Ids
  BY <1>1, CursorConstants DEF CursorTypes, Cursor!Targets
<1>4. PICK b \in Nat : b = cursors[cursor_id].sent
  BY <1>1, <1>3, CursorConstants DEF CursorTypes
<1>5. /\ cursors' \in [Cursor!Ids -> [at : CursorServers \cup {NoServer}, sent : 0 .. Last]]
      /\ n \in Nat
      /\ cursors'[cursor_id].sent = b + n /\ (done => b + n = Last)
  BY <1>1, <1>2, <1>3, <1>4, BatchFacts
<1>6. buffer' = [i \in 1 .. n |-> b + i]
  BY <1>2, <1>4 DEF Cursor!Positions
<1>7. /\ buffer' \in Seq(Nat)
      /\ n = 0 \/ LastOf(Read) = b => GapsOf(Read') = GapsOf(Read)
      /\ Cardinality(GapsOf(Read')) <= Cardinality(GapsOf(Read)) + 1
      /\ LastOf(Read') = IF n = 0 THEN LastOf(Read) ELSE b + n
      /\ Ascends(Read) /\ LastOf(Read) <= b => Ascends(Read')
  BY <1>1, <1>5, <1>6, BatchIsRead
<1>8. cursor_id' = IF done THEN 0 ELSE cursor_id
  BY <1>2 DEF Cursor!NextId
<1>9. CursorTypes'
  BY <1>1, <1>5, <1>7, <1>8 DEF CursorTypes
<1>10. Reached = b /\ Reached' = b + n
  BY <1>1, <1>4, <1>5, <1>8 DEF Reached
<1>11. /\ LastOf(Read) <= b
       /\ Cardinality(GapsOf(Read)) <= errors
       /\ LastOf(Read) # b => Cardinality(GapsOf(Read)) + 1 <= errors
  BY <1>1, <1>10 DEF BehindWithErrors
<1>12. /\ LastOf(Read) \in Nat /\ Cardinality(GapsOf(Read)) \in Nat /\ errors \in Nat
       /\ Cardinality(GapsOf(Read')) \in Nat
  <2>1. CursorTypes' => Cardinality(GapsOf(Read')) \in Nat
    BY <1>1, <1>7, ReadParts, GapsAreFinite DEF CursorTypes, Read
  <2> QED BY <1>1, <1>9, <2>1, ReadFacts DEF CursorTypes
<1>13. BehindWithErrors'
  <2>1. CASE n = 0
    BY <1>1, <1>7, <1>10, <1>11, <1>12, <2>1 DEF BehindWithErrors
  <2>2. CASE n # 0
    BY <1>1, <1>5, <1>7, <1>10, <1>11, <1>12, <2>2 DEF BehindWithErrors
  <2> QED BY <2>1, <2>2
<1>14. Ascends(Read')
  BY <1>1, <1>7, <1>11
<1> QED
  BY <1>1, <1>9, <1>13, <1>14 DEF CursorInv, NothingRead, EndsWithErrors

\* An error is shown, and the server may have moved on, but nothing is read.
LEMMA ErrorKeeps ==
  ASSUME CursorInv, cursorPhase = "reading", cursor_id # 0,
         UNCHANGED <<caller, cursorPhase, cursor_id, buffer, delivered>>,
         errors' = errors + 1, faults' \in Nat,
         cursors' \in [Cursor!Ids -> [at : CursorServers \cup {NoServer}, sent : 0 .. Last]],
         cursors'[cursor_id].sent >= cursors[cursor_id].sent
  PROVE  CursorInv'
<1>1. CursorTypes /\ BehindWithErrors /\ Ascends(Read)
  BY DEF CursorInv
<1>2. CursorTypes' /\ Read' = Read
  BY <1>1 DEF CursorTypes, Read
<1>3. /\ Reached \in Nat /\ Reached' \in Nat /\ Reached' >= Reached
  BY <1>1, <1>2, CursorConstants DEF CursorTypes, Reached
<1>4. /\ LastOf(Read) <= Reached /\ Cardinality(GapsOf(Read)) <= errors
      /\ LastOf(Read) \in Nat /\ Cardinality(GapsOf(Read)) \in Nat /\ errors \in Nat
  BY <1>1, ReadFacts DEF BehindWithErrors, CursorTypes
<1>5. BehindWithErrors'
  BY <1>2, <1>3, <1>4 DEF BehindWithErrors
<1> QED
  BY <1>1, <1>2, <1>5 DEF CursorInv, NothingRead, EndsWithErrors

LEMMA GetMoreRefusedKeeps == ASSUME CursorInv, Cursor!GetMoreRefused PROVE CursorInv'
<1>1. /\ cursorPhase = "reading" /\ cursor_id # 0 /\ errors' = errors + 1
      /\ UNCHANGED <<caller, cursorPhase, cursor_id, buffer, delivered, faults, cursors>>
      /\ CursorTypes
  BY DEF Cursor!GetMoreRefused, Cursor!Asking, CursorInv
<1>2. /\ faults' \in Nat
      /\ cursors' \in [Cursor!Ids -> [at : CursorServers \cup {NoServer}, sent : 0 .. Last]]
      /\ cursors'[cursor_id].sent >= cursors[cursor_id].sent
  BY <1>1, CursorConstants DEF CursorTypes
<1> QED BY <1>1, <1>2, ErrorKeeps

LEMMA GetMoreFailsKeeps == ASSUME CursorInv, Cursor!GetMoreFails PROVE CursorInv'
<1>1. /\ cursorPhase = "reading" /\ cursor_id # 0 /\ errors' = errors + 1
      /\ faults' = faults + 1
      /\ UNCHANGED <<caller, cursorPhase, cursor_id, buffer, delivered>>
      /\ CursorTypes
  BY DEF Cursor!GetMoreFails, Cursor!GetMoreFailed, Cursor!Asking, CursorInv
<1>2. cursor_id \in Cursor!Ids /\ cursors[cursor_id].sent \in Nat /\ faults' \in Nat
  BY <1>1, CursorConstants DEF CursorTypes
<1>3. CASE UNCHANGED cursors
  BY <1>1, <1>2, <1>3, ErrorKeeps DEF CursorTypes
<1>4. ASSUME NEW s \in Cursor!Targets, NEW n \in 0 .. BatchSize, NEW done \in BOOLEAN,
             Cursor!Batch(s, cursor_id, n, done)
      PROVE  CursorInv'
  <2>1. s \in CursorServers
    BY <1>1, CursorConstants DEF CursorTypes, Cursor!Targets
  <2>2. /\ cursors' \in [Cursor!Ids -> [at : CursorServers \cup {NoServer}, sent : 0 .. Last]]
        /\ n \in Nat /\ cursors'[cursor_id].sent = cursors[cursor_id].sent + n
    BY <1>1, <1>2, <1>4, <2>1, BatchFacts
  <2>3. cursors'[cursor_id].sent >= cursors[cursor_id].sent
    BY <1>2, <2>2
  <2> QED BY <1>1, <1>2, <2>2, <2>3, ErrorKeeps
<1> QED BY <1>3, <1>4 DEF Cursor!GetMoreFails

LEMMA CursorStep ==
  ASSUME CursorInv, [Cursor!Next]_(Cursor!vars)
  PROVE  CursorInv'
<1>1. CASE UNCHANGED Cursor!vars
  BY <1>1 DEF Cursor!vars, CursorInv, CursorTypes, NothingRead, BehindWithErrors,
              EndsWithErrors, Read, Reached
<1> QED
  BY <1>1, OpenedKeeps, OpeningFailsKeeps, PopKeeps, EndKeeps, GetMoreKeeps,
     GetMoreRefusedKeeps, GetMoreFailsKeeps, ExpireKeeps DEF Cursor!Next

\* A gap in what was read, or at its end, is counted by the invariant, and so are
\* those before the documents that are still buffered.
LEMMA CursorInvShows == ASSUME CursorInv PROVE Cursor!NoSilentGap
<1>1. CursorTypes /\ Ascends(Read)
  BY DEF CursorInv
<1>2. PICK m \in Nat : m = Len(delivered) /\ DOMAIN delivered = 1 .. m
  BY <1>1, LenProperties DEF CursorTypes
<1>3. /\ Len(Read) = 1 + m + Len(buffer) /\ Len(buffer) \in Nat
      /\ \A i \in 1 .. m : Read[1 + i] = delivered[i]
  BY <1>1, <1>2, ReadParts, LenProperties DEF CursorTypes, Read
<1>4. ASSUME NEW i \in DOMAIN delivered, NEW j \in DOMAIN delivered, i < j
      PROVE  delivered[i] < delivered[j]
  <2>1. /\ 1 + i \in 1 .. Len(Read) /\ 1 + j \in 1 .. Len(Read)
        /\ 1 + i < 1 + j
    BY <1>2, <1>3, <1>4
  <2>2. Read[1 + i] < Read[1 + j]
    BY <1>1, <2>1 DEF Ascends
  <2> QED BY <1>2, <1>3, <2>2
<1>5. Cursor!Gaps = IF cursorPhase = "ended" THEN GapsOf(Append(Read, Last + 1))
                                             ELSE GapsOf(Read)
  BY DEF Cursor!Gaps, GapsOf, Read
<1>6. Cardinality(Cursor!Gaps) <= errors
  <2>1. CASE cursorPhase = "ended"
    BY <1>5, <2>1 DEF CursorInv, EndsWithErrors
  <2>2. CASE cursorPhase = "reading"
    BY <1>5, <2>2 DEF CursorInv, BehindWithErrors
  <2>3. CASE cursorPhase = "opening"
    BY <1>5, <2>3, NothingReadFacts DEF CursorInv, NothingRead
  <2> QED BY <2>1, <2>2, <2>3 DEF CursorInv
<1> QED BY <1>4, <1>6, CursorCardinality DEF Cursor!NoSilentGap

\* Documents come in order and none twice, and what is missing is no more than the
\* errors shown: next() of a cursor skips a batch whose reply was lost, because the
\* server has moved on, but never without an error.
THEOREM GapsShow == CallsSpec => []NoSilentGap
<1>1. CursorInv => NoSilentGap
  BY CursorInvShows DEF NoSilentGap
<1> QED BY <1>1, CursorInit, CursorStep, CursorRuns, PTL DEF Cursor!Spec

-----------------------------------------------------------------------------
(***************************************************************************)
(* Collection.  A call that has returned is over, and until it returns the *)
(* copies only change as a whole command of the server changes them.       *)
(***************************************************************************)
CollectionTypes ==
  /\ operation \in Operations
  /\ options \in Coll!Options
  /\ copies \in [Coll!Documents -> Nat]

\* The documents to insert and their places, as CollectionAssumption has them.
LEMMA InsertedFacts ==
  /\ Len(Inserted) \in Nat \ {0}
  /\ DOMAIN Inserted = 1 .. Len(Inserted)
  /\ \A i, j \in DOMAIN Inserted : Inserted[i] = Inserted[j] => i = j
<1>1. PICK S : Inserted \in Seq(S) \ {<<>>}
  BY CallsAssumption DEF Coll!CollectionAssumption
<1>2. \A i, j \in DOMAIN Inserted : Inserted[i] = Inserted[j] => i = j
  BY CallsAssumption DEF Coll!CollectionAssumption
<1> QED BY <1>1, <1>2, EmptySeq

\* What is sent are documents, at places of Inserted, no two the same.
LEMMA SentFacts ==
  /\ DOMAIN Coll!Sent \subseteq DOMAIN Inserted
  /\ \A i \in DOMAIN Coll!Sent : Coll!Sent[i] = Inserted[i] /\ Coll!Sent[i] \in Coll!Documents
<1>1. CASE operation = "insert_one"
  <2>1. PICK S : Inserted \in Seq(S)
    BY CallsAssumption DEF Coll!CollectionAssumption
  <2>2. \A i \in 1 .. 1 : Inserted[i] \in S
    BY <2>1, InsertedFacts, ElementOfSeq
  <2>3. /\ SubSeq(Inserted, 1, 1) \in Seq(S)
        /\ Len(SubSeq(Inserted, 1, 1)) = IF 1 <= 1 THEN 1 - 1 + 1 ELSE 0
        /\ \A i \in 1 .. 1 - 1 + 1 : SubSeq(Inserted, 1, 1)[i] = Inserted[1 + i - 1]
    BY <2>2, SubSeqProperties
  <2>4. DOMAIN SubSeq(Inserted, 1, 1) = 1 .. 1
    BY <2>3
  <2>5. \A i \in 1 .. 1 : SubSeq(Inserted, 1, 1)[i] = Inserted[i]
    BY <2>3
  <2>6. 1 \in DOMAIN Inserted
    <3>1. PICK n \in Nat \ {0} : DOMAIN Inserted = 1 .. n
      BY InsertedFacts
    <3> QED BY <3>1
  <2>7. 1 .. 1 \subseteq DOMAIN Inserted
    BY <2>6
  <2>8. \A i \in DOMAIN Inserted : Inserted[i] \in Coll!Documents
    BY DEF Coll!Documents
  <2>9. Coll!Sent = SubSeq(Inserted, 1, 1)
    BY <1>1 DEF Coll!Sent
  <2> QED BY <2>4, <2>5, <2>6, <2>7, <2>8, <2>9
<1>2. CASE operation # "insert_one"
  BY <1>2 DEF Coll!Sent, Coll!Documents
<1> QED BY <1>1, <1>2

\* The Cardinality that Collection has from FiniteSets is the one of the library.
LEMMA CollectionCardinality == ASSUME NEW S PROVE Coll!Cardinality(S) = Cardinality(S)
BY DEF Coll!Cardinality, Cardinality

\* How often a document is added by an insert: once at most, and once if it is at
\* one of the places stored.
LEMMA AddedOnce ==
  ASSUME NEW which \in SUBSET DOMAIN Coll!Sent, NEW d
  PROVE  LET places == {i \in which : Coll!Sent[i] = d}
         IN  /\ Cardinality(places) \in 0 .. 1
             /\ Cardinality(places) = 0 <=> places = {}
<1> DEFINE places == {i \in which : Coll!Sent[i] = d}
<1>1. CASE places = {}
  BY <1>1, FS_EmptySet
<1>2. CASE places # {}
  <2>1. PICK i : i \in places
    BY <1>2
  <2>2. places = {i}
    BY <2>1, SentFacts, InsertedFacts
  <2>3. Cardinality(places) = 1
    BY <2>2, FS_Singleton
  <2> QED BY <2>3, <1>2
<1> QED BY <1>1, <1>2

LEMMA InsertKeeps ==
  ASSUME CollectionTypes, NEW which \in SUBSET DOMAIN Coll!Sent, Coll!Insert(which)
  PROVE  /\ copies' \in [Coll!Documents -> Nat]
         /\ \A i \in which : copies'[Coll!Sent[i]] > 0
         /\ Coll!GeneratedOnce /\ options' = options => Coll!GeneratedOnce'
<1> DEFINE Added(d) == Cardinality({i \in which : Coll!Sent[i] = d})
<1>1. \A d : Added(d) \in 0 .. 1 /\ (Added(d) = 0 <=> {i \in which : Coll!Sent[i] = d} = {})
  BY AddedOnce
<1>2. copies' = [d \in Coll!Documents |-> copies[d] + Added(d)]
  <2>1. \A d : Added(d) = Coll!Cardinality({i \in which : Coll!Sent[i] = d})
    BY CollectionCardinality
  <2> HIDE DEF Added
  <2> QED BY <2>1 DEF Coll!Insert
<1>3. \A d \in Coll!Documents : copies[d] \in Nat
  BY DEF CollectionTypes
<1>4. \A i \in which : Coll!Sent[i] \in Coll!Documents /\ Added(Coll!Sent[i]) = 1
  BY <1>1, SentFacts
<1>5. Coll!Documents' = Coll!Documents
  BY DEF Coll!Documents
<1>6. ASSUME Coll!GeneratedOnce, options' = options PROVE Coll!GeneratedOnce'
  <2>1. SUFFICES ASSUME options.generate, NEW d \in Coll!Documents PROVE copies'[d] <= 1
    BY <1>5, <1>6 DEF Coll!GeneratedOnce
  <2>2. copies[d] <= 1
    BY <1>6, <2>1 DEF Coll!GeneratedOnce
  <2>3. CASE Added(d) = 0
    BY <1>2, <1>3, <2>2, <2>3
  <2>4. CASE Added(d) # 0
    <3>1. PICK i \in which : Coll!Sent[i] = d
      BY <1>1, <2>4
    <3>2. copies[d] = 0
      BY <2>1, <3>1 DEF Coll!Insert, Coll!HasId
    <3> QED BY <1>1, <1>2, <3>2
  <2> QED BY <2>3, <2>4
<1> HIDE DEF Added
<1>7. \A i \in which : copies'[Coll!Sent[i]] > 0
  BY <1>2, <1>3, <1>4
<1>8. copies' \in [Coll!Documents -> Nat]
  BY <1>1, <1>2, <1>3
<1> QED BY <1>6, <1>7, <1>8

\* Whatever the server executes, it stores no generated document twice; if it has
\* no error to report, the documents to insert are there, those to delete are not.
LEMMA ExecuteKeeps ==
  ASSUME CollectionTypes, Coll!GeneratedOnce,
         UNCHANGED <<operation, options>>, NEW errs, Coll!Execute(errs)
  PROVE  /\ CollectionTypes' /\ Coll!GeneratedOnce'
         /\ errs = {} /\ operation \in Coll!Inserts =>
              \A i \in DOMAIN Coll!Sent : copies'[Coll!Sent[i]] > 0
         /\ operation = "delete_many" => Coll!Present' = {}
<1>1. Coll!Documents' = Coll!Documents
  BY DEF Coll!Documents
<1>2. CollectionTypes' <=> copies' \in [Coll!Documents -> Nat]
  BY <1>1 DEF CollectionTypes
<1>3. ASSUME operation \in Coll!Inserts, NEW which \in SUBSET DOMAIN Coll!Sent,
             Coll!Insert(which), errs = DOMAIN Coll!Sent \ which
      PROVE  /\ copies' \in [Coll!Documents -> Nat] /\ Coll!GeneratedOnce'
             /\ errs = {} => \A i \in DOMAIN Coll!Sent : copies'[Coll!Sent[i]] > 0
  <2>1. errs = {} => which = DOMAIN Coll!Sent
    BY <1>3
  <2> QED BY <1>3, <2>1, InsertKeeps
<1>4. ASSUME NEW gone \in SUBSET Coll!Documents,
             copies' = [d \in Coll!Documents |-> IF d \in gone THEN 0 ELSE copies[d]]
      PROVE  /\ copies' \in [Coll!Documents -> Nat] /\ Coll!GeneratedOnce'
             /\ gone = Coll!Present => Coll!Present' = {}
  <2>1. \A d \in Coll!Documents : copies'[d] = (IF d \in gone THEN 0 ELSE copies[d])
    BY <1>4
  <2>2. \A d \in Coll!Documents : copies[d] \in Nat
    BY DEF CollectionTypes
  <2>3. copies' \in [Coll!Documents -> Nat]
    BY <1>4, <2>2
  <2>4. Coll!GeneratedOnce'
    BY <1>1, <2>1, <2>2 DEF Coll!GeneratedOnce
  <2>5. gone = Coll!Present => Coll!Present' = {}
    BY <1>1, <2>1, <2>2 DEF Coll!Present
  <2> QED BY <2>3, <2>4, <2>5
<1>5. ASSUME operation \in Coll!Deletes \cup {"find_one_and_delete"},
             NEW gone \in Coll!Affected, Coll!Delete(gone)
      PROVE  /\ copies' \in [Coll!Documents -> Nat] /\ Coll!GeneratedOnce'
             /\ operation = "delete_many" => Coll!Present' = {}
  <2>1. gone \in SUBSET Coll!Documents
    BY <1>5 DEF Coll!Affected, Coll!Present
  <2>2. operation = "delete_many" => gone = Coll!Present
    BY <1>5 DEF Coll!Affected, Coll!Many
  <2> QED BY <1>4, <1>5, <2>1, <2>2 DEF Coll!Delete
<1>6. ASSUME operation \in {"drop", "drop_database"}, copies' = [d \in Coll!Documents |-> 0]
      PROVE  copies' \in [Coll!Documents -> Nat] /\ Coll!GeneratedOnce'
  BY <1>1, <1>6 DEF Coll!GeneratedOnce
<1>7. ASSUME UNCHANGED copies
      PROVE  copies' \in [Coll!Documents -> Nat] /\ Coll!GeneratedOnce'
  BY <1>1, <1>7 DEF Coll!GeneratedOnce, CollectionTypes
<1>8. operation \in Coll!Inserts =>
        \E which \in SUBSET DOMAIN Coll!Sent :
          Coll!Insert(which) /\ errs = DOMAIN Coll!Sent \ which
  BY DEF Coll!Execute, Coll!Inserts, Coll!Deletes, Coll!Updates, Coll!FindsAndModifies,
         Coll!Units, Coll!Indexes, Coll!Reads, Coll!Values, Coll!Cursors
<1>9. operation = "delete_many" => \E gone \in Coll!Affected : Coll!Delete(gone)
  BY DEF Coll!Execute, Coll!Inserts, Coll!Deletes, Coll!Updates, Coll!FindsAndModifies,
         Coll!Units, Coll!Indexes, Coll!Reads, Coll!Values, Coll!Cursors
<1>10. operation = "delete_many" => operation \in Coll!Deletes
  BY DEF Coll!Deletes
<1>11. operation \in Coll!Inserts /\ errs = {} =>
         \A i \in DOMAIN Coll!Sent : copies'[Coll!Sent[i]] > 0
  BY <1>3, <1>8
<1>12. operation = "delete_many" => Coll!Present' = {}
  BY <1>5, <1>9, <1>10
<1>13. copies' \in [Coll!Documents -> Nat] /\ Coll!GeneratedOnce'
  BY <1>3, <1>5, <1>6, <1>7 DEF Coll!Execute
<1> QED BY <1>2, <1>11, <1>12, <1>13

\* Which operations have their write errors looked at.
LEMMA CountedErrorsPanic ==
  ASSUME operation \in Coll!Inserts \cup Coll!Deletes, NEW errs
  PROVE  Coll!Result(errs) = Coll!into_result(errs)
<1>1. operation \notin Coll!Units
  BY DEF Coll!Inserts, Coll!Deletes, Coll!Units
<1>2. operation \notin Coll!FindsAndModifies \cup Coll!Indexes \cup Coll!Reads
  BY DEF Coll!Inserts, Coll!Deletes, Coll!FindsAndModifies, Coll!Indexes, Coll!Reads,
         Coll!Values, Coll!Cursors
<1> QED BY <1>1, <1>2, Zenon DEF Coll!Result

CollectionInv == CollectionTypes /\ Coll!GeneratedOnce /\ Coll!OkMeansDone

LEMMA CollectionInit == ASSUME Coll!Init PROVE CollectionInv
BY DEF Coll!Init, CollectionInv, CollectionTypes, Coll!GeneratedOnce, Coll!OkMeansDone

LEMMA CollectionStep ==
  ASSUME CollectionInv, [Coll!Next]_(Coll!vars)
  PROVE  CollectionInv'
<1> USE DEF CollectionInv
<1>1. Coll!Documents' = Coll!Documents
  BY DEF Coll!Documents
<1>2. ASSUME UNCHANGED <<operation, options, copies>>
      PROVE  CollectionTypes' /\ Coll!GeneratedOnce'
  BY <1>1, <1>2 DEF CollectionTypes, Coll!GeneratedOnce
<1>3. CASE Coll!Answered
  <2>1. PICK errs \in SUBSET DOMAIN Inserted, decodes \in Coll!Decodes(operation) :
          /\ Coll!Execute(errs)
          /\ outcome' = IF decodes THEN Coll!Result(errs) ELSE "error"
    BY <1>3 DEF Coll!Answered, Coll!Return
  <2>2. UNCHANGED <<operation, options>>
    BY <1>3 DEF Coll!Answered
  <2>3. Coll!Sent' = Coll!Sent
    BY <2>2 DEF Coll!Sent
  <2>4. outcome' = "ok" /\ operation \in Coll!Inserts \cup Coll!Deletes => errs = {}
    BY <2>1, CountedErrorsPanic DEF Coll!into_result
  <2>5. Coll!OkMeansDone'
    BY <2>1, <2>2, <2>3, <2>4, ExecuteKeeps DEF Coll!OkMeansDone
  <2> QED BY <2>1, <2>2, <2>5, ExecuteKeeps
<1>4. CASE Coll!AnsweredWithError
  BY <1>2, <1>4 DEF Coll!AnsweredWithError, Coll!Return, Coll!OkMeansDone
<1>5. Coll!RetryOrFail /\ Coll!Pending => Coll!OkMeansDone'
  BY DEF Coll!RetryOrFail, Coll!Pending, Coll!Return, Coll!OkMeansDone
<1>6. CASE Coll!LosesRequest
  BY <1>2, <1>5, <1>6 DEF Coll!LosesRequest
<1>7. CASE Coll!LosesReply
  <2>1. PICK errs \in SUBSET DOMAIN Inserted : Coll!Execute(errs)
    BY <1>7 DEF Coll!LosesReply
  <2>2. UNCHANGED <<operation, options>>
    BY <1>7 DEF Coll!LosesReply
  <2> QED BY <1>5, <1>7, <2>1, <2>2, ExecuteKeeps DEF Coll!LosesReply
<1>8. CASE UNCHANGED Coll!vars
  <2>1. UNCHANGED <<operation, options, copies, outcome>>
    BY <1>8 DEF Coll!vars
  <2>2. Coll!Sent' = Coll!Sent /\ Coll!Present' = Coll!Present
    BY <1>1, <2>1 DEF Coll!Sent, Coll!Present
  <2> QED BY <1>2, <2>1, <2>2 DEF Coll!OkMeansDone
<1> QED BY <1>3, <1>4, <1>6, <1>7, <1>8 DEF Coll!Next

LEMMA CollectionAlways == CallsSpec => []CollectionInv
<1> QED BY CollectionInit, CollectionStep, CollectionRuns, PTL DEF Coll!Spec

\* A write that returned Ok was done: the documents to insert are in the
\* collection, and after delete_many none is, although into_result looks at the
\* reply only and the server may have executed the command in part, or twice.
THEOREM OkIsDone == CallsSpec => []OkMeansDone
<1>1. CollectionInv => OkMeansDone
  BY DEF CollectionInv, OkMeansDone
<1> QED BY <1>1, CollectionAlways, PTL

\* An insert that is sent again after its reply was lost does not store a document
\* whose _id was generated before the first attempt for a second time.
THEOREM InsertedOnce == CallsSpec => []GeneratedOnce
<1>1. CollectionInv => GeneratedOnce
  BY DEF CollectionInv, GeneratedOnce
<1> QED BY <1>1, CollectionAlways, PTL

-----------------------------------------------------------------------------
(***************************************************************************)
(* ClientOptions.  What a text is cut into is what it was joined from, as  *)
(* long as no part contains the mark.                                      *)
(***************************************************************************)

\* The marks are named: the provers do not know that a literal is a string.
Words == STRING \cup {":", "@", ",", "/", "?", "&", "="}

Texts == Seq(Words)

\* What is computed in N steps, each from the one before.
Starts(A, a, F, N) == a \in A /\ F \in [Nat -> [A -> A]] /\ N \in Nat

Computes(f, A, a, F, N) ==
  f \in [0 .. N -> A] /\ f[0] = a /\ \A n \in 1 .. N : f[n] = F[n][f[n - 1]]

\* What is computed step by step exists, for any number of steps.
LEMMA Recursion ==
  ASSUME NEW A, NEW a, NEW F, NEW N, Starts(A, a, F, N)
  PROVE  \E f : Computes(f, A, a, F, N)
<1>0. a \in A /\ F \in [Nat -> [A -> A]] /\ N \in Nat
  BY DEF Starts
<1> DEFINE Is(f, k) == f \in [0 .. k -> A] /\ f[0] = a /\ \A n \in 1 .. k : f[n] = F[n][f[n - 1]]
           U == {k \in Nat : \E f : Is(f, k)}
<1>1. 0 \in U
  <2> DEFINE f == [n \in 0 .. 0 |-> a]
  <2>1. Is(f, 0)
    BY <1>0
  <2> QED BY <2>1
<1>2. ASSUME NEW k \in U PROVE k + 1 \in U
  <2>1. PICK f : Is(f, k)
    OBVIOUS
  <2> DEFINE g == [n \in 0 .. k + 1 |-> IF n = k + 1 THEN F[k + 1][f[k]] ELSE f[n]]
  <2>2. k \in Nat /\ f[k] \in A /\ F[k + 1] \in [A -> A]
    BY <1>0, <2>1
  <2>3. g \in [0 .. k + 1 -> A]
    BY <2>1, <2>2
  <2>4. g[0] = a
    BY <2>1, <2>2
  <2>5. ASSUME NEW n \in 1 .. k + 1 PROVE g[n] = F[n][g[n - 1]]
    <3>1. CASE n = k + 1
      <4>1. (k + 1) - 1 = k /\ k # k + 1 /\ k \in 0 .. k + 1 /\ k + 1 \in 0 .. k + 1
        BY <2>2
      <4>2. g[k + 1] = F[k + 1][f[k]] /\ g[k] = f[k]
        BY <4>1
      <4> HIDE DEF g
      <4> QED BY <3>1, <4>1, <4>2
    <3>2. CASE n # k + 1
      <4>1. n \in 1 .. k /\ n - 1 \in 0 .. k
        BY <2>2, <3>2
      <4>2. g[n] = f[n] /\ g[n - 1] = f[n - 1]
        BY <2>2, <4>1
      <4> QED BY <2>1, <4>1, <4>2
    <3> QED BY <3>1, <3>2
  <2> HIDE DEF g
  <2>6. Is(g, k + 1)
    BY <2>3, <2>4, <2>5
  <2> QED BY <2>2, <2>6
<1>3. U = Nat
  <2> HIDE DEF U
  <2>1. U \in SUBSET Nat
    BY DEF U
  <2> QED BY <1>1, <1>2, <2>1, Induction
<1>4. PICK f : Is(f, N)
  BY <1>0, <1>3
<1> QED BY <1>4 DEF Computes

LEMMA TextsAssociate == \A a, b, c \in Texts : (a \o b) \o c = a \o (b \o c)
<1>1. \A a, b, c \in Seq(Words) : (a \o b) \o c = a \o (b \o c)
  BY ConcatAssociative
<1> QED BY <1>1 DEF Texts

\* A text with a mark in it.
IsMarked(t, a, m, b) ==
  /\ t \in Texts /\ Len(t) = Len(a) + 1 + Len(b)
  /\ t[Len(a) + 1] = m
  /\ \A i \in 1 .. Len(a) : t[i] = a[i]
  /\ \A i \in 1 .. Len(b) : t[Len(a) + 1 + i] = b[i]
  /\ Len(a) \in Nat /\ Len(b) \in Nat

\* A mark put between two texts.
LEMMA Marked ==
  ASSUME NEW a \in Texts, NEW m \in Words, NEW b \in Texts
  PROVE  IsMarked(a \o <<m>> \o b, a, m, b)
<1> DEFINE c == a \o <<m>>
           t == c \o b
<1>1. <<m>> \in Texts /\ Len(<<m>>) = 1 /\ <<m>>[1] = m
  BY DEF Texts
<1>2. Len(a) \in Nat /\ Len(b) \in Nat
  BY DEF Texts
<1>3. /\ c \in Texts /\ Len(c) = Len(a) + 1
      /\ \A i \in 1 .. Len(a) + 1 : c[i] = IF i <= Len(a) THEN a[i] ELSE <<m>>[i - Len(a)]
  BY <1>1, ConcatProperties DEF Texts
<1>4. c[Len(a) + 1] = m /\ \A i \in 1 .. Len(a) : c[i] = a[i]
  BY <1>1, <1>2, <1>3
<1> HIDE DEF c
<1>5. /\ t \in Texts /\ Len(t) = Len(c) + Len(b)
      /\ \A i \in 1 .. Len(c) + Len(b) : t[i] = IF i <= Len(c) THEN c[i] ELSE b[i - Len(c)]
  <2>1. c \in Seq(Words) /\ b \in Seq(Words)
    BY <1>3 DEF Texts
  <2> QED BY <2>1, ConcatProperties DEF Texts
<1>6. \A i \in 1 .. Len(b) : t[Len(a) + 1 + i] = b[i]
  <2>1. SUFFICES ASSUME NEW i \in 1 .. Len(b) PROVE t[Len(a) + 1 + i] = b[i]
    OBVIOUS
  <2>2. /\ Len(a) + 1 + i \in 1 .. Len(c) + Len(b) /\ ~(Len(a) + 1 + i <= Len(c))
        /\ (Len(a) + 1 + i) - Len(c) = i
    BY <1>2, <1>3
  <2> HIDE DEF t
  <2> QED BY <1>5, <2>2
<1>7. t[Len(a) + 1] = m /\ \A i \in 1 .. Len(a) : t[i] = a[i]
  <2>1. \A i \in 1 .. Len(c) : i \in 1 .. Len(c) + Len(b) /\ i <= Len(c)
    BY <1>2, <1>3
  <2>2. \A i \in 1 .. Len(c) : t[i] = c[i]
    BY <1>5, <2>1
  <2>3. Len(a) + 1 \in 1 .. Len(c) /\ \A i \in 1 .. Len(a) : i \in 1 .. Len(c)
    BY <1>2, <1>3
  <2> HIDE DEF t
  <2> QED BY <1>4, <2>2, <2>3
<1> HIDE DEF t
<1>8. Len(t) = Len(a) + 1 + Len(b)
  BY <1>2, <1>3, <1>5
<1>9. IsMarked(t, a, m, b)
  BY <1>2, <1>5, <1>6, <1>7, <1>8 DEF IsMarked
<1> QED BY <1>9 DEF t, c

Without(a, m) == \A i \in 1 .. Len(a) : a[i] # m

\* The part in front of the first mark, and the one behind it.
LEMMA MarkFound ==
  ASSUME NEW a \in Texts, NEW m \in Words, NEW b \in Texts, Without(a, m)
  PROVE  LET t == a \o <<m>> \o b
             i == Uri!Find(t, m)
         IN  /\ t \in Texts /\ i \in Nat /\ ~(i > Len(t))
             /\ Uri!Before(t, i) = a /\ Uri!Behind(t, i) = b
<1> DEFINE t == a \o <<m>> \o b
           i == Uri!Find(t, m)
           k == Len(a) + 1
<1>1. /\ t \in Texts /\ Len(t) = Len(a) + 1 + Len(b) /\ t[k] = m
      /\ \A j \in 1 .. Len(a) : t[j] = a[j]
      /\ \A j \in 1 .. Len(b) : t[k + j] = b[j]
      /\ Len(a) \in Nat /\ Len(b) \in Nat
  <2>1. IsMarked(t, a, m, b)
    BY Marked
  <2> HIDE DEF t
  <2> QED BY <2>1 DEF IsMarked
<1>2. DOMAIN t = 1 .. Len(t) /\ Len(t) \in Nat
  <2> HIDE DEF t
  <2> QED BY <1>1 DEF Texts
<1> HIDE DEF t
<1>3. k \in DOMAIN t /\ k \in Nat /\ \A j \in 1 .. k - 1 : t[j] # m
  BY <1>1, <1>2 DEF Without
<1>4. i = CHOOSE x \in DOMAIN t : t[x] = m /\ \A j \in 1 .. x - 1 : t[j] # m
  BY <1>1, <1>3 DEF Uri!Find
<1>5. i \in DOMAIN t /\ t[i] = m /\ \A j \in 1 .. i - 1 : t[j] # m
  <2> HIDE DEF i
  <2> QED BY <1>1, <1>3, <1>4
<1> HIDE DEF i
<1>6. i = k
  <2>1. i \in Nat /\ i >= 1
    BY <1>2, <1>5
  <2>2. ~(i < k)
    <3>1. i < k => i \in 1 .. k - 1
      BY <1>3, <2>1
    <3> QED BY <1>3, <1>5, <3>1
  <2>3. ~(k < i)
    <3>1. k < i => k \in 1 .. i - 1
      BY <1>1, <2>1
    <3> QED BY <1>1, <1>5, <3>1
  <2> QED BY <1>3, <2>1, <2>2, <2>3
<1>7. SubSeq(t, 1, Len(a)) = a
  <2> DEFINE s == SubSeq(t, 1, Len(a))
  <2>1. \A j \in 1 .. Len(a) : t[j] \in Words
    <3>1. \A j \in 1 .. Len(a) : a[j] \in Words
      BY ElementOfSeq DEF Texts
    <3> QED BY <1>1, <3>1
  <2>2. /\ s \in Seq(Words) /\ Len(s) = IF 1 <= Len(a) THEN Len(a) - 1 + 1 ELSE 0
        /\ \A j \in 1 .. Len(a) - 1 + 1 : s[j] = t[1 + j - 1]
    <3>1. 1 \in Int /\ Len(a) \in Int
      BY <1>1
    <3> QED BY <2>1, <3>1, SubSeqProperties
  <2> HIDE DEF s
  <2>3. Len(s) = Len(a) /\ \A j \in 1 .. Len(a) : s[j] = a[j]
    <3>1. Len(a) - 1 + 1 = Len(a) /\ \A j \in 1 .. Len(a) : 1 + j - 1 = j
      BY <1>1
    <3> QED BY <1>1, <2>2, <3>1
  <2> QED BY <2>2, <2>3, SeqEqual DEF s, Texts
<1>8. SubSeq(t, k + 1, Len(t)) = b
  <2> DEFINE s == SubSeq(t, k + 1, Len(t))
  <2>1. \A j \in k + 1 .. Len(t) : t[j] \in Words
    <3>1. \A j \in k + 1 .. Len(t) : j \in 1 .. Len(t)
      BY <1>2, <1>3
    <3> QED BY <1>1, <3>1, ElementOfSeq DEF Texts
  <2>2. /\ s \in Seq(Words) /\ Len(s) = IF k + 1 <= Len(t) THEN Len(t) - (k + 1) + 1 ELSE 0
        /\ \A j \in 1 .. Len(t) - (k + 1) + 1 : s[j] = t[(k + 1) + j - 1]
    <3>1. k + 1 \in Int /\ Len(t) \in Int
      BY <1>2, <1>3
    <3> HIDE DEF k
    <3> QED BY <2>1, <3>1, SubSeqProperties
  <2> HIDE DEF s
  <2>3. Len(s) = Len(b) /\ \A j \in 1 .. Len(b) : s[j] = b[j]
    <3>1. /\ Len(t) - (k + 1) + 1 = Len(b) /\ \A j \in 1 .. Len(b) : (k + 1) + j - 1 = k + j
          /\ ~(k + 1 <= Len(t)) => Len(b) = 0
      BY <1>1
    <3> HIDE DEF k
    <3> QED BY <1>1, <2>2, <3>1
  <2> QED BY <2>2, <2>3, SeqEqual DEF s, Texts
<1>9. i - 1 = Len(a) /\ ~(i > Len(t)) /\ i \in Nat
  BY <1>1, <1>2, <1>6
<1> QED BY <1>1, <1>6, <1>7, <1>8, <1>9 DEF t, i, Uri!Before, Uri!Behind

\* A text that is parted by its first mark.
Parted(t, a, m, b) ==
  a \in Texts /\ m \in Words /\ b \in Texts /\ Without(a, m) /\ t = a \o <<m>> \o b

\* Find stops at the first mark, and Before and Behind give what it parts.
LEMMA FirstMark ==
  ASSUME NEW t, NEW a, NEW m, NEW b, Parted(t, a, m, b)
  PROVE  /\ ~(Uri!Find(t, m) > Len(t))
         /\ Uri!Before(t, Uri!Find(t, m)) = a /\ Uri!Behind(t, Uri!Find(t, m)) = b
<1> DEFINE x == a \o <<m>> \o b
<1>1. /\ ~(Uri!Find(x, m) > Len(x))
      /\ Uri!Before(x, Uri!Find(x, m)) = a /\ Uri!Behind(x, Uri!Find(x, m)) = b
  BY MarkFound DEF Parted
<1>2. t = x
  BY DEF Parted
<1> HIDE DEF x
<1> QED BY <1>1, <1>2

\* A text without a mark.
LEMMA NoMark ==
  ASSUME NEW a \in Texts, NEW m, Without(a, m)
  PROVE  /\ Uri!Find(a, m) > Len(a) /\ Uri!Find(a, m) \in Nat
         /\ Uri!Before(a, Uri!Find(a, m)) = a
<1>1. DOMAIN a = 1 .. Len(a) /\ Len(a) \in Nat
  BY DEF Texts
<1>2. Uri!Find(a, m) = Len(a) + 1
  BY <1>1 DEF Uri!Find, Without
<1>3. (Len(a) + 1) - 1 = Len(a)
  BY <1>1
<1>4. SubSeq(a, 1, Len(a)) = a
  BY SubSeqFull DEF Texts
<1> QED BY <1>1, <1>2, <1>3, <1>4 DEF Uri!Before

\* A text that is joined is its first part, a mark, and the others joined.
LEMMA JoinedFacts ==
  ASSUME NEW p \in Seq(Texts), NEW m \in Words
  PROVE  LET J == Uri!Joined(p, m)
             L == Len(p)
         IN  /\ J \in [0 .. L -> Texts] /\ J[0] = <<>>
             /\ L >= 1 => J[1] = p[L]
             /\ \A n \in 2 .. L : J[n] = p[L + 1 - n] \o <<m>> \o J[n - 1]
<1> DEFINE L == Len(p)
           Body(f, n) == IF n = 0 THEN <<>>
                         ELSE p[L + 1 - n] \o (IF n = 1 THEN <<>> ELSE <<m>> \o f[n - 1])
           Is(f) == f = [n \in 0 .. L |-> Body(f, n)]
           F == [n \in Nat |-> [x \in Texts |->
                  IF n \in 1 .. L THEN p[L + 1 - n] \o (IF n = 1 THEN <<>> ELSE <<m>> \o x)
                  ELSE <<>>]]
           J == Uri!Joined(p, m)
<1>1. L \in Nat /\ <<>> \in Texts /\ <<m>> \in Texts
  BY EmptySeq DEF Texts
<1>2. \A n \in 1 .. L : p[L + 1 - n] \in Texts
  <2>1. \A n \in 1 .. L : L + 1 - n \in 1 .. L
    BY <1>1
  <2> QED BY <2>1, ElementOfSeq
<1>3. \A x \in Texts : \A n \in 1 .. L :
        p[L + 1 - n] \o (IF n = 1 THEN <<>> ELSE <<m>> \o x) \in Texts
  <2>1. SUFFICES ASSUME NEW x \in Texts, NEW n \in 1 .. L
                 PROVE  p[L + 1 - n] \o (IF n = 1 THEN <<>> ELSE <<m>> \o x) \in Texts
    OBVIOUS
  <2> DEFINE y == IF n = 1 THEN <<>> ELSE <<m>> \o x
  <2>2. <<m>> \o x \in Texts
    BY <1>1, ConcatProperties DEF Texts
  <2>3. y \in Texts
    BY <1>1, <2>2
  <2> HIDE DEF y
  <2>4. p[L + 1 - n] \in Texts
    BY <1>2
  <2>5. p[L + 1 - n] \o y \in Texts
    BY <2>3, <2>4, ConcatProperties DEF Texts
  <2> QED BY <2>5 DEF y
<1>4. F \in [Nat -> [Texts -> Texts]]
  BY <1>1, <1>3
<1>5. PICK f : f \in [0 .. L -> Texts] /\ f[0] = <<>> /\ \A n \in 1 .. L : f[n] = F[n][f[n - 1]]
  <2>1. Starts(Texts, <<>>, F, L)
    BY <1>1, <1>4 DEF Starts
  <2> HIDE DEF F, L
  <2>2. PICK f : Computes(f, Texts, <<>>, F, L)
    BY <2>1, Recursion
  <2> QED BY <2>2 DEF Computes
<1>6. \A n \in 0 .. L : f[n] = Body(f, n)
  <2>1. f[0] = Body(f, 0)
    BY <1>5
  <2>2. ASSUME NEW n \in 1 .. L PROVE f[n] = Body(f, n)
    <3> HIDE DEF F
    <3>1. n \in Nat /\ n # 0 /\ n - 1 \in 0 .. L
      BY <1>1
    <3>2. f[n - 1] \in Texts /\ f[n] = F[n][f[n - 1]]
      BY <1>5, <3>1
    <3> DEFINE x == f[n - 1]
    <3>3. x \in Texts
      BY <3>2
    <3> HIDE DEF x, L
    <3>4. F[n][x] = p[L + 1 - n] \o (IF n = 1 THEN <<>> ELSE <<m>> \o x)
      BY <3>1, <3>3 DEF F
    <3> QED BY <3>1, <3>2, <3>4 DEF x
  <2>3. \A n \in 0 .. L : n = 0 \/ n \in 1 .. L
    BY <1>1
  <2> HIDE DEF Body, F
  <2> QED BY <2>1, <2>2, <2>3
<1>7. Is(f)
  <2>1. f = [n \in 0 .. L |-> f[n]]
    BY <1>5
  <2> HIDE DEF Body
  <2>2. [n \in 0 .. L |-> f[n]] = [n \in 0 .. L |-> Body(f, n)]
    BY <1>6
  <2> QED BY <2>1, <2>2
<1>8. Is(J)
  <2>1. J = CHOOSE g : Is(g)
    BY DEF Uri!Joined
  <2> HIDE DEF Is, J
  <2> QED BY <1>7, <2>1
<1> HIDE DEF J, F
<1>9. \A n \in 0 .. L : J[n] = Body(J, n)
  <2> HIDE DEF Body
  <2> QED BY <1>8
<1>10. \A n \in 0 .. L : J[n] = f[n]
  <2> DEFINE U == {n \in Nat : n \in 0 .. L => J[n] = f[n]}
  <2>1. 0 \in U
    BY <1>1, <1>5, <1>9
  <2>2. ASSUME NEW n \in U PROVE n + 1 \in U
    <3>1. SUFFICES ASSUME n + 1 \in 0 .. L PROVE J[n + 1] = f[n + 1]
      OBVIOUS
    <3>2. n \in Nat /\ n \in 0 .. L /\ (n + 1) - 1 = n /\ J[n] = f[n]
      BY <1>1, <3>1
    <3>3. Body(J, n + 1) = Body(f, n + 1)
      BY <3>2
    <3> HIDE DEF Body
    <3> QED BY <1>6, <1>9, <3>1, <3>3
  <2>3. U = Nat
    <3> HIDE DEF U
    <3>1. U \in SUBSET Nat
      BY DEF U
    <3> QED BY <2>1, <2>2, <3>1, Induction
  <2> QED BY <1>1, <2>3
<1>11. J \in [0 .. L -> Texts]
  <2>1. J = [n \in 0 .. L |-> J[n]]
    <3> HIDE DEF Body
    <3> QED BY <1>8
  <2> QED BY <1>5, <1>10, <2>1
<1>12. J[0] = <<>>
  BY <1>1, <1>9
<1>13. ASSUME L >= 1 PROVE J[1] = p[L]
  <2>1. 1 \in 0 .. L /\ L + 1 - 1 = L /\ L \in 1 .. L
    BY <1>1, <1>13
  <2> HIDE DEF L
  <2>3. J[1] = p[L] \o <<>>
    <3>1. J[1] = Body(J, 1)
      BY <1>9, <2>1
    <3> QED BY <1>1, <2>1, <3>1
  <2>2. p[L] \in Seq(Words)
    BY <2>1, ElementOfSeq DEF Texts, L
  <2> QED BY <2>2, <2>3, ConcatEmptySeq
<1>14. ASSUME NEW n \in 2 .. L PROVE J[n] = p[L + 1 - n] \o <<m>> \o J[n - 1]
  <2>1. n \in 0 .. L /\ n # 0 /\ n # 1 /\ n - 1 \in 0 .. L /\ n \in 1 .. L
    BY <1>1
  <2>2. J[n] = p[L + 1 - n] \o (<<m>> \o J[n - 1])
    BY <1>9, <2>1
  <2>3. p[L + 1 - n] \in Texts /\ <<m>> \in Texts /\ J[n - 1] \in Texts
    BY <1>1, <1>2, <1>11, <2>1
  <2> HIDE DEF L
  <2> QED BY <2>2, <2>3, TextsAssociate
<1> QED BY <1>11, <1>12, <1>13, <1>14 DEF J

\* A mark that is in no part is nowhere.
LEMMA JoinedWithout ==
  ASSUME NEW p \in Seq(Texts), NEW m \in Words, NEW k, k # m,
         \A i \in 1 .. Len(p) : Without(p[i], k)
  PROVE  \A n \in 0 .. Len(p) : Without(Uri!Joined(p, m)[n], k)
<1> DEFINE J == Uri!Joined(p, m)
           L == Len(p)
           U == {n \in Nat : n \in 0 .. L => Without(J[n], k)}
<1>1. /\ J \in [0 .. L -> Texts] /\ J[0] = <<>>
      /\ L >= 1 => J[1] = p[L]
      /\ \A n \in 2 .. L : J[n] = p[L + 1 - n] \o <<m>> \o J[n - 1]
  BY JoinedFacts
<1>2. L \in Nat
  OBVIOUS
<1> HIDE DEF J, L
<1>3. 0 \in U
  BY <1>1 DEF Without
<1>4. ASSUME NEW n \in U PROVE n + 1 \in U
  <2>1. SUFFICES ASSUME n + 1 \in 0 .. L PROVE Without(J[n + 1], k)
    OBVIOUS
  <2>2. CASE n = 0
    <3>1. J[1] = p[L] /\ L \in 1 .. L
      BY <1>1, <1>2, <2>1, <2>2
    <3>2. Without(p[L], k)
      BY <3>1 DEF L
    <3> QED BY <2>2, <3>1, <3>2
  <2>3. CASE n # 0
    <3>1. n \in 0 .. L /\ n + 1 \in 2 .. L /\ (n + 1) - 1 = n /\ L + 1 - (n + 1) \in 1 .. L
      BY <1>2, <2>1, <2>3
    <3> DEFINE a == p[L + 1 - (n + 1)]
               b == J[n]
    <3>2. a \in Texts /\ b \in Texts
      BY <1>1, <3>1, ElementOfSeq DEF L
    <3>3. J[n + 1] = a \o <<m>> \o b
      BY <1>1, <3>1
    <3>4. Without(a, k) /\ Without(b, k)
      BY <3>1 DEF L
    <3> HIDE DEF a, b
    <3> DEFINE t == a \o <<m>> \o b
    <3>5. /\ Len(t) = Len(a) + 1 + Len(b) /\ t[Len(a) + 1] = m
          /\ \A i \in 1 .. Len(a) : t[i] = a[i]
          /\ \A i \in 1 .. Len(b) : t[Len(a) + 1 + i] = b[i]
          /\ Len(a) \in Nat /\ Len(b) \in Nat
      <4>1. IsMarked(t, a, m, b)
        BY <3>2, Marked
      <4> HIDE DEF t
      <4> QED BY <4>1 DEF IsMarked
    <3> HIDE DEF t
    <3>6. ASSUME NEW i \in 1 .. Len(t) PROVE t[i] # k
      <4>1. CASE i <= Len(a)
        BY <3>4, <3>5, <4>1 DEF Without
      <4>2. CASE i = Len(a) + 1
        BY <3>5, <4>2
      <4>3. CASE i > Len(a) + 1
        <5>1. i - (Len(a) + 1) \in 1 .. Len(b) /\ Len(a) + 1 + (i - (Len(a) + 1)) = i
          BY <3>5, <4>3
        <5> QED BY <3>4, <3>5, <5>1 DEF Without
      <4> QED BY <3>5, <4>1, <4>2, <4>3
    <3> QED BY <3>3, <3>6 DEF t, Without
  <2> QED BY <2>2, <2>3
<1>5. U = Nat
  <2> HIDE DEF U
  <2>1. U \in SUBSET Nat
    BY DEF U
  <2> QED BY <1>3, <1>4, <2>1, Induction
<1> QED BY <1>2, <1>5 DEF J, L

\* There is a mark between two parts.
LEMMA JoinedLong ==
  ASSUME NEW p \in Seq(Texts), NEW m \in Words
  PROVE  \A n \in 1 .. Len(p) : Len(Uri!Joined(p, m)[n]) >= n - 1
<1> DEFINE J == Uri!Joined(p, m)
           L == Len(p)
           U == {n \in Nat : n + 1 \in 1 .. L => Len(J[n + 1]) >= n}
<1>1. /\ J \in [0 .. L -> Texts]
      /\ \A n \in 2 .. L : J[n] = p[L + 1 - n] \o <<m>> \o J[n - 1]
  BY JoinedFacts
<1>2. L \in Nat /\ \A n \in 1 .. L : Len(J[n]) \in Nat
  <2>1. \A n \in 1 .. L : J[n] \in Texts
    BY <1>1
  <2> QED BY <2>1 DEF Texts
<1> HIDE DEF J, L
<1>3. 0 \in U
  BY <1>2
<1>4. ASSUME NEW n \in U PROVE n + 1 \in U
  <2>1. SUFFICES ASSUME (n + 1) + 1 \in 1 .. L PROVE Len(J[(n + 1) + 1]) >= n + 1
    OBVIOUS
  <2> DEFINE k == (n + 1) + 1
  <2>2. /\ k \in 2 .. L /\ k - 1 = n + 1 /\ k - 1 \in 1 .. L /\ k - 1 \in 0 .. L
        /\ L + 1 - k \in 1 .. L /\ Len(J[n + 1]) >= n
    BY <1>2, <2>1
  <2> HIDE DEF k
  <2> DEFINE a == p[L + 1 - k]
             b == J[k - 1]
  <2>3. a \in Texts /\ b \in Texts /\ J[k] = a \o <<m>> \o b
    BY <1>1, <2>2, ElementOfSeq DEF L
  <2>4. Len(b) >= n
    BY <2>2
  <2> HIDE DEF a, b
  <2>5. /\ Len(a \o <<m>> \o b) = Len(a) + 1 + Len(b) /\ Len(a) \in Nat /\ Len(b) \in Nat
    <3>1. IsMarked(a \o <<m>> \o b, a, m, b)
      BY <2>3, Marked
    <3> QED BY <3>1 DEF IsMarked
  <2>6. Len(J[k]) >= n + 1
    BY <2>3, <2>4, <2>5
  <2> QED BY <2>6 DEF k
<1>5. U = Nat
  <2> HIDE DEF U
  <2>1. U \in SUBSET Nat
    BY DEF U
  <2> QED BY <1>3, <1>4, <2>1, Induction
<1>6. ASSUME NEW n \in 1 .. L PROVE Len(J[n]) >= n - 1
  <2>1. n - 1 \in Nat /\ (n - 1) + 1 = n
    BY <1>2
  <2>2. n - 1 \in U
    <3> HIDE DEF U
    <3> QED BY <1>5, <2>1
  <2>3. (n - 1) + 1 \in 1 .. L => Len(J[(n - 1) + 1]) >= n - 1
    BY <2>2
  <2> QED BY <2>1, <2>3
<1> QED BY <1>6 DEF J, L

Cut(c, m) ==
  LET i == Uri!Find(c.rest, m)
  IN  IF i > Len(c.rest) THEN c
      ELSE [parts |-> Append(c.parts, Uri!Before(c.rest, i)), rest |-> Uri!Behind(c.rest, i)]

\* After n cuts there are n parts, until only the last is left.
Cutting(p, m, n) ==
  LET k == IF n <= Len(p) - 1 THEN n ELSE Len(p) - 1
  IN  [parts |-> SubSeq(p, 1, k), rest |-> Uri!Joined(p, m)[Len(p) - k]]

\* A beginning and the part behind it are a longer beginning.
LEMMA Prefix ==
  ASSUME NEW S, NEW p \in Seq(S), NEW n \in Nat, n + 1 <= Len(p)
  PROVE  Append(SubSeq(p, 1, n), p[n + 1]) = SubSeq(p, 1, n + 1)
<1>1. n + 1 \in 1 .. Len(p) /\ Len(p) \in Nat /\ \A i \in 1 .. n + 1 : i \in 1 .. Len(p)
  OBVIOUS
<1>2. \A i \in 1 .. n + 1 : p[i] \in S
  BY <1>1, ElementOfSeq
<1> DEFINE a == SubSeq(p, 1, n)
           b == SubSeq(p, 1, n + 1)
<1>3. a \in Seq(S) /\ Len(a) = n /\ \A i \in 1 .. n : a[i] = p[i]
  <2>1. /\ 1 \in Int /\ n \in Int /\ (IF 1 <= n THEN n - 1 + 1 ELSE 0) = n /\ n - 1 + 1 = n
        /\ \A i \in 1 .. n : 1 + i - 1 = i /\ i \in 1 .. n + 1
    OBVIOUS
  <2>2. /\ a \in Seq(S) /\ Len(a) = (IF 1 <= n THEN n - 1 + 1 ELSE 0)
        /\ \A i \in 1 .. n - 1 + 1 : a[i] = p[1 + i - 1]
    BY <1>2, <2>1, SubSeqProperties
  <2> HIDE DEF a
  <2> QED BY <2>1, <2>2
<1>4. b \in Seq(S) /\ Len(b) = n + 1 /\ \A i \in 1 .. n + 1 : b[i] = p[i]
  <2>1. /\ 1 \in Int /\ n + 1 \in Int /\ (IF 1 <= n + 1 THEN (n + 1) - 1 + 1 ELSE 0) = n + 1
        /\ (n + 1) - 1 + 1 = n + 1
        /\ \A i \in 1 .. n + 1 : 1 + i - 1 = i
    OBVIOUS
  <2>2. /\ b \in Seq(S) /\ Len(b) = (IF 1 <= n + 1 THEN (n + 1) - 1 + 1 ELSE 0)
        /\ \A i \in 1 .. (n + 1) - 1 + 1 : b[i] = p[1 + i - 1]
    <3> DEFINE k == n + 1
    <3>1. k \in Int /\ \A i \in 1 .. k : p[i] \in S
      BY <1>2, <2>1
    <3> HIDE DEF k
    <3>2. /\ SubSeq(p, 1, k) \in Seq(S) /\ Len(SubSeq(p, 1, k)) = (IF 1 <= k THEN k - 1 + 1 ELSE 0)
          /\ \A i \in 1 .. k - 1 + 1 : SubSeq(p, 1, k)[i] = p[1 + i - 1]
      BY <2>1, <3>1, SubSeqProperties
    <3> QED BY <3>2 DEF k
  <2> HIDE DEF b
  <2> QED BY <2>1, <2>2
<1> HIDE DEF a, b
<1> DEFINE c == Append(a, p[n + 1])
<1>5. /\ c \in Seq(S) /\ Len(c) = n + 1
      /\ \A i \in 1 .. n + 1 : c[i] = IF i <= n THEN a[i] ELSE p[n + 1]
  <2>1. p[n + 1] \in S
    BY <1>1, <1>2
  <2>2. /\ c \in Seq(S) /\ Len(c) = Len(a) + 1
        /\ \A i \in 1 .. Len(a) + 1 : c[i] = IF i <= Len(a) THEN a[i] ELSE p[n + 1]
    BY <1>3, <2>1, AppendProperties
  <2> HIDE DEF c
  <2> QED BY <1>3, <2>2
<1> HIDE DEF c
<1>6. \A i \in 1 .. n + 1 : c[i] = b[i]
  <2>1. \A i \in 1 .. n + 1 : i <= n => i \in 1 .. n
    OBVIOUS
  <2>2. \A i \in 1 .. n + 1 : ~(i <= n) => i = n + 1
    OBVIOUS
  <2> QED BY <1>3, <1>4, <1>5, <2>1, <2>2
<1>7. c = b
  BY <1>4, <1>5, <1>6, SeqEqual
<1> QED BY <1>7 DEF a, b, c

\* One more cut takes off the next part.
LEMMA CutsOn ==
  ASSUME NEW p \in Seq(Texts), Len(p) >= 1, NEW m \in Words,
         \A i \in 1 .. Len(p) : Without(p[i], m), NEW n \in Nat
  PROVE  Cut(Cutting(p, m, n), m) = Cutting(p, m, n + 1)
<1> DEFINE J == Uri!Joined(p, m)
           L == Len(p)
<1>1. /\ J[1] = p[L]
      /\ \A k \in 2 .. L : J[k] = p[L + 1 - k] \o <<m>> \o J[k - 1]
      /\ J \in [0 .. L -> Texts] /\ L \in Nat
  <2>1. L \in Nat
    OBVIOUS
  <2>2. /\ J \in [0 .. L -> Texts] /\ (L >= 1 => J[1] = p[L])
        /\ \A k \in 2 .. L : J[k] = p[L + 1 - k] \o <<m>> \o J[k - 1]
    BY JoinedFacts
  <2> QED BY <2>1, <2>2
<1> HIDE DEF J
<1>2. CASE n < L - 1
  <2>1. /\ n <= L - 1 /\ n + 1 <= L - 1 /\ L - n \in 2 .. L /\ L + 1 - (L - n) = n + 1
        /\ (L - n) - 1 = L - (n + 1) /\ n + 1 \in 1 .. L /\ L - (n + 1) \in 0 .. L /\ n + 1 <= L
    BY <1>1, <1>2
  <2> DEFINE a == p[n + 1]
             b == J[L - (n + 1)]
             s == SubSeq(p, 1, n)
             t == J[L - n]
  <2>2. Cutting(p, m, n) = [parts |-> s, rest |-> t]
    BY <2>1 DEF Cutting, J
  <2>3. Cutting(p, m, n + 1) = [parts |-> SubSeq(p, 1, n + 1), rest |-> b]
    BY <2>1 DEF Cutting, J
  <2>4. t = a \o <<m>> \o b
    <3>1. J[L - n] = p[L + 1 - (L - n)] \o <<m>> \o J[(L - n) - 1]
      BY <1>1, <2>1
    <3> QED BY <2>1, <3>1
  <2>5. a \in Texts /\ b \in Texts /\ Without(a, m)
    BY <1>1, <2>1, ElementOfSeq
  <2>6. Append(s, a) = SubSeq(p, 1, n + 1)
    BY <2>1, Prefix
  <2> HIDE DEF a, b, s, t
  <2>7. /\ ~(Uri!Find(t, m) > Len(t)) /\ Uri!Before(t, Uri!Find(t, m)) = a
        /\ Uri!Behind(t, Uri!Find(t, m)) = b
    <3>1. Parted(t, a, m, b)
      BY <2>4, <2>5 DEF Parted
    <3> QED BY <3>1, FirstMark
  <2>8. Cut([parts |-> s, rest |-> t], m) = [parts |-> Append(s, a), rest |-> b]
    BY <2>7 DEF Cut
  <2> QED BY <2>2, <2>3, <2>6, <2>8
<1>3. CASE ~(n < L - 1)
  <2>1. /\ (IF n <= L - 1 THEN n ELSE L - 1) = L - 1
        /\ (IF n + 1 <= L - 1 THEN n + 1 ELSE L - 1) = L - 1 /\ L - (L - 1) = 1 /\ L \in 1 .. L
    BY <1>1, <1>3
  <2> DEFINE s == SubSeq(p, 1, L - 1)
             a == p[L]
  <2>2. Cutting(p, m, n) = [parts |-> s, rest |-> a]
    BY <1>1, <2>1 DEF Cutting, J
  <2>3. Cutting(p, m, n + 1) = [parts |-> s, rest |-> a]
    BY <1>1, <2>1 DEF Cutting, J
  <2>4. a \in Texts /\ Without(a, m)
    BY <2>1, ElementOfSeq
  <2> HIDE DEF a, s
  <2>5. Uri!Find(a, m) > Len(a)
    BY <2>4, NoMark
  <2>6. Cut([parts |-> s, rest |-> a], m) = [parts |-> s, rest |-> a]
    BY <2>5 DEF Cut
  <2> QED BY <2>2, <2>3, <2>6
<1> QED BY <1>2, <1>3

\* What was joined is split into what it was joined from.
LEMMA SplitJoined ==
  ASSUME NEW p \in Seq(Texts), Len(p) >= 1, NEW m \in Words,
         \A i \in 1 .. Len(p) : Without(p[i], m)
  PROVE  Uri!Split(Uri!Join(p, m), m) = p
<1> DEFINE L == Len(p)
           T == Uri!Join(p, m)
           N == Len(T)
           Start == [parts |-> <<>>, rest |-> T]
           Body(f, n) == IF n = 0 THEN Start ELSE Cut(f[n - 1], m)
           Is(f) == f = [n \in 0 .. N |-> Body(f, n)]
           S(n) == Cutting(p, m, n)
           f == [n \in 0 .. N |-> S(n)]
           C == Uri!Cuts(T, m)
<1>1. L \in Nat /\ L \in 0 .. L /\ L \in 1 .. L /\ L >= 1
  OBVIOUS
<1>2. T \in Texts /\ N \in Nat /\ N >= L - 1
  <2>1. T \in Texts /\ N >= L - 1
    BY <1>1, JoinedFacts, JoinedLong DEF Uri!Join
  <2> QED BY <2>1 DEF Texts
<1>3. S(0) = Start
  <2>1. 0 <= L - 1 /\ L - 0 = L
    BY <1>1
  <2>2. SubSeq(p, 1, 0) = <<>>
    BY SubSeqEmpty
  <2> QED BY <2>1, <2>2 DEF Cutting, Uri!Join
<1>4. \A n \in Nat : Cut(S(n), m) = S(n + 1)
  BY CutsOn
<1> HIDE DEF T, Start, S
<1>5. Is(f)
  <2>1. ASSUME NEW n \in 0 .. N PROVE S(n) = Body(f, n)
    <3>1. CASE n = 0
      BY <1>3, <3>1
    <3>2. CASE n # 0
      <4>1. n - 1 \in Nat /\ n - 1 \in 0 .. N /\ (n - 1) + 1 = n
        BY <1>2, <3>2
      <4>2. f[n - 1] = S(n - 1)
        BY <4>1
      <4> HIDE DEF f
      <4>3. Cut(S(n - 1), m) = S((n - 1) + 1)
        BY <1>4, <4>1
      <4> QED BY <3>2, <4>1, <4>2, <4>3
    <3> QED BY <3>1, <3>2
  <2> HIDE DEF Body
  <2> QED BY <2>1
<1>6. Is(C)
  <2>1. C = CHOOSE g : Is(g)
    BY DEF Uri!Cuts, Cut, Start
  <2> HIDE DEF Is, C
  <2> QED BY <1>5, <2>1
<1> HIDE DEF C, f
<1>7. \A n \in 0 .. N : C[n] = Body(C, n)
  <2> HIDE DEF Body
  <2> QED BY <1>6
<1>8. C[N] = S(N)
  <2> DEFINE U == {n \in Nat : n \in 0 .. N => C[n] = S(n)}
  <2>1. 0 \in U
    BY <1>2, <1>3, <1>7
  <2>2. ASSUME NEW n \in U PROVE n + 1 \in U
    <3>1. SUFFICES ASSUME n + 1 \in 0 .. N PROVE C[n + 1] = S(n + 1)
      OBVIOUS
    <3>2. n \in Nat /\ n \in 0 .. N /\ (n + 1) - 1 = n /\ n + 1 # 0 /\ C[n] = S(n)
      BY <1>2, <3>1
    <3>3. Body(C, n + 1) = Cut(S(n), m)
      BY <3>2
    <3>4. C[n + 1] = Body(C, n + 1)
      <4> HIDE DEF Body
      <4> QED BY <1>7, <3>1
    <3> QED BY <1>4, <3>2, <3>3, <3>4
  <2>3. U = Nat
    <3> HIDE DEF U
    <3>1. U \in SUBSET Nat
      BY DEF U
    <3> QED BY <2>1, <2>2, <3>1, Induction
  <2> QED BY <1>2, <2>3
<1>9. S(N) = [parts |-> SubSeq(p, 1, L - 1), rest |-> p[L]]
  <2>1. (IF N <= L - 1 THEN N ELSE L - 1) = L - 1 /\ L - (L - 1) = 1
    BY <1>1, <1>2
  <2>2. Uri!Joined(p, m)[1] = p[L]
    BY <1>1, JoinedFacts
  <2> QED BY <2>1, <2>2 DEF S, Cutting
<1>10. Uri!Split(T, m) = Append(SubSeq(p, 1, L - 1), p[L])
  BY <1>8, <1>9 DEF Uri!Split, C
<1>11. Append(SubSeq(p, 1, L - 1), p[L]) = p
  <2>1. L - 1 \in Nat /\ (L - 1) + 1 <= Len(p) /\ (L - 1) + 1 = L
    BY <1>1
  <2> DEFINE k == L - 1
  <2>2. Append(SubSeq(p, 1, k), p[k + 1]) = SubSeq(p, 1, k + 1)
    <3> HIDE DEF k
    <3>1. k \in Nat /\ k + 1 <= Len(p)
      BY <2>1 DEF k
    <3> QED BY <3>1, Prefix
  <2>3. SubSeq(p, 1, L) = p
    BY SubSeqFull
  <2> QED BY <2>1, <2>2, <2>3
<1> QED BY <1>10, <1>11 DEF T

-----------------------------------------------------------------------------
\* Given, Value and Meant of any string and any options.
GivenIn(u, key, n) == {i \in 1 .. n : u.options[i].key = <<key>>}

Largest(S) == CHOOSE i \in S : \A j \in S : j <= i

ValueIn(u, key, n, else) ==
  IF GivenIn(u, key, n) = {} THEN else ELSE <<u.options[Largest(GivenIn(u, key, n))].value>>

PathSource(u) == IF u.path = "absent" THEN <<>> ELSE <<u.source>>

CollectedIn(tags, u, n) ==
  \E given \in [DOMAIN tags -> GivenIn(u, "readPreferenceTags", n)] :
    /\ \A i, j \in DOMAIN tags : i < j => given[i] < given[j]
    /\ \A k \in GivenIn(u, "readPreferenceTags", n) : \E i \in DOMAIN tags : given[i] = k
    /\ \A i \in DOMAIN tags : tags[i] = Uri!Split(u.options[given[i]].value, ",")

JournalOf(v) == IF v = <<>> THEN <<>> ELSE <<v[1] = Uri!True>>

CompressorsOf(v) == IF v = <<>> THEN <<>> ELSE Uri!Supported(Uri!Split(v[1], ","))

Fields == {"username", "password", "hosts", "source", "appname", "maxPoolSize", "retryWrites", "w",
           "journal", "tags", "compressors", "tls", "insecure", "topology"}

Shaped(o) == DOMAIN o = Fields /\ \E S : o.tags \in Seq(S)

MeantIn(o, u, n) ==
  /\ o.hosts = u.hosts
  /\ o.username = Uri!Nth(u.user, 1)
  /\ o.password = Uri!Nth(u.user, 2)
  /\ o.source = ValueIn(u, "authSource", n, PathSource(u))
  /\ o.appname = ValueIn(u, "appname", n, <<>>)
  /\ o.maxPoolSize = ValueIn(u, "maxPoolSize", n, <<>>)
  /\ o.w = ValueIn(u, "w", n, <<>>)
  /\ o.topology = ValueIn(u, "initialTopologyType", n, <<>>)
  /\ o.journal = JournalOf(ValueIn(u, "journal", n, <<>>))
  /\ o.compressors = CompressorsOf(ValueIn(u, "compressors", n, <<>>))
  /\ o.retryWrites <=> ValueIn(u, "retryWrites", n, <<Uri!True>>) = <<Uri!True>>
  /\ CollectedIn(o.tags, u, n)

\* Meant, with the options and the string as parameters.
LEMMA MeantAsMeant == \A n : Uri!Meant(n) <=> MeantIn(parsed, uri, n)
<1>1. SUFFICES ASSUME NEW n PROVE Uri!Meant(n) <=> MeantIn(parsed, uri, n)
  OBVIOUS
<1>2. ASSUME NEW K PROVE Uri!Given(K, n) = GivenIn(uri, K, n)
  BY DEF Uri!Given, GivenIn
<1>3. ASSUME NEW k, NEW e PROVE Uri!Value(k, n, e) = ValueIn(uri, k, n, e)
  <2> DEFINE G == Uri!Given(k, n)
  <2>1. GivenIn(uri, k, n) = G
    BY <1>2
  <2>2. Uri!Value(k, n, e) = IF G = {} THEN e ELSE <<uri.options[Largest(G)].value>>
    BY DEF Uri!Value, Largest
  <2>3. ValueIn(uri, k, n, e) = IF G = {} THEN e ELSE <<uri.options[Largest(G)].value>>
    <3> HIDE DEF G
    <3> QED BY <2>1 DEF ValueIn
  <2> QED BY <2>2, <2>3
<1>6. CollectedIn(parsed.tags, uri, n) <=> Uri!Collected(parsed.tags, n)
  <2> DEFINE G == Uri!Given("readPreferenceTags", n)
  <2>1. GivenIn(uri, "readPreferenceTags", n) = G
    BY <1>2
  <2> HIDE DEF G
  <2> QED BY <2>1 DEF CollectedIn, Uri!Collected, G
<1>7. /\ ValueIn(uri, "authSource", n, PathSource(uri)) = Uri!Value("authSource", n, PathSource(uri))
      /\ ValueIn(uri, "appname", n, <<>>) = Uri!Value("appname", n, <<>>)
      /\ ValueIn(uri, "maxPoolSize", n, <<>>) = Uri!Value("maxPoolSize", n, <<>>)
      /\ ValueIn(uri, "w", n, <<>>) = Uri!Value("w", n, <<>>)
      /\ ValueIn(uri, "initialTopologyType", n, <<>>) = Uri!Value("initialTopologyType", n, <<>>)
      /\ ValueIn(uri, "journal", n, <<>>) = Uri!Value("journal", n, <<>>)
      /\ ValueIn(uri, "compressors", n, <<>>) = Uri!Value("compressors", n, <<>>)
      /\ ValueIn(uri, "retryWrites", n, <<Uri!True>>) = Uri!Value("retryWrites", n, <<Uri!True>>)
  BY <1>3
<1>8. Uri!Meant(n) <=>
        /\ parsed.hosts = uri.hosts
        /\ parsed.username = Uri!Nth(uri.user, 1)
        /\ parsed.password = Uri!Nth(uri.user, 2)
        /\ parsed.source = Uri!Value("authSource", n, PathSource(uri))
        /\ parsed.appname = Uri!Value("appname", n, <<>>)
        /\ parsed.maxPoolSize = Uri!Value("maxPoolSize", n, <<>>)
        /\ parsed.w = Uri!Value("w", n, <<>>)
        /\ parsed.topology = Uri!Value("initialTopologyType", n, <<>>)
        /\ parsed.journal = JournalOf(Uri!Value("journal", n, <<>>))
        /\ parsed.compressors = CompressorsOf(Uri!Value("compressors", n, <<>>))
        /\ parsed.retryWrites <=> Uri!Value("retryWrites", n, <<Uri!True>>) = <<Uri!True>>
        /\ Uri!Collected(parsed.tags, n)
  BY DEF Uri!Meant, PathSource, JournalOf, CompressorsOf
<1> QED BY <1>6, <1>7, <1>8 DEF MeantIn

\* One more option is given.
LEMMA GivenNext ==
  ASSUME NEW u, NEW k, NEW n \in Nat
  PROVE  /\ u.options[n + 1].key = <<k>> => GivenIn(u, k, n + 1) = GivenIn(u, k, n) \cup {n + 1}
         /\ u.options[n + 1].key # <<k>> => GivenIn(u, k, n + 1) = GivenIn(u, k, n)
<1>1. 1 .. n + 1 = (1 .. n) \cup {n + 1}
  OBVIOUS
<1> QED BY <1>1 DEF GivenIn

\* The next option gives its key a new value, and no other.
LEMMA ValueNext ==
  ASSUME NEW u, NEW key, NEW n \in Nat, NEW e
  PROVE  /\ u.options[n + 1].key = <<key>> => ValueIn(u, key, n + 1, e) = <<u.options[n + 1].value>>
         /\ u.options[n + 1].key # <<key>> => ValueIn(u, key, n + 1, e) = ValueIn(u, key, n, e)
<1> DEFINE G == GivenIn(u, key, n)
           H == GivenIn(u, key, n + 1)
<1>1. ASSUME u.options[n + 1].key = <<key>>
      PROVE  ValueIn(u, key, n + 1, e) = <<u.options[n + 1].value>>
  <2>1. H = G \cup {n + 1}
    BY <1>1, GivenNext
  <2>2. \A i \in H : i \in Nat /\ i <= n + 1
    BY DEF GivenIn
  <2> HIDE DEF H, G
  <2>3. Largest(H) = n + 1
    <3>1. n + 1 \in H /\ \A j \in H : j <= n + 1
      BY <2>1, <2>2
    <3>2. \A i \in H : (\A j \in H : j <= i) => i = n + 1
      BY <2>2, <3>1
    <3> QED BY <3>1, <3>2 DEF Largest
  <2>4. H # {}
    BY <2>1
  <2> QED BY <2>3, <2>4 DEF ValueIn, H
<1>2. ASSUME u.options[n + 1].key # <<key>>
      PROVE  ValueIn(u, key, n + 1, e) = ValueIn(u, key, n, e)
  <2>2. H = G
    BY <1>2, GivenNext
  <2> HIDE DEF H, G
  <2>3. ValueIn(u, key, n, e) = IF G = {} THEN e ELSE <<u.options[Largest(G)].value>>
    BY DEF ValueIn, G
  <2>4. ValueIn(u, key, n + 1, e) = IF H = {} THEN e ELSE <<u.options[Largest(H)].value>>
    BY DEF ValueIn, H
  <2> QED BY <2>2, <2>3, <2>4
<1> QED BY <1>1, <1>2

\* What an option that is accepted may do.
Applied(o, key, value, q) ==
  \/ key = <<"appname">> /\ q = [o EXCEPT !.appname = <<value>>]
  \/ key = <<"authSource">> /\ q = [o EXCEPT !.source = <<value>>]
  \/ key = <<"retryWrites">> /\ q = [o EXCEPT !.retryWrites = value = Uri!True]
  \/ key = <<"journal">> /\ q = [o EXCEPT !.journal = <<value = Uri!True>>]
  \/ key = <<"tls">> /\ q = [o EXCEPT !.tls = TRUE, !.insecure = FALSE]
  \/ key = <<"tlsInsecure">> /\ q = [o EXCEPT !.tls = TRUE, !.insecure = value = Uri!True]
  \/ key = <<"maxPoolSize">> /\ q = [o EXCEPT !.maxPoolSize = <<value>>]
  \/ key = <<"w">> /\ q = [o EXCEPT !.w = <<value>>]
  \/ key = <<"compressors">> /\ q = [o EXCEPT !.compressors = Uri!Supported(Uri!Split(value, ","))]
  \/ key = <<"readPreferenceTags">> /\ q = [o EXCEPT !.tags = Append(@, Uri!Split(value, ","))]
  \/ key = <<"initialTopologyType">> /\ q = [o EXCEPT !.topology = <<value>>]

\* An option that is accepted changes what its key says.
LEMMA ApplyApplies ==
  ASSUME NEW o, NEW key, NEW value, NEW a, a = Uri!Apply(o, key, value)
  PROVE  a.result # "ok" /\ (a.result = "none" => Applied(o, key, value, a.options))
<1> DEFINE e1 == Uri!Ok([o EXCEPT !.appname = <<value>>])
           e2 == Uri!Ok(Uri!authSource(o, value))
           e3 == Uri!Ok([o EXCEPT !.retryWrites = value = Uri!True])
           e4 == Uri!Ok([o EXCEPT !.journal = <<value = Uri!True>>])
           e5 == Uri!Ok([o EXCEPT !.tls = TRUE, !.insecure = FALSE])
           e6 == Uri!Ok([o EXCEPT !.tls = TRUE, !.insecure = value = Uri!True])
           e7 == Uri!Ok([o EXCEPT !.maxPoolSize = <<value>>])
           e8 == Uri!Ok([o EXCEPT !.w = <<value>>])
           tags == Uri!Split(value, ",")
           e9 == Uri!Ok([o EXCEPT !.compressors = Uri!Supported(tags)])
           g9 == \A i \in DOMAIN tags : tags[i] \in Uri!Compressors
           g10 == \E i \in DOMAIN tags : Uri!Lacks(tags[i], {":"})
           e10 == IF g10 THEN Uri!Bad("panic", o) ELSE Uri!Ok([o EXCEPT !.tags = Append(@, tags)])
           e11 == IF value \in Uri!Topologies THEN Uri!Ok([o EXCEPT !.topology = <<value>>])
                  ELSE Uri!Bad("panic", o)
<1>1. a = CASE key = <<"appname">> -> e1
            [] key = <<"authSource">> -> e2
            [] key = <<"retryWrites">> -> e3
            [] key = <<"journal">> -> e4
            [] key = <<"tls">> -> e5
            [] key = <<"tlsInsecure">> -> e6
            [] key = <<"maxPoolSize">> /\ value \in Uri!Numbers -> e7
            [] key = <<"w">> /\ value \in Uri!Numbers -> e8
            [] key = <<"compressors">> /\ g9 -> e9
            [] key = <<"readPreferenceTags">> -> e10
            [] key = <<"initialTopologyType">> -> e11
            [] OTHER -> Uri!Bad("error", o)
  BY Zenon DEF Uri!Apply
<1> HIDE DEF e1, e2, e3, e4, e5, e6, e7, e8, e9, e10, e11, g9
<1>2. \/ key = <<"appname">> /\ a = e1
      \/ key = <<"authSource">> /\ a = e2
      \/ key = <<"retryWrites">> /\ a = e3
      \/ key = <<"journal">> /\ a = e4
      \/ key = <<"tls">> /\ a = e5
      \/ key = <<"tlsInsecure">> /\ a = e6
      \/ key = <<"maxPoolSize">> /\ a = e7
      \/ key = <<"w">> /\ a = e8
      \/ key = <<"compressors">> /\ a = e9
      \/ key = <<"readPreferenceTags">> /\ a = e10
      \/ key = <<"initialTopologyType">> /\ a = e11
      \/ a = Uri!Bad("error", o)
  BY <1>1, Zenon
<1>3. a.result # "ok"
  <2>1. \/ \E x : a = Uri!Ok(x)
        \/ a = Uri!Bad("panic", o) \/ a = Uri!Bad("error", o)
    BY <1>2, Zenon DEF e1, e2, e3, e4, e5, e6, e7, e8, e9, e10, e11
  <2>2. (\A x : Uri!Ok(x).result # "ok") /\ Uri!Bad("panic", o).result # "ok" /\ Uri!Bad("error", o).result # "ok"
    BY DEF Uri!Ok, Uri!Bad
  <2> QED BY <2>1, <2>2
<1>4. ASSUME a.result = "none" PROVE Applied(o, key, value, a.options)
  <2>1. a # Uri!Bad("panic", o) /\ a # Uri!Bad("error", o)
    BY <1>4 DEF Uri!Bad
  <2>2. a = e10 => a = Uri!Ok([o EXCEPT !.tags = Append(@, tags)])
    BY <2>1 DEF e10
  <2>3. a = e11 => a = Uri!Ok([o EXCEPT !.topology = <<value>>])
    BY <2>1 DEF e11
  <2>4. \A x : a = Uri!Ok(x) => a.options = x
    BY DEF Uri!Ok
  <2> QED
    BY <1>2, <2>1, <2>2, <2>3, <2>4 DEF e1, e2, e3, e4, e5, e6, e7, e8, e9, Applied, Uri!authSource
<1> QED BY <1>3, <1>4

\* The next option adds its tags or none.
LEMMA CollectedNext ==
  ASSUME NEW u, NEW n \in Nat, NEW S, NEW tags \in Seq(S), CollectedIn(tags, u, n)
  PROVE  LET o == u.options[n + 1]
             added == Append(tags, Uri!Split(o.value, ","))
         IN  /\ o.key = <<"readPreferenceTags">> => CollectedIn(added, u, n + 1) /\ \E T : added \in Seq(T)
             /\ o.key # <<"readPreferenceTags">> => CollectedIn(tags, u, n + 1)
<1> DEFINE o == u.options[n + 1]
           tag == Uri!Split(o.value, ",")
           added == Append(tags, tag)
           G == GivenIn(u, "readPreferenceTags", n)
           H == GivenIn(u, "readPreferenceTags", n + 1)
           T == S \cup {tag}
           L == Len(tags)
<1>1. PICK given \in [DOMAIN tags -> G] :
        /\ \A i, j \in DOMAIN tags : i < j => given[i] < given[j]
        /\ \A k \in G : \E i \in DOMAIN tags : given[i] = k
        /\ \A i \in DOMAIN tags : tags[i] = Uri!Split(u.options[given[i]].value, ",")
  BY DEF CollectedIn
<1>2. /\ o.key = <<"readPreferenceTags">> => H = G \cup {n + 1}
      /\ o.key # <<"readPreferenceTags">> => H = G
  BY GivenNext
<1>3. \A i \in G : i \in Nat /\ i < n + 1
  BY DEF GivenIn
<1>4. CASE o.key # <<"readPreferenceTags">>
  <2>1. CollectedIn(tags, u, n + 1)
    BY <1>2, <1>4 DEF CollectedIn
  <2> QED BY <1>4, <2>1
<1>5. CASE o.key = <<"readPreferenceTags">>
  <2>1. tags \in Seq(T) /\ tag \in T
    BY SeqMonotonic
  <2> HIDE DEF tag, T
  <2>2. /\ added \in Seq(T) /\ Len(added) = L + 1
        /\ \A i \in 1 .. L + 1 : added[i] = IF i <= L THEN tags[i] ELSE tag
    BY <2>1, AppendProperties
  <2>3. /\ L \in Nat /\ DOMAIN tags = 1 .. L /\ DOMAIN added = 1 .. L + 1
        /\ \A i \in 1 .. L : i \in 1 .. L + 1 /\ i <= L /\ i # L + 1
        /\ \A i \in 1 .. L + 1 : i \in 1 .. L \/ i = L + 1
        /\ L + 1 \in 1 .. L + 1 /\ ~(L + 1 <= L)
    BY <2>1, <2>2
  <2> HIDE DEF added, G, H, L, o
  <2> DEFINE g == [i \in 1 .. L + 1 |-> IF i = L + 1 THEN n + 1 ELSE given[i]]
  <2>4. H = G \cup {n + 1}
    BY <1>2, <1>5
  <2>5. g[L + 1] = n + 1 /\ \A i \in 1 .. L : g[i] = given[i] /\ given[i] \in G
    BY <1>1, <2>3
  <2>6. g \in [1 .. L + 1 -> H]
    BY <2>3, <2>4, <2>5
  <2> HIDE DEF g
  <2>7. ASSUME NEW i \in 1 .. L + 1, NEW j \in 1 .. L + 1, i < j PROVE g[i] < g[j]
    <3>1. CASE j = L + 1
      <4>1. i \in 1 .. L
        BY <2>3, <2>7, <3>1
      <4> QED BY <1>3, <2>5, <3>1, <4>1
    <3>2. CASE j # L + 1
      <4>1. i \in 1 .. L /\ j \in 1 .. L
        BY <2>3, <2>7, <3>2
      <4> QED BY <1>1, <2>3, <2>5, <2>7, <4>1
    <3> QED BY <3>1, <3>2
  <2>8. ASSUME NEW k \in H PROVE \E i \in 1 .. L + 1 : g[i] = k
    <3>1. CASE k = n + 1
      BY <2>3, <2>5, <3>1
    <3>2. CASE k # n + 1
      <4>1. PICK i \in 1 .. L : given[i] = k
        BY <1>1, <2>3, <2>4, <3>2
      <4> QED BY <2>3, <2>5, <4>1
    <3> QED BY <3>1, <3>2
  <2>9. ASSUME NEW i \in 1 .. L + 1 PROVE added[i] = Uri!Split(u.options[g[i]].value, ",")
    <3>1. CASE i = L + 1
      <4>1. added[i] = tag
        BY <2>2, <2>3, <3>1
      <4> QED BY <2>5, <3>1, <4>1 DEF tag, o
    <3>2. CASE i # L + 1
      <4>1. i \in 1 .. L
        BY <2>3, <3>2
      <4>2. added[i] = tags[i] /\ g[i] = given[i]
        BY <2>2, <2>3, <2>5, <4>1
      <4> QED BY <1>1, <2>3, <4>1, <4>2
    <3> QED BY <3>1, <3>2
  <2>10. CollectedIn(added, u, n + 1)
    <3> DEFINE D == DOMAIN added
    <3>1. D = 1 .. L + 1
      BY <2>3
    <3> HIDE DEF D
    <3>2. /\ g \in [D -> H]
          /\ \A i, j \in D : i < j => g[i] < g[j]
          /\ \A k \in H : \E i \in D : g[i] = k
          /\ \A i \in D : added[i] = Uri!Split(u.options[g[i]].value, ",")
      BY <2>6, <2>7, <2>8, <2>9, <3>1
    <3>3. CollectedIn(added, u, n + 1) <=>
            \E f \in [D -> H] :
              /\ \A i, j \in D : i < j => f[i] < f[j]
              /\ \A k \in H : \E i \in D : f[i] = k
              /\ \A i \in D : added[i] = Uri!Split(u.options[f[i]].value, ",")
      BY DEF CollectedIn, H, D
    <3> QED BY <3>2, <3>3
  <2> QED BY <1>5, <2>2, <2>10 DEF added, tag, o
<1> QED BY <1>4, <1>5

\* An option that is accepted changes what it is about and nothing else.
Effects(o, key, value, q) ==
  /\ DOMAIN q = Fields
  /\ q.hosts = o.hosts /\ q.username = o.username /\ q.password = o.password
  /\ q.source = IF key = <<"authSource">> THEN <<value>> ELSE o.source
  /\ q.appname = IF key = <<"appname">> THEN <<value>> ELSE o.appname
  /\ q.maxPoolSize = IF key = <<"maxPoolSize">> THEN <<value>> ELSE o.maxPoolSize
  /\ q.w = IF key = <<"w">> THEN <<value>> ELSE o.w
  /\ q.topology = IF key = <<"initialTopologyType">> THEN <<value>> ELSE o.topology
  /\ q.journal = IF key = <<"journal">> THEN <<value = Uri!True>> ELSE o.journal
  /\ q.compressors = IF key = <<"compressors">> THEN Uri!Supported(Uri!Split(value, ","))
                     ELSE o.compressors
  /\ q.retryWrites <=> IF key = <<"retryWrites">> THEN value = Uri!True ELSE o.retryWrites
  /\ q.tags = IF key = <<"readPreferenceTags">> THEN Append(o.tags, Uri!Split(value, ",")) ELSE o.tags

\* What an accepted option does to each field.
LEMMA AppliedEffects ==
  ASSUME NEW o, NEW key, NEW value, NEW q, DOMAIN o = Fields, Applied(o, key, value, q)
  PROVE  Effects(o, key, value, q)
<1> DEFINE added == Append(o.tags, Uri!Split(value, ","))
<1>1. \A a, b : <<a>> = <<b>> => a = b
  OBVIOUS
<1>2. ASSUME key = <<"appname">>, q = [o EXCEPT !.appname = <<value>>]
      PROVE  Effects(o, key, value, q)
  BY <1>1, <1>2 DEF Effects, Fields
<1>3. ASSUME key = <<"authSource">>, q = [o EXCEPT !.source = <<value>>]
      PROVE  Effects(o, key, value, q)
  BY <1>1, <1>3 DEF Effects, Fields
<1>4. ASSUME key = <<"retryWrites">>, q = [o EXCEPT !.retryWrites = value = Uri!True]
      PROVE  Effects(o, key, value, q)
  BY <1>1, <1>4 DEF Effects, Fields
<1>5. ASSUME key = <<"journal">>, q = [o EXCEPT !.journal = <<value = Uri!True>>]
      PROVE  Effects(o, key, value, q)
  BY <1>1, <1>5 DEF Effects, Fields
<1>6. ASSUME key = <<"tls">>, q = [o EXCEPT !.tls = TRUE, !.insecure = FALSE]
      PROVE  Effects(o, key, value, q)
  BY <1>1, <1>6 DEF Effects, Fields
<1>7. ASSUME key = <<"tlsInsecure">>, q = [o EXCEPT !.tls = TRUE, !.insecure = value = Uri!True]
      PROVE  Effects(o, key, value, q)
  BY <1>1, <1>7 DEF Effects, Fields
<1>8. ASSUME key = <<"maxPoolSize">>, q = [o EXCEPT !.maxPoolSize = <<value>>]
      PROVE  Effects(o, key, value, q)
  BY <1>1, <1>8 DEF Effects, Fields
<1>9. ASSUME key = <<"w">>, q = [o EXCEPT !.w = <<value>>]
      PROVE  Effects(o, key, value, q)
  BY <1>1, <1>9 DEF Effects, Fields
<1>10. ASSUME key = <<"compressors">>, q = [o EXCEPT !.compressors = Uri!Supported(Uri!Split(value, ","))]
      PROVE  Effects(o, key, value, q)
  BY <1>1, <1>10 DEF Effects, Fields
<1>11. ASSUME key = <<"readPreferenceTags">>, q = [o EXCEPT !.tags = added]
      PROVE  Effects(o, key, value, q)
  BY <1>1, <1>11 DEF Effects, Fields
<1>12. ASSUME key = <<"initialTopologyType">>, q = [o EXCEPT !.topology = <<value>>]
      PROVE  Effects(o, key, value, q)
  BY <1>1, <1>12 DEF Effects, Fields
<1> QED
  BY <1>2, <1>3, <1>4, <1>5, <1>6, <1>7, <1>8, <1>9, <1>10, <1>11, <1>12 DEF Applied

\* An option that is accepted is as meant.
LEMMA MeantNext ==
  ASSUME NEW u, NEW n \in Nat, NEW o, NEW q, Shaped(o), MeantIn(o, u, n),
         Applied(o, u.options[n + 1].key, u.options[n + 1].value, q)
  PROVE  Shaped(q) /\ MeantIn(q, u, n + 1)
<1> DEFINE key == u.options[n + 1].key
           value == u.options[n + 1].value
           added == Append(o.tags, Uri!Split(value, ","))
<1>1. PICK S : o.tags \in Seq(S)
  BY DEF Shaped
<1>2. \A k, e : ValueIn(u, k, n + 1, e) = IF key = <<k>> THEN <<value>> ELSE ValueIn(u, k, n, e)
  BY ValueNext
<1>4. /\ key = <<"readPreferenceTags">> => CollectedIn(added, u, n + 1) /\ \E T : added \in Seq(T)
      /\ key # <<"readPreferenceTags">> => CollectedIn(o.tags, u, n + 1)
  <2>1. CollectedIn(o.tags, u, n)
    BY DEF MeantIn
  <2> QED BY <1>1, <2>1, CollectedNext
<1>6. \A v : JournalOf(<<v>>) = <<v = Uri!True>> /\ CompressorsOf(<<v>>) = Uri!Supported(Uri!Split(v, ","))
  BY DEF JournalOf, CompressorsOf
<1>7. Effects(o, key, value, q)
  BY AppliedEffects DEF Shaped
<1> HIDE DEF key, value
<1>8. /\ q.hosts = u.hosts /\ q.username = Uri!Nth(u.user, 1) /\ q.password = Uri!Nth(u.user, 2)
  BY <1>7 DEF Effects, MeantIn
<1>9. /\ q.source = ValueIn(u, "authSource", n + 1, PathSource(u))
      /\ q.appname = ValueIn(u, "appname", n + 1, <<>>)
      /\ q.maxPoolSize = ValueIn(u, "maxPoolSize", n + 1, <<>>)
      /\ q.w = ValueIn(u, "w", n + 1, <<>>)
      /\ q.topology = ValueIn(u, "initialTopologyType", n + 1, <<>>)
  BY <1>2, <1>7 DEF Effects, MeantIn
<1>10. q.journal = JournalOf(ValueIn(u, "journal", n + 1, <<>>))
  <2>1. /\ q.journal = IF key = <<"journal">> THEN <<value = Uri!True>> ELSE o.journal
        /\ o.journal = JournalOf(ValueIn(u, "journal", n, <<>>))
    BY <1>7 DEF Effects, MeantIn
  <2>2. ValueIn(u, "journal", n + 1, <<>>) = IF key = <<"journal">> THEN <<value>> ELSE ValueIn(u, "journal", n, <<>>)
    BY <1>2
  <2> QED BY <1>6, <2>1, <2>2
<1>11. q.compressors = CompressorsOf(ValueIn(u, "compressors", n + 1, <<>>))
  <2>1. /\ q.compressors = IF key = <<"compressors">> THEN Uri!Supported(Uri!Split(value, ",")) ELSE o.compressors
        /\ o.compressors = CompressorsOf(ValueIn(u, "compressors", n, <<>>))
    BY <1>7 DEF Effects, MeantIn
  <2>2. ValueIn(u, "compressors", n + 1, <<>>) = IF key = <<"compressors">> THEN <<value>> ELSE ValueIn(u, "compressors", n, <<>>)
    BY <1>2
  <2> QED BY <1>6, <2>1, <2>2
<1>12. q.retryWrites <=> ValueIn(u, "retryWrites", n + 1, <<Uri!True>>) = <<Uri!True>>
  <2>1. /\ q.retryWrites <=> IF key = <<"retryWrites">> THEN value = Uri!True ELSE o.retryWrites
        /\ o.retryWrites <=> ValueIn(u, "retryWrites", n, <<Uri!True>>) = <<Uri!True>>
    BY <1>7 DEF Effects, MeantIn
  <2>2. ValueIn(u, "retryWrites", n + 1, <<Uri!True>>) =
          IF key = <<"retryWrites">> THEN <<value>> ELSE ValueIn(u, "retryWrites", n, <<Uri!True>>)
    BY <1>2
  <2>3. <<value>> = <<Uri!True>> <=> value = Uri!True
    OBVIOUS
  <2> QED BY <2>1, <2>2, <2>3
<1>14. CollectedIn(q.tags, u, n + 1) /\ \E T : q.tags \in Seq(T)
  BY <1>1, <1>4, <1>7 DEF Effects
<1>15. Shaped(q)
  BY <1>7, <1>14 DEF Effects, Shaped
<1> QED
  BY <1>8, <1>9, <1>10, <1>11, <1>12, <1>14, <1>15 DEF MeantIn

Plain(u) == u.path = "asked" => \A i \in DOMAIN u.options : Uri!Lacks(u.options[i].value, {"@"})

\* What is behind the credentials, and what is behind the hosts.
HostsText(u) == Uri!Join(u.hosts, ",") \o Uri!PathText(u)

SourceText(u) ==
  u.source \o IF u.path = "asked" THEN <<"?">> \o Uri!Join(Uri!OptionTexts(u), "&") ELSE <<>>

\* Texts without a mark, joined, are without it.
LEMMA WithoutBoth ==
  ASSUME NEW a \in Texts, NEW b \in Texts, NEW k, Without(a, k), Without(b, k)
  PROVE  a \o b \in Texts /\ Without(a \o b, k)
<1> DEFINE t == a \o b
<1>1. /\ t \in Texts /\ Len(t) = Len(a) + Len(b)
      /\ \A i \in 1 .. Len(a) + Len(b) : t[i] = IF i <= Len(a) THEN a[i] ELSE b[i - Len(a)]
  BY ConcatProperties DEF Texts
<1>2. Len(a) \in Nat /\ Len(b) \in Nat
  BY DEF Texts
<1> HIDE DEF t
<1>3. ASSUME NEW i \in 1 .. Len(t) PROVE t[i] # k
  <2>1. CASE i <= Len(a)
    <3>1. i \in 1 .. Len(a) /\ i \in 1 .. Len(a) + Len(b)
      BY <1>1, <1>2, <2>1
    <3> QED BY <1>1, <2>1, <3>1 DEF Without
  <2>2. CASE ~(i <= Len(a))
    <3>1. i - Len(a) \in 1 .. Len(b) /\ i \in 1 .. Len(a) + Len(b)
      BY <1>1, <1>2, <2>2
    <3> QED BY <1>1, <2>2, <3>1 DEF Without
  <2> QED BY <2>1, <2>2
<1> QED BY <1>1, <1>3 DEF t, Without

\* A mark is a text, and no other mark is in it.
LEMMA OneMark ==
  ASSUME NEW m \in Words
  PROVE  <<m>> \in Texts /\ <<>> \in Texts /\ (\A k : k # m => Without(<<m>>, k)) /\ \A k : Without(<<>>, k)
BY EmptySeq DEF Texts, Without

LEMMA Marks ==
  /\ ":" \in Words /\ "@" \in Words /\ "," \in Words /\ "/" \in Words
  /\ "?" \in Words /\ "&" \in Words /\ "=" \in Words
BY DEF Words

\* What the assumption on the parts says about their texts.
LEMMA LacksMarks ==
  ASSUME NEW t, NEW M, Uri!Lacks(t, M)
  PROVE  t \in Texts /\ \A m \in M : Without(t, m)
<1>1. t \in Texts
  <2>1. t \in Seq(STRING) /\ STRING \subseteq Words
    BY DEF Uri!Lacks, Words
  <2> QED BY <2>1, SeqMonotonic DEF Texts
<1>2. DOMAIN t = 1 .. Len(t)
  BY <1>1 DEF Texts
<1> QED BY <1>1, <1>2 DEF Uri!Lacks, Without

\* What the assumption says of the parts.
LEMMA Parts ==
  ASSUME NEW u \in Uris
  PROVE  /\ u.user \in Seq(Texts)
         /\ \A i \in 1 .. Len(u.user) : Without(u.user[i], ":") /\ Without(u.user[i], "@")
         /\ u.hosts \in Seq(Texts) /\ Len(u.hosts) >= 1
         /\ \A i \in 1 .. Len(u.hosts) :
              Without(u.hosts[i], ",") /\ Without(u.hosts[i], "/") /\ Without(u.hosts[i], "@")
         /\ u.path \in {"absent", "bare", "asked"}
         /\ u.source \in Texts /\ Without(u.source, "?") /\ Without(u.source, "@")
         /\ Len(u.options) \in Nat /\ DOMAIN u.options = 1 .. Len(u.options)
         /\ \A i \in 1 .. Len(u.options) :
              /\ u.options[i].key \in Texts /\ u.options[i].value \in Texts
              /\ Without(u.options[i].key, "=") /\ Without(u.options[i].key, "&")
              /\ Without(u.options[i].key, "@") /\ Without(u.options[i].value, "&")
              /\ Plain(u) /\ u.path = "asked" => Without(u.options[i].value, "@")
<1>1. /\ u.user \in Seq(Seq(STRING)) /\ u.hosts \in Seq(Seq(STRING)) /\ u.hosts # <<>>
      /\ \A i \in DOMAIN u.user : Uri!Lacks(u.user[i], {":", "@"})
      /\ \A i \in DOMAIN u.hosts : Uri!Lacks(u.hosts[i], {",", "/", "@"})
      /\ u.path \in {"absent", "bare", "asked"} /\ Uri!Lacks(u.source, {"?", "@"})
      /\ DOMAIN u.options = 1 .. Len(u.options) /\ Len(u.options) \in Nat
  BY CallsAssumption DEF CallsAssumption, Uri!ClientOptionsAssumption
<1>2. ASSUME NEW i \in DOMAIN u.options
      PROVE  Uri!Lacks(u.options[i].key, {"=", "&", "@"}) /\ Uri!Lacks(u.options[i].value, {"&"})
  BY CallsAssumption DEF CallsAssumption, Uri!ClientOptionsAssumption
<1>3. /\ u.user \in Seq(Texts) /\ DOMAIN u.user = 1 .. Len(u.user)
      /\ u.hosts \in Seq(Texts) /\ DOMAIN u.hosts = 1 .. Len(u.hosts) /\ Len(u.hosts) >= 1
  <2> DEFINE S == Seq(STRING)
  <2>1. u.user \in Seq(S) /\ u.hosts \in Seq(S)
    BY <1>1
  <2> HIDE DEF S
  <2>2. /\ DOMAIN u.user = 1 .. Len(u.user)
        /\ DOMAIN u.hosts = 1 .. Len(u.hosts) /\ Len(u.hosts) \in Nat \ {0}
    <3>1. u.hosts # <<>>
      BY <1>1
    <3> QED BY <2>1, <3>1, LenProperties, EmptySeq
  <2>3. S \subseteq Texts
    <3>1. ASSUME NEW t \in S PROVE t \in Texts
      <4>1. t \in Seq(STRING) /\ STRING \subseteq Words
        BY <3>1 DEF S, Words
      <4> QED BY <4>1, SeqMonotonic DEF Texts
    <3> QED BY <3>1
  <2>4. u.user \in Seq(Texts) /\ u.hosts \in Seq(Texts)
    BY <2>1, <2>3, SeqMonotonic
  <2>5. Len(u.hosts) >= 1
    BY <2>2
  <2> QED BY <2>2, <2>4, <2>5
<1>4. ASSUME NEW i \in 1 .. Len(u.user) PROVE Without(u.user[i], ":") /\ Without(u.user[i], "@")
  <2>1. Uri!Lacks(u.user[i], {":", "@"})
    BY <1>1, <1>3
  <2> QED BY <2>1, LacksMarks
<1>5. ASSUME NEW i \in 1 .. Len(u.hosts)
      PROVE  Without(u.hosts[i], ",") /\ Without(u.hosts[i], "/") /\ Without(u.hosts[i], "@")
  <2>1. Uri!Lacks(u.hosts[i], {",", "/", "@"})
    BY <1>1, <1>3
  <2> QED BY <2>1, LacksMarks
<1>6. u.source \in Texts /\ Without(u.source, "?") /\ Without(u.source, "@")
  BY <1>1, LacksMarks
<1>7. ASSUME NEW i \in 1 .. Len(u.options)
      PROVE  /\ u.options[i].key \in Texts /\ u.options[i].value \in Texts
             /\ Without(u.options[i].key, "=") /\ Without(u.options[i].key, "&")
             /\ Without(u.options[i].key, "@") /\ Without(u.options[i].value, "&")
             /\ Plain(u) /\ u.path = "asked" => Without(u.options[i].value, "@")
  <2>1. i \in DOMAIN u.options
    BY <1>1
  <2>2. /\ u.options[i].key \in Texts /\ u.options[i].value \in Texts
        /\ Without(u.options[i].key, "=") /\ Without(u.options[i].key, "&")
        /\ Without(u.options[i].key, "@") /\ Without(u.options[i].value, "&")
    BY <1>2, <2>1, LacksMarks
  <2>3. Plain(u) /\ u.path = "asked" => Without(u.options[i].value, "@")
    BY <2>1, LacksMarks DEF Plain
  <2> QED BY <2>2, <2>3
<1> QED BY <1>1, <1>3, <1>4, <1>5, <1>6, <1>7

\* The texts of the options, which no '&' is in.
LEMMA Options ==
  ASSUME NEW u \in Uris
  PROVE  LET T == Uri!OptionTexts(u)
         IN  /\ T \in Seq(Texts) /\ Len(T) = Len(u.options)
             /\ \A i \in 1 .. Len(T) : T[i] = Uri!OptionText(u.options[i]) /\ Without(T[i], "&")
             /\ Plain(u) /\ u.path = "asked" => \A i \in 1 .. Len(T) : Without(T[i], "@")
<1> DEFINE T == Uri!OptionTexts(u)
           L == Len(u.options)
<1>1. L \in Nat /\ DOMAIN u.options = 1 .. L
  BY Parts
<1>2. ASSUME NEW i \in 1 .. L
      PROVE  LET t == Uri!OptionText(u.options[i])
             IN  /\ t \in Texts /\ Without(t, "&")
                 /\ Plain(u) /\ u.path = "asked" => Without(t, "@")
  <2> DEFINE o == u.options[i]
             t == Uri!OptionText(o)
             v == <<"=">> \o o.value
  <2>1. /\ o.key \in Texts /\ o.value \in Texts
        /\ Without(o.key, "&") /\ Without(o.key, "@") /\ Without(o.value, "&")
        /\ Plain(u) /\ u.path = "asked" => Without(o.value, "@")
    BY Parts
  <2>2. /\ <<"=">> \in Texts /\ Without(<<"=">>, "&") /\ Without(<<"=">>, "@")
        /\ <<>> \in Texts /\ Without(<<>>, "&") /\ Without(<<>>, "@")
    BY Marks, OneMark
  <2>3. t = IF o.assigned THEN o.key \o v ELSE o.key \o <<>>
    BY DEF Uri!OptionText
  <2> HIDE DEF o, t
  <2>4. v \in Texts /\ Without(v, "&") /\ (Plain(u) /\ u.path = "asked" => Without(v, "@"))
    BY <2>1, <2>2, WithoutBoth
  <2> HIDE DEF v
  <2>5. o.key \o v \in Texts /\ Without(o.key \o v, "&") /\
        (Plain(u) /\ u.path = "asked" => Without(o.key \o v, "@"))
    BY <2>1, <2>4, WithoutBoth
  <2>6. o.key \o <<>> \in Texts /\ Without(o.key \o <<>>, "&") /\ Without(o.key \o <<>>, "@")
    BY <2>1, <2>2, WithoutBoth
  <2> QED BY <2>3, <2>5, <2>6 DEF t, o
<1>3. T = [i \in 1 .. L |-> Uri!OptionText(u.options[i])]
  BY <1>1 DEF Uri!OptionTexts
<1> HIDE DEF L, T
<1>4. T \in Seq(Texts) /\ Len(T) = L /\ \A i \in 1 .. L : T[i] = Uri!OptionText(u.options[i])
  BY <1>1, <1>2, <1>3
<1> QED BY <1>2, <1>4 DEF T, L

\* The texts of a connection string, from behind the credentials on.
LEMMA TextFacts ==
  ASSUME NEW u \in Uris
  PROVE  LET H == Uri!Join(u.hosts, ",")
         IN  /\ H \in Texts /\ Without(H, "/") /\ Without(H, "@") /\ Uri!Split(H, ",") = u.hosts
             /\ Uri!PathText(u) \in Texts
             /\ SourceText(u) \in Texts /\ HostsText(u) \in Texts
             /\ u.path = "absent" => HostsText(u) = H
             /\ u.path # "absent" => HostsText(u) = H \o <<"/">> \o SourceText(u)
             /\ Plain(u) => Without(HostsText(u), "@")
<1> DEFINE H == Uri!Join(u.hosts, ",")
           T == Uri!OptionTexts(u)
           J == Uri!Join(T, "&")
           Asked == IF u.path = "asked" THEN <<"?">> \o J ELSE <<>>
           R == u.source \o Asked
           P == Uri!PathText(u)
<1>1. H \in Texts /\ Without(H, "/") /\ Without(H, "@") /\ Uri!Split(H, ",") = u.hosts
  <2> DEFINE p == u.hosts
             L == Len(p)
  <2>1. /\ p \in Seq(Texts) /\ Len(p) >= 1
        /\ \A i \in 1 .. Len(p) : Without(p[i], ",") /\ Without(p[i], "/") /\ Without(p[i], "@")
    BY Parts
  <2> HIDE DEF p
  <2>2. L \in Nat /\ L \in 0 .. L
    <3>1. L \in Nat
      BY <2>1, LenProperties
    <3> HIDE DEF L
    <3> QED BY <3>1
  <2>3. H = Uri!Joined(p, ",")[L] /\ H = Uri!Join(p, ",")
    BY DEF Uri!Join, p
  <2> HIDE DEF H, L
  <2>4. H \in Texts
    <3>1. Uri!Joined(p, ",") \in [0 .. L -> Texts]
      BY <2>1, Marks, JoinedFacts DEF L
    <3> QED BY <2>2, <2>3, <3>1
  <2>5. Without(H, "/")
    <3>1. \A n \in 0 .. L : Without(Uri!Joined(p, ",")[n], "/")
      BY <2>1, Marks, JoinedWithout DEF L
    <3> QED BY <2>2, <2>3, <3>1
  <2>6. Without(H, "@")
    <3>1. \A n \in 0 .. L : Without(Uri!Joined(p, ",")[n], "@")
      BY <2>1, Marks, JoinedWithout DEF L
    <3> QED BY <2>2, <2>3, <3>1
  <2>7. Uri!Split(H, ",") = p
    <3>1. Uri!Split(Uri!Join(p, ","), ",") = p
      BY <2>1, Marks, SplitJoined
    <3> QED BY <2>3, <3>1
  <2> QED BY <2>4, <2>5, <2>6, <2>7 DEF p
<1>2. J \in Texts /\ (Plain(u) /\ u.path = "asked" => Without(J, "@"))
  <2> DEFINE L == Len(T)
  <2>1. T \in Seq(Texts) /\ (Plain(u) /\ u.path = "asked" => \A i \in 1 .. Len(T) : Without(T[i], "@"))
    BY Options
  <2> HIDE DEF T
  <2>2. L \in Nat /\ L \in 0 .. L
    <3>1. L \in Nat
      BY <2>1, LenProperties
    <3> HIDE DEF L
    <3> QED BY <3>1
  <2>3. J = Uri!Joined(T, "&")[L]
    BY DEF Uri!Join
  <2> HIDE DEF J, L
  <2>4. J \in Texts
    <3>1. Uri!Joined(T, "&") \in [0 .. L -> Texts]
      BY <2>1, Marks, JoinedFacts DEF L
    <3> QED BY <2>2, <2>3, <3>1
  <2>5. ASSUME Plain(u), u.path = "asked" PROVE Without(J, "@")
    <3>1. \A n \in 0 .. L : Without(Uri!Joined(T, "&")[n], "@")
      BY <2>1, <2>5, Marks, JoinedWithout DEF L
    <3> QED BY <2>2, <2>3, <3>1
  <2> QED BY <2>4, <2>5
<1>3. /\ u.source \in Texts /\ Without(u.source, "@")
      /\ u.path \in {"absent", "bare", "asked"}
  BY Parts
<1>4. /\ <<"/">> \in Texts /\ Without(<<"/">>, "@") /\ <<"?">> \in Texts /\ Without(<<"?">>, "@")
      /\ <<>> \in Texts /\ Without(<<>>, "@")
  BY Marks, OneMark
<1> HIDE DEF H, J
<1>5. Asked \in Texts /\ (Plain(u) => Without(Asked, "@"))
  <2>1. <<"?">> \o J \in Texts /\ (Plain(u) /\ u.path = "asked" => Without(<<"?">> \o J, "@"))
    <3>1. <<"?">> \o J \in Texts
      BY <1>2, <1>4, ConcatProperties DEF Texts
    <3> QED BY <1>2, <1>4, <3>1, WithoutBoth
  <2> QED BY <1>4, <2>1
<1>6. R \in Texts /\ (Plain(u) => Without(R, "@"))
  <2> HIDE DEF Asked
  <2>1. R \in Texts
    BY <1>3, <1>5, ConcatProperties DEF Texts
  <2> QED BY <1>3, <1>5, <2>1, WithoutBoth
<1>7. P = IF u.path = "absent" THEN <<>> ELSE <<"/">> \o R
  <2> HIDE DEF Asked
  <2>1. (<<"/">> \o u.source) \o Asked = <<"/">> \o (u.source \o Asked)
    BY <1>3, <1>4, <1>5, TextsAssociate
  <2>2. P = IF u.path = "absent" THEN <<>> ELSE (<<"/">> \o u.source) \o Asked
    BY DEF Uri!PathText, J, Asked
  <2> QED BY <2>1, <2>2
<1>8. R = SourceText(u) /\ HostsText(u) = H \o P
  BY DEF SourceText, HostsText, H, J
<1> HIDE DEF R, P
<1>9. /\ <<"/">> \o R \in Texts /\ (Plain(u) => Without(<<"/">> \o R, "@"))
  <2>1. <<"/">> \o R \in Texts
    BY <1>4, <1>6, ConcatProperties DEF Texts
  <2> QED BY <1>4, <1>6, <2>1, WithoutBoth
<1>10. P \in Texts /\ (Plain(u) => Without(P, "@"))
  BY <1>4, <1>7, <1>9
<1>11. H \o P \in Texts /\ (Plain(u) => Without(H \o P, "@"))
  <2>1. H \o P \in Texts
    BY <1>1, <1>10, ConcatProperties DEF Texts
  <2> QED BY <1>1, <1>10, <2>1, WithoutBoth
<1>12. ASSUME u.path = "absent" PROVE H \o P = H
  <2>1. P = <<>> /\ H \in Seq(Words)
    BY <1>1, <1>7, <1>12 DEF Texts
  <2> QED BY <2>1, ConcatEmptySeq
<1>13. ASSUME u.path # "absent" PROVE H \o P = H \o <<"/">> \o R
  <2>1. P = <<"/">> \o R
    BY <1>7, <1>13
  <2> QED BY <1>1, <1>4, <1>6, <2>1, TextsAssociate
<1> QED BY <1>1, <1>6, <1>8, <1>10, <1>11, <1>12, <1>13 DEF H, P

\* What the text of the credentials is and is cut into.
LEMMA UserFacts ==
  ASSUME NEW u \in Uris
  PROVE  LET U == Uri!Join(u.user, ":")
         IN  /\ u.user = <<>> => Uri!Text(u) = HostsText(u)
             /\ u.user # <<>> =>
                  /\ U \in Texts /\ Without(U, "@") /\ Uri!Split(U, ":") = u.user
                  /\ Uri!Text(u) = U \o <<"@">> \o HostsText(u)
<1> DEFINE H == Uri!Join(u.hosts, ",")
           P == Uri!PathText(u)
           p == u.user
           L == Len(p)
           U == Uri!Join(p, ":")
<1>1. HostsText(u) \in Texts /\ H \in Texts /\ P \in Texts /\ HostsText(u) = H \o P
  BY TextFacts DEF HostsText
<1>2. p \in Seq(Texts) /\ \A i \in 1 .. Len(p) : Without(p[i], ":") /\ Without(p[i], "@")
  BY Parts
<1>3. Uri!Text(u) = ((IF u.user = <<>> THEN <<>> ELSE U \o <<"@">>) \o H) \o P
  BY DEF Uri!Text
<1> HIDE DEF H, P, U
<1>4. ASSUME u.user = <<>> PROVE Uri!Text(u) = HostsText(u)
  <2>1. <<>> \o H = H
    BY <1>1, ConcatEmptySeq DEF Texts
  <2> QED BY <1>1, <1>3, <1>4, <2>1
<1>5. ASSUME u.user # <<>>
      PROVE  /\ U \in Texts /\ Without(U, "@") /\ Uri!Split(U, ":") = u.user
             /\ Uri!Text(u) = U \o <<"@">> \o HostsText(u)
  <2>1. L \in Nat /\ L >= 1 /\ L \in 0 .. L
    <3>1. L \in Nat \ {0}
      BY <1>2, <1>5, EmptySeq
    <3> HIDE DEF L
    <3> QED BY <3>1
  <2> HIDE DEF p
  <2>2. U = Uri!Joined(p, ":")[L] /\ U = Uri!Join(p, ":")
    BY DEF Uri!Join, U, p
  <2> HIDE DEF L
  <2>3. U \in Texts
    <3>1. Uri!Joined(p, ":") \in [0 .. L -> Texts]
      BY <1>2, Marks, JoinedFacts DEF L
    <3> QED BY <2>1, <2>2, <3>1
  <2>4. Without(U, "@")
    <3>1. \A n \in 0 .. L : Without(Uri!Joined(p, ":")[n], "@")
      BY <1>2, Marks, JoinedWithout DEF L
    <3> QED BY <2>1, <2>2, <3>1
  <2>5. Uri!Split(U, ":") = p
    <3>1. Uri!Split(Uri!Join(p, ":"), ":") = p
      BY <1>2, <2>1, Marks, SplitJoined DEF L
    <3> QED BY <2>2, <3>1
  <2>6. Uri!Text(u) = U \o <<"@">> \o HostsText(u)
    <3> DEFINE c == U \o <<"@">>
    <3>1. <<"@">> \in Texts
      BY Marks, OneMark
    <3>2. c \in Texts
      BY <2>3, <3>1, ConcatProperties DEF Texts
    <3>3. Uri!Text(u) = (c \o H) \o P
      BY <1>3, <1>5
    <3> HIDE DEF c
    <3>4. (c \o H) \o P = c \o (H \o P)
      BY <1>1, <3>2, TextsAssociate
    <3> QED BY <1>1, <3>3, <3>4 DEF c
  <2> QED BY <2>3, <2>4, <2>5, <2>6 DEF p
<1> QED BY <1>4, <1>5 DEF U

\* The options before the first option of the string.
Begun(u, hosts, source) ==
  [username |-> Uri!Nth(u.user, 1), password |-> Uri!Nth(u.user, 2), hosts |-> hosts,
   source |-> source, appname |-> <<>>, maxPoolSize |-> <<>>, retryWrites |-> TRUE, w |-> <<>>,
   journal |-> <<>>, tags |-> <<>>, compressors |-> <<>>, tls |-> FALSE, insecure |-> FALSE,
   topology |-> <<>>]

\* Without options, the stages before them leave what is meant.
LEMMA BegunMeant ==
  ASSUME NEW u
  PROVE  Shaped(Begun(u, u.hosts, PathSource(u))) /\ MeantIn(Begun(u, u.hosts, PathSource(u)), u, 0)
<1> DEFINE p == Begun(u, u.hosts, PathSource(u))
<1>1. /\ DOMAIN p = Fields
      /\ p.hosts = u.hosts /\ p.username = Uri!Nth(u.user, 1) /\ p.password = Uri!Nth(u.user, 2)
      /\ p.source = PathSource(u)
      /\ p.appname = <<>> /\ p.maxPoolSize = <<>> /\ p.w = <<>> /\ p.topology = <<>>
      /\ p.journal = <<>> /\ p.compressors = <<>> /\ p.tags = <<>>
      /\ p.retryWrites = TRUE
  BY DEF Begun, Fields
<1> HIDE DEF p
<1>2. \A K : GivenIn(u, K, 0) = {}
  BY DEF GivenIn
<1>3. \A k, e : ValueIn(u, k, 0, e) = e
  BY <1>2 DEF ValueIn
<1>5. CollectedIn(p.tags, u, 0)
  <2>1. DOMAIN p.tags = {}
    BY <1>1
  <2>2. [i \in {} |-> i] \in [{} -> {}]
    OBVIOUS
  <2> QED BY <1>2, <2>1, <2>2 DEF CollectedIn
<1>6. JournalOf(<<>>) = <<>> /\ CompressorsOf(<<>>) = <<>>
  BY DEF JournalOf, CompressorsOf
<1>7. p.tags \in Seq({})
  BY <1>1, EmptySeq
<1>8. Shaped(p)
  BY <1>1, <1>7 DEF Shaped
<1>9. MeantIn(p, u, 0)
  BY <1>1, <1>2, <1>3, <1>5, <1>6 DEF MeantIn
<1> QED BY <1>8, <1>9 DEF p

\* What is left of the string, and what it has said so far.
Stage(u, a, r, p, res) ==
  \/ /\ a = "credentials" /\ res = "none"
     /\ r = Uri!Text(u) /\ p = Uri!Default
  \/ /\ a = "hosts" /\ res = "none"
     /\ r = HostsText(u) /\ p = Begun(u, <<>>, <<>>)
  \/ /\ a = "source" /\ res = "none" /\ u.path # "absent"
     /\ r = SourceText(u) /\ p = Begun(u, u.hosts, <<>>)
  \/ /\ a = "options" /\ res = "none" /\ u.path = "asked"
     /\ Shaped(p)
     /\ \E n \in 0 .. Len(u.options) :
          /\ r = Uri!Joined(Uri!OptionTexts(u), "&")[Len(u.options) - n]
          /\ MeantIn(p, u, n)
  \/ /\ a = "done"
     /\ res = "ok" => MeantIn(p, u, IF u.path = "asked" THEN Len(u.options) ELSE 0)

UriInv == uri \in Uris /\ (Plain(uri) => Stage(uri, at, rest, parsed, result))

\* Each step of from_str leads to the next stage.
LEMMA CredentialsKeep ==
  ASSUME uri \in Uris, Plain(uri), Stage(uri, at, rest, parsed, result), Uri!Credentials
  PROVE  Stage(uri, at', rest', parsed', result')
<1> DEFINE u == uri
           i == Uri!Find(rest, "@")
<1>1. /\ rest = Uri!Text(u) /\ parsed = Uri!Default /\ result = "none"
      /\ at' = "hosts" /\ result' = "none"
  BY DEF Uri!Credentials, Uri!Go, Stage
<1>2. /\ i > Len(rest) => rest' = rest /\ parsed' = parsed
      /\ ~(i > Len(rest)) =>
           /\ rest' = Uri!Behind(rest, i)
           /\ parsed' = [parsed EXCEPT !.username = Uri!Nth(Uri!Split(Uri!Before(rest, i), ":"), 1),
                                       !.password = Uri!Nth(Uri!Split(Uri!Before(rest, i), ":"), 2)]
  BY DEF Uri!Credentials
<1>3. HostsText(u) \in Texts /\ Without(HostsText(u), "@")
  BY TextFacts
<1>4. CASE u.user = <<>>
  <2>1. rest = HostsText(u)
    BY <1>1, <1>4, UserFacts
  <2>2. i > Len(rest)
    BY <1>3, <2>1, NoMark
  <2>3. Uri!Nth(u.user, 1) = <<>> /\ Uri!Nth(u.user, 2) = <<>>
    BY <1>4 DEF Uri!Nth
  <2>4. parsed = Begun(u, <<>>, <<>>)
    BY <1>1, <2>3 DEF Uri!Default, Begun
  <2> QED BY <1>1, <1>2, <2>1, <2>2, <2>4 DEF Stage
<1>5. CASE u.user # <<>>
  <2> DEFINE U == Uri!Join(u.user, ":")
             H == HostsText(u)
  <2>1. /\ U \in Texts /\ Without(U, "@") /\ Uri!Split(U, ":") = u.user
        /\ rest = U \o <<"@">> \o H
    BY <1>1, <1>5, UserFacts
  <2> HIDE DEF U
  <2>2. ~(i > Len(rest)) /\ Uri!Before(rest, i) = U /\ Uri!Behind(rest, i) = H
    <3>1. H \in Texts /\ "@" \in Words
      BY <1>3, Marks
    <3> HIDE DEF H
    <3>2. Parted(rest, U, "@", H)
      BY <2>1, <3>1 DEF Parted
    <3> QED BY <3>2, FirstMark
  <2>3. rest' = HostsText(u)
    BY <1>2, <2>2
  <2>4. parsed' = [Uri!Default EXCEPT !.username = Uri!Nth(u.user, 1), !.password = Uri!Nth(u.user, 2)]
    BY <1>1, <1>2, <2>1, <2>2
  <2>5. parsed' = Begun(u, <<>>, <<>>)
    BY <2>4 DEF Uri!Default, Begun
  <2> QED BY <1>1, <2>3, <2>5 DEF Stage
<1> QED BY <1>4, <1>5

LEMMA HostsKeep ==
  ASSUME uri \in Uris, Stage(uri, at, rest, parsed, result), Uri!Hosts
  PROVE  Stage(uri, at', rest', parsed', result')
<1> DEFINE u == uri
           i == Uri!Find(rest, "/")
           H == Uri!Join(u.hosts, ",")
<1>1. /\ rest = HostsText(u) /\ parsed = Begun(u, <<>>, <<>>) /\ result = "none"
      /\ parsed' = [parsed EXCEPT !.hosts = Uri!Split(Uri!Before(rest, i), ",")]
      /\ i > Len(rest) => at' = "done"
      /\ ~(i > Len(rest)) => at' = "source" /\ result' = "none" /\ rest' = Uri!Behind(rest, i)
  BY DEF Uri!Hosts, Uri!Stop, Uri!Go, Stage
<1>2. /\ H \in Texts /\ Without(H, "/") /\ Uri!Split(H, ",") = u.hosts
      /\ SourceText(u) \in Texts
      /\ u.path = "absent" => HostsText(u) = H
      /\ u.path # "absent" => HostsText(u) = H \o <<"/">> \o SourceText(u)
  BY TextFacts
<1> HIDE DEF H
<1>3. Uri!Before(rest, i) = H => parsed' = Begun(u, u.hosts, <<>>)
  <2>1. Uri!Before(rest, i) = H => parsed' = [Begun(u, <<>>, <<>>) EXCEPT !.hosts = u.hosts]
    BY <1>1, <1>2
  <2> QED BY <2>1 DEF Begun
<1>4. CASE u.path = "absent"
  <2>1. rest = H
    BY <1>1, <1>2, <1>4
  <2>2. i > Len(rest) /\ Uri!Before(rest, i) = H
    BY <1>2, <2>1, NoMark
  <2>3. PathSource(u) = <<>>
    BY <1>4 DEF PathSource
  <2>4. MeantIn(parsed', u, 0)
    BY <1>3, <2>2, <2>3, BegunMeant
  <2> QED BY <1>1, <1>4, <2>2, <2>4 DEF Stage
<1>5. CASE u.path # "absent"
  <2> DEFINE S == SourceText(u)
  <2>1. ~(i > Len(rest)) /\ Uri!Before(rest, i) = H /\ Uri!Behind(rest, i) = S
    <3>1. rest = H \o <<"/">> \o S /\ S \in Texts /\ "/" \in Words
      BY <1>1, <1>2, <1>5, Marks
    <3> HIDE DEF S
    <3>2. Parted(rest, H, "/", S)
      BY <1>2, <3>1 DEF Parted
    <3> QED BY <3>2, FirstMark
  <2> QED BY <1>1, <1>3, <1>5, <2>1 DEF Stage
<1> QED BY <1>4, <1>5

LEMMA SourceKeep ==
  ASSUME uri \in Uris, Stage(uri, at, rest, parsed, result), Uri!Source
  PROVE  Stage(uri, at', rest', parsed', result')
<1> DEFINE u == uri
           i == Uri!Find(rest, "?")
           T == Uri!OptionTexts(u)
           J == Uri!Join(T, "&")
<1>1. /\ rest = SourceText(u) /\ parsed = Begun(u, u.hosts, <<>>) /\ u.path # "absent"
      /\ parsed' = [parsed EXCEPT !.source = <<Uri!Before(rest, i)>>]
      /\ result = "none"
      /\ i > Len(rest) => at' = "done" /\ result' = "panic"
      /\ ~(i > Len(rest)) => at' = "options" /\ result' = "none" /\ rest' = Uri!Behind(rest, i)
  BY DEF Uri!Source, Uri!Stop, Uri!Go, Stage
<1>2. u.source \in Texts /\ Without(u.source, "?")
  BY Parts
<1>3. CASE u.path # "asked"
  <2>1. rest = u.source
    <3>1. u.source \o <<>> = u.source
      BY <1>2, ConcatEmptySeq DEF Texts
    <3> QED BY <1>1, <1>3, <3>1 DEF SourceText
  <2>2. i > Len(rest)
    BY <1>2, <2>1, NoMark
  <2> QED BY <1>1, <2>2 DEF Stage
<1>4. CASE u.path = "asked"
  <2>1. T \in Seq(Texts) /\ Len(T) = Len(u.options) /\ Len(u.options) \in Nat
    BY Parts, Options
  <2> HIDE DEF T
  <2>2. J \in Texts /\ J = Uri!Joined(T, "&")[Len(u.options) - 0]
    <3>1. Uri!Joined(T, "&") \in [0 .. Len(T) -> Texts]
      BY <2>1, Marks, JoinedFacts
    <3>2. Len(T) \in 0 .. Len(T) /\ Len(u.options) - 0 = Len(T)
      BY <2>1
    <3> QED BY <3>1, <3>2 DEF Uri!Join
  <2> DEFINE s == u.source
  <2>3. rest = s \o <<"?">> \o J
    <3>1. <<"?">> \in Texts
      BY Marks, OneMark
    <3>2. rest = u.source \o (<<"?">> \o J)
      BY <1>1, <1>4 DEF SourceText, T
    <3> HIDE DEF J
    <3> QED BY <1>2, <2>2, <3>1, <3>2, TextsAssociate
  <2> HIDE DEF J
  <2>4. ~(i > Len(rest)) /\ Uri!Before(rest, i) = s /\ Uri!Behind(rest, i) = J
    <3>1. s \in Texts /\ Without(s, "?") /\ J \in Texts /\ "?" \in Words
      BY <1>2, <2>2, Marks
    <3> HIDE DEF s
    <3>2. Parted(rest, s, "?", J)
      BY <2>3, <3>1 DEF Parted
    <3> QED BY <3>2, FirstMark
  <2>5. PathSource(u) = <<u.source>>
    BY <1>4 DEF PathSource
  <2>6. parsed' = Begun(u, u.hosts, PathSource(u))
    <3>1. parsed' = [Begun(u, u.hosts, <<>>) EXCEPT !.source = PathSource(u)]
      BY <1>1, <2>4, <2>5
    <3> QED BY <3>1 DEF Begun
  <2>7. Shaped(parsed') /\ MeantIn(parsed', u, 0)
    BY <2>6, BegunMeant
  <2>8. 0 \in 0 .. Len(u.options)
    BY <2>1
  <2> QED BY <1>1, <1>4, <2>2, <2>4, <2>7, <2>8 DEF Stage, T
<1> QED BY <1>3, <1>4

LEMMA OptionKeeps ==
  ASSUME uri \in Uris, Stage(uri, at, rest, parsed, result), Uri!Option
  PROVE  Stage(uri, at', rest', parsed', result')
<1> DEFINE u == uri
           T == Uri!OptionTexts(u)
           L == Len(u.options)
           J == Uri!Joined(T, "&")
           end == Uri!Find(rest, "&")
           text == Uri!Before(rest, end)
           i == Uri!Find(text, "=")
           applied == Uri!Apply(parsed, Uri!Before(text, i), Uri!Behind(text, i))
<1>1. /\ u.path = "asked" /\ Shaped(parsed)
      /\ \E n \in 0 .. L : rest = J[L - n] /\ MeantIn(parsed, u, n)
  BY DEF Uri!Option, Stage
<1>2. PICK n \in 0 .. L : rest = J[L - n] /\ MeantIn(parsed, u, n)
  BY <1>1
<1>3. /\ i > Len(text) => at' = "done" /\ result' = "panic"
      /\ ~(i > Len(text)) =>
           /\ parsed' = applied.options
           /\ applied.result # "none" => at' = "done" /\ result' = applied.result
           /\ applied.result = "none" /\ end > Len(rest) => at' = "done"
           /\ applied.result = "none" /\ ~(end > Len(rest)) =>
                at' = "options" /\ result' = result /\ rest' = Uri!Behind(rest, end)
  BY DEF Uri!Option, Uri!Stop, Uri!Go
<1>4. result = "none"
  BY DEF Uri!Option, Stage
<1>5. /\ T \in Seq(Texts) /\ Len(T) = L /\ L \in Nat
      /\ \A k \in 1 .. L : T[k] = Uri!OptionText(u.options[k]) /\ Without(T[k], "&")
  BY Parts, Options
<1> HIDE DEF T
<1>6. /\ J \in [0 .. L -> Texts] /\ J[0] = <<>>
      /\ L >= 1 => J[1] = T[L]
      /\ \A k \in 2 .. L : J[k] = T[L + 1 - k] \o <<"&">> \o J[k - 1]
  <2>1. /\ J \in [0 .. Len(T) -> Texts] /\ J[0] = <<>>
        /\ Len(T) >= 1 => J[1] = T[Len(T)]
        /\ \A k \in 2 .. Len(T) : J[k] = T[Len(T) + 1 - k] \o <<"&">> \o J[k - 1]
    BY <1>5, Marks, JoinedFacts
  <2> HIDE DEF J, L
  <2> QED BY <1>5, <2>1
<1> HIDE DEF J
<1>7. CASE n = L
  <2>1. rest = <<>>
    BY <1>2, <1>5, <1>6, <1>7
  <2>2. <<>> \in Texts /\ Without(<<>>, "&") /\ Without(<<>>, "=")
    BY Marks, OneMark
  <2>3. text = <<>>
    BY <2>1, <2>2, NoMark
  <2>4. i > Len(text)
    BY <2>2, <2>3, NoMark
  <2> QED BY <1>3, <2>4 DEF Stage
<1>8. CASE n # L
  <2> DEFINE o == u.options[n + 1]
             t == T[n + 1]
             k == L - n
  <2>1. /\ n + 1 \in 1 .. L /\ n \in Nat /\ L + 1 - k = n + 1 /\ k \in 1 .. L /\ k - 1 = L - (n + 1)
        /\ n + 1 \in 0 .. L /\ k - 1 \in 0 .. L /\ (k # 1 => k \in 2 .. L) /\ (k = 1 => n + 1 = L /\ L >= 1)
    BY <1>5, <1>8
  <2>2. /\ o.key \in Texts /\ o.value \in Texts /\ Without(o.key, "=")
    BY <2>1, Parts
  <2>3. t \in Texts /\ Without(t, "&") /\ t = Uri!OptionText(o)
    BY <1>5, <2>1, ElementOfSeq
  <2> HIDE DEF o, t
  <2>4. rest = IF k = 1 THEN t ELSE t \o <<"&">> \o J[k - 1]
    BY <1>2, <1>6, <2>1 DEF t
  <2>5. /\ text = t
        /\ k = 1 => end > Len(rest)
        /\ k # 1 => ~(end > Len(rest)) /\ Uri!Behind(rest, end) = J[k - 1]
    <3>1. CASE k = 1
      BY <2>3, <2>4, <3>1, NoMark
    <3>2. CASE k # 1
      <4> DEFINE b == J[k - 1]
      <4>1. b \in Texts /\ "&" \in Words
        BY <1>6, <2>1, Marks
      <4>2. rest = t \o <<"&">> \o b
        BY <2>4, <3>2
      <4> HIDE DEF b
      <4>3. ~(end > Len(rest)) /\ text = t /\ Uri!Behind(rest, end) = b
        <5>1. Parted(rest, t, "&", b)
          BY <2>3, <4>1, <4>2 DEF Parted
        <5> QED BY <5>1, FirstMark
      <4> QED BY <3>2, <4>3 DEF b
    <3> QED BY <3>1, <3>2
  <2> HIDE DEF text, end
  <2>6. CASE ~o.assigned
    <3>1. text = o.key
      <4>1. o.key \o <<>> = o.key
        BY <2>2, ConcatEmptySeq DEF Texts
      <4> QED BY <2>3, <2>5, <2>6, <4>1 DEF Uri!OptionText
    <3>2. i > Len(text)
      BY <2>2, <3>1, NoMark
    <3> QED BY <1>3, <3>2 DEF Stage
  <2>7. CASE o.assigned
    <3> DEFINE key == o.key
               value == o.value
    <3>1. key \in Texts /\ value \in Texts /\ Without(key, "=")
      BY <2>2
    <3>2. text = key \o (<<"=">> \o value)
      BY <2>3, <2>5, <2>7 DEF Uri!OptionText
    <3> HIDE DEF key, value
    <3>3. text = key \o <<"=">> \o value
      <4>1. <<"=">> \in Texts
        BY Marks, OneMark
      <4> QED BY <3>1, <3>2, <4>1, TextsAssociate
    <3>4. ~(i > Len(text)) /\ Uri!Before(text, i) = key /\ Uri!Behind(text, i) = value
      <4>1. "=" \in Words
        BY Marks
      <4>2. Parted(text, key, "=", value)
        BY <3>1, <3>3, <4>1 DEF Parted
      <4> QED BY <4>2, FirstMark
    <3>5. ~(i > Len(text)) /\ applied = Uri!Apply(parsed, key, value)
      BY <3>4
    <3> HIDE DEF i, applied
    <3>6. applied.result # "ok" /\ (applied.result = "none" => Applied(parsed, key, value, applied.options))
      BY <3>5, ApplyApplies
    <3>7. CASE applied.result # "none"
      BY <1>3, <3>5, <3>6, <3>7 DEF Stage
    <3>8. CASE applied.result = "none"
      <4>1. Applied(parsed, o.key, o.value, parsed')
        BY <1>3, <3>5, <3>6, <3>8 DEF key, value
      <4>2. Shaped(parsed') /\ MeantIn(parsed', u, n + 1)
        BY <1>1, <1>2, <2>1, <4>1, MeantNext DEF o
      <4>3. CASE k = 1
        BY <1>1, <1>3, <2>1, <2>5, <3>5, <3>8, <4>2, <4>3 DEF Stage
      <4>4. CASE k # 1
        <5>1. at' = "options" /\ result' = "none" /\ rest' = J[L - (n + 1)]
          BY <1>3, <1>4, <2>1, <2>5, <3>5, <3>8, <4>4
        <5> QED BY <1>1, <2>1, <4>2, <5>1 DEF Stage, J, T
      <4> QED BY <4>3, <4>4
    <3> QED BY <3>7, <3>8
  <2> QED BY <2>6, <2>7
<1> QED BY <1>7, <1>8

\* What from_str accepts means what its parts say, but for TLS, for all connection
\* strings whose parts contain no mark that ends them and no value of which has an
\* '@', and however many options.
THEOREM AcceptedIsMeant == CallsSpec => []AcceptedAsMeant
<1>1. Uri!Init => UriInv
  BY DEF Uri!Init, UriInv, Stage
<1>2. UriInv /\ [Uri!Next]_(Uri!vars) => UriInv'
  <2> SUFFICES ASSUME UriInv, [Uri!Next]_(Uri!vars) PROVE UriInv'
    OBVIOUS
  <2> USE DEF UriInv
  <2>1. CASE Uri!Credentials
    <3>1. uri' = uri
      BY <2>1 DEF Uri!Credentials
    <3> QED BY <2>1, <3>1, CredentialsKeep
  <2>2. CASE Uri!Hosts
    <3>1. uri' = uri
      BY <2>2 DEF Uri!Hosts
    <3> QED BY <2>2, <3>1, HostsKeep
  <2>3. CASE Uri!Source
    <3>1. uri' = uri
      BY <2>3 DEF Uri!Source
    <3> QED BY <2>3, <3>1, SourceKeep
  <2>4. CASE Uri!Option
    <3>1. uri' = uri
      BY <2>4 DEF Uri!Option
    <3> QED BY <2>4, <3>1, OptionKeeps
  <2>5. CASE UNCHANGED Uri!vars
    BY <2>5 DEF Uri!vars
  <2> QED BY <2>1, <2>2, <2>3, <2>4, <2>5 DEF Uri!Next
<1>3. UriInv => AcceptedAsMeant
  <2>1. SUFFICES ASSUME UriInv, result = "ok", ~(uri.path = "asked" /\ Uri!MarksInValues)
                 PROVE  MeantIn(parsed, uri, IF uri.path = "asked" THEN Len(uri.options) ELSE 0)
    BY MeantAsMeant DEF AcceptedAsMeant, Uri!AcceptedAsMeant
  <2>2. Plain(uri)
    BY <2>1 DEF Plain, Uri!MarksInValues
  <2> QED BY <2>1, <2>2 DEF UriInv, Stage
<1> QED
  BY <1>1, <1>2, <1>3, UriRuns, PTL DEF Uri!Spec

=============================================================================
