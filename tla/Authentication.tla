---------------------------- MODULE Authentication ----------------------------
(***************************************************************************)
(* Authentication within the handshake of a new connection                 *)
(* (src/src/auth.rs): one conversation with one server.  Cryptography is   *)
(* symbolic: a key, a proof or a signature is the term it is computed as.  *)
(***************************************************************************)
EXTENDS Naturals, Sequences, SequencesExt

CONSTANTS
  Credentials,  \* those the client may be configured with
  Servers       \* "protocol" uses the protocol's field names, "driver" those of
                \* the structs here, which are not renamed to camel case

AuthenticationAssumption ==
  /\ \A c \in Credentials :
       /\ c.mechanism \in {"MONGODB-X509", "PLAIN", "SCRAM-SHA-1", "SCRAM-SHA-256"}
       /\ {c.username, c.password} \subseteq {"right", "wrong", "none"}
  /\ Servers \subseteq {"protocol", "driver"}

VARIABLES
  credential,
  server,
  phase,    \* what the driver waits for
  sent,     \* the command the server has not answered yet
  reply,    \* the reply the driver has not read yet
  granted,  \* the server takes the connection for authenticated
  outcome   \* how auth ended

vars == <<credential, server, phase, sent, reply, granted, outcome>>

Nothing == [name |-> "none"]

Init ==
  /\ credential \in Credentials
  /\ server \in Servers
  /\ phase = "start"
  /\ sent = Nothing
  /\ reply = Nothing
  /\ granted = FALSE
  /\ outcome = "none"

-----------------------------------------------------------------------------
(* Texts and keys *)

Attribute(name, value) == [name |-> name, value |-> value]

Has(message, name) == \E i \in DOMAIN message : message[i].name = name

\* What find and the slice up to the next comma yield: "name=value".
Slice(message, name) ==
  LET attribute == SelectSeq(message, LAMBDA a : a.name = name)[1]
  IN  <<name, "=", attribute.value>>

\* base64::decode and parse take no text with a name in front of the value.
Decodes(text) == Len(text) = 1

SaltedPassword(secret, salt) == <<"pbkdf2", secret, salt>>

Hmac(key, message) == <<"hmac", key, message>>

Keys(salted, stored, message) ==
  [proof     |-> <<"xor", Hmac(salted, "Client Key"), Hmac(stored, message)>>,
   signature |-> Hmac(Hmac(salted, "Server Key"), message)]

\* The stored key is an HMAC of nothing, the password goes through MD5.
compute_client_proof(c, salt, message) ==
  LET salted == SaltedPassword(<<"md5", c.username, ":mongo:", c.password>>, salt)
  IN  Keys(salted, Hmac(Hmac(salted, "Client Key"), "empty"), message)

\* What a server of SCRAM-SHA-256 computes from the password it knows.
Expected(salt, message) ==
  LET salted == SaltedPassword("right", salt)
  IN  Keys(salted, <<"hash", Hmac(salted, "Client Key")>>, message)

-----------------------------------------------------------------------------
(* The driver *)

End(error) == phase' = "ended" /\ outcome' = error

Ask(command, next) ==
  /\ sent' = command
  /\ phase' = next
  /\ UNCHANGED outcome

\* auth, the mechanisms and options it refuses.
AuthRefuses ==
  /\ phase = "start"
  /\ \/ /\ credential.mechanism \in {"PLAIN", "SCRAM-SHA-256"}
        /\ "none" \in {credential.username, credential.password}
        /\ End("InvalidOptions")
     \/ /\ credential.mechanism \notin {"PLAIN", "SCRAM-SHA-256", "MONGODB-X509"}
        /\ End("UnsupportedMechanism")
  /\ UNCHANGED <<credential, server, sent, reply, granted>>

\* The first request of auth_x509, auth_plain and auth_scram.
AuthStarts ==
  /\ phase = "start"
  /\ \/ /\ credential.mechanism = "MONGODB-X509"
        /\ Ask([name |-> "authenticate", mechanism |-> "PLAIN"], "x509")
     \/ /\ credential.mechanism \in {"PLAIN", "SCRAM-SHA-256"}
        /\ "none" \notin {credential.username, credential.password}
        /\ Ask([name |-> "sasl_start", mechanism |-> credential.mechanism],
               IF credential.mechanism = "PLAIN" THEN "plain" ELSE "first")
  /\ UNCHANGED <<credential, server, reply, granted>>

\* deserialize: every field the struct names is there.
Deserializes(form) == reply.name = form /\ reply.names = "driver"

Received == reply.name # "none" /\ reply' = Nothing /\ UNCHANGED <<credential, server, granted>>

ReadX509 ==
  /\ phase = "x509"
  /\ Received
  /\ End(IF Deserializes("AuthenticateResponse") THEN "ok" ELSE "Bson")
  /\ UNCHANGED sent

\* Mutant: the reply is received and not looked at.
ReadPlainUnseen == phase = "plain" /\ Received /\ End("ok") /\ UNCHANGED sent

ReadPlain ==
  /\ phase = "plain"
  /\ Received
  /\ End(IF ~Deserializes("SaslResponse") THEN "Bson"
          ELSE IF ~reply.done THEN "InvalidReply" ELSE "ok")
  /\ UNCHANGED sent

AuthMessage(first, nonce) == <<credential.username, "client nonce", first, nonce>>

\* The server's first message is taken apart, the client's final one sent.
ReadFirst ==
  /\ phase = "first"
  /\ Received
  /\ LET first == reply.payload
         slice(name) == Slice(first, name)
         nonce == slice("r")
         keys == compute_client_proof(credential, slice("s"), AuthMessage(first, nonce))
     IN  \/ ~Deserializes("SaslResponse") /\ End("Bson") /\ UNCHANGED sent
         \/ /\ Deserializes("SaslResponse")
            /\ IF \/ \E name \in {"r", "s", "i"} : ~Has(first, name)
                  \/ ~Decodes(slice("s"))
                  \/ ~Decodes(slice("i"))
                 THEN End("InvalidReply") /\ UNCHANGED sent
               ELSE IF slice("i")[1] < 4096
                 THEN End("InvalidIterationCount") /\ UNCHANGED sent
               ELSE IF nonce[1][1] # "client nonce"
                 THEN End("InvalidServerNonce") /\ UNCHANGED sent
               ELSE Ask([name |-> "sasl_continue", proof |-> keys.proof,
                         nonce |-> nonce, first |-> first, keys |-> keys], "final")

\* The server's final message; the signature is looked for behind "s=".
ReadFinal ==
  /\ phase = "final"
  /\ Received
  /\ LET final == reply.payload
     IN  End(IF ~Deserializes("SaslResponse") THEN "Bson"
              ELSE IF ~reply.done \/ ~Has(final, "s") \/ ~Decodes(Slice(final, "s"))
                THEN "InvalidReply"
              ELSE IF Slice(final, "s")[1] # reply.asked.keys.signature
                THEN "InvalidServerSignature"
              ELSE "ok")
  /\ UNCHANGED sent

-----------------------------------------------------------------------------
(* The server *)

Answer(form, done, payload) ==
  reply' = [name |-> form, names |-> server, done |-> done, payload |-> payload, asked |-> sent]

\* An error document, the answer also to a command or a mechanism it does not
\* know.
Refuse == Answer("error", FALSE, <<>>) /\ UNCHANGED granted

\* A certificate is right or not; of names and passwords the server knows which.
GrantX509 ==
  /\ sent.name = "authenticate"
  /\ server = "driver"
  /\ granted' = TRUE
  /\ Answer("AuthenticateResponse", TRUE, <<>>)

GrantPlain ==
  /\ sent.name = "sasl_start"
  /\ sent.mechanism = "PLAIN"
  /\ server = "driver"
  /\ granted' \in {credential.username = "right" /\ credential.password = "right", FALSE}
  /\ Answer("SaslResponse", granted', <<>>)

Nonces == {<<"client nonce", "server nonce">>, <<"server nonce">>}

\* With the client's nonce in front or not, enough iterations or not, or incomplete.
FirstMessages ==
  {<<Attribute("r", nonce), Attribute("s", "salt"), Attribute("i", i)>> :
     nonce \in Nonces, i \in {4095, 4096}}
  \cup {<<Attribute("r", nonce)>> : nonce \in Nonces}

ServeFirst ==
  /\ sent.name = "sasl_start"
  /\ sent.mechanism = "SCRAM-SHA-256"
  /\ server = "driver"
  /\ \E message \in FirstMessages : Answer("SaslResponse", FALSE, message)
  /\ UNCHANGED granted

ServeFinal ==
  /\ sent.name = "sasl_continue"
  /\ server = "driver"
  /\ LET expected == Expected(<<"salt">>, AuthMessage(sent.first, sent.nonce))
     IN  /\ sent.proof = expected.proof
         /\ granted' = TRUE
         /\ Answer("SaslResponse", TRUE, <<Attribute("v", expected.signature)>>)

Serve ==
  /\ sent.name # "none"
  /\ sent' = Nothing
  /\ Refuse \/ GrantX509 \/ GrantPlain \/ ServeFirst \/ ServeFinal
  /\ UNCHANGED <<credential, server, phase, outcome>>

Next ==
  \/ AuthRefuses \/ AuthStarts
  \/ ReadX509 \/ ReadPlain \/ ReadFirst \/ ReadFinal
  \/ Serve

Spec == Init /\ [][Next]_vars

-----------------------------------------------------------------------------
(* Properties *)

\* A connection leaves the handshake as authenticated only if the server has
\* granted it to these credentials: an error document, which deserializes into
\* none of the structs, or an unfinished conversation never passes.
AgreesWithServer == outcome = "ok" => granted

\* It continues the client's nonce, has a salt and asks for iterations enough.
Complete(first) ==
  /\ {"r", "s", "i"} \subseteq {first[i].name : i \in DOMAIN first}
  /\ \A i \in DOMAIN first :
       /\ first[i].name = "r" => first[i].value[1] = "client nonce"
       /\ first[i].name = "i" => first[i].value >= 4096

\* The driver answers a server's first message that is as it should be with its
\* proof, as whoever enables authentication may expect.
ScramGoesOn ==
  [][phase = "first" /\ Deserializes("SaslResponse") /\ Complete(reply.payload) /\ reply' # reply =>
       phase' = "final"]_vars

\* What the code does instead, whatever the message says and whoever the user is:
\* the slices keep their "s=" and "i=", which neither base64 nor an integer
\* parses, so that the proof is never sent.
ScramNeverProves ==
  credential.mechanism = "SCRAM-SHA-256" => phase # "final" /\ outcome # "ok"
=============================================================================
