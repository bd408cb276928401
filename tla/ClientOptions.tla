----------------------------- MODULE ClientOptions -----------------------------
(***************************************************************************)
(* ClientOptions::from_str (src/src/common.rs): a connection string is cut *)
(* up from left to right and each option changes the options so far.  A    *)
(* text is a sequence of words and of the marks between them; what may be  *)
(* missing is a sequence of one text or none.  Options that are handled    *)
(* alike have one key here: "maxPoolSize" stands for all numbers,          *)
(* "appname" for all texts, "retryWrites" for all flags, "tlsInsecure" for *)
(* all flags of TLS, and so on; percent signs are never decoded.  The      *)
(* check of the scheme before and the TLS configuration made afterwards    *)
(* are left out.                                                           *)
(***************************************************************************)
EXTENDS Naturals, Sequences

CONSTANT Uris  \* the connection strings, by their parts

Lacks(text, marks) == text \in Seq(STRING) /\ \A i \in DOMAIN text : text[i] \notin marks

\* No part contains a mark that ends it, or would have ended one before it,
\* except for the values of options, in which there may be an '@'.
ClientOptionsAssumption ==
  \A u \in Uris :
    /\ u.user \in Seq(Seq(STRING)) /\ u.hosts \in Seq(Seq(STRING)) /\ u.hosts # <<>>
    /\ \A i \in DOMAIN u.user : Lacks(u.user[i], {":", "@"})
    /\ \A i \in DOMAIN u.hosts : Lacks(u.hosts[i], {",", "/", "@"})
    /\ u.path \in {"absent", "bare", "asked"} /\ Lacks(u.source, {"?", "@"})
    /\ DOMAIN u.options = 1 .. Len(u.options) /\ Len(u.options) \in Nat
    /\ \A i \in DOMAIN u.options :
         LET o == u.options[i]
         IN  Lacks(o.key, {"=", "&", "@"}) /\ Lacks(o.value, {"&"}) /\ o.assigned \in BOOLEAN

\* The last n parts with marks in between, for every n.
Joined(parts, mark) ==
  LET text[n \in 0 .. Len(parts)] ==
        IF n = 0 THEN <<>>
        ELSE parts[Len(parts) + 1 - n] \o (IF n = 1 THEN <<>> ELSE <<mark>> \o text[n - 1])
  IN  text

Join(parts, mark) == Joined(parts, mark)[Len(parts)]

OptionText(o) == o.key \o IF o.assigned THEN <<"=">> \o o.value ELSE <<>>

OptionTexts(u) == [i \in DOMAIN u.options |-> OptionText(u.options[i])]

\* What is behind the hosts.
PathText(u) ==
  IF u.path = "absent" THEN <<>>
  ELSE <<"/">> \o u.source \o IF u.path = "asked" THEN <<"?">> \o Join(OptionTexts(u), "&") ELSE <<>>

\* The string with these parts.
Text(u) ==
  (IF u.user = <<>> THEN <<>> ELSE Join(u.user, ":") \o <<"@">>)
  \o Join(u.hosts, ",") \o PathText(u)

VARIABLES
  uri,      \* the parts the string was put together from
  at,       \* the stage of from_str
  rest,     \* s, the text that is left
  options,  \* self_
  result    \* "ok", "error" or "panic" in the end

vars == <<uri, at, rest, options, result>>

Default ==
  [username |-> <<>>, password |-> <<>>, hosts |-> <<>>, source |-> <<>>, appname |-> <<>>,
   maxPoolSize |-> <<>>, retryWrites |-> TRUE, w |-> <<>>, journal |-> <<>>, tags |-> <<>>,
   compressors |-> <<>>, tls |-> FALSE, insecure |-> FALSE, topology |-> <<>>]

Init ==
  /\ uri \in Uris
  /\ at = "credentials"
  /\ rest = Text(uri)
  /\ options = Default
  /\ result = "none"

-----------------------------------------------------------------------------
(* The stages *)

\* s.find(mark), one place behind the end if there is none.
Find(text, mark) ==
  IF \E i \in DOMAIN text : text[i] = mark
    THEN CHOOSE i \in DOMAIN text : text[i] = mark /\ \A j \in 1..i-1 : text[j] # mark
    ELSE Len(text) + 1

Before(text, i) == SubSeq(text, 1, i - 1)

\* s[i + 1..], for i within the text.
Behind(text, i) == SubSeq(text, i + 1, Len(text))

\* After n finds: the parts found, and the text that is left.
Cuts(text, mark) ==
  LET cut[n \in 0 .. Len(text)] ==
        IF n = 0 THEN [parts |-> <<>>, rest |-> text]
        ELSE LET c == cut[n - 1]
                 i == Find(c.rest, mark)
             IN  IF i > Len(c.rest) THEN c
                 ELSE [parts |-> Append(c.parts, Before(c.rest, i)), rest |-> Behind(c.rest, i)]
  IN  cut

Split(text, mark) == LET c == Cuts(text, mark)[Len(text)] IN Append(c.parts, c.rest)

\* The nth of the parts, if there are so many.
Nth(parts, n) == IF n <= Len(parts) THEN <<parts[n]>> ELSE <<>>

Stop(outcome) == at' = "done" /\ result' = outcome

Go(stage) == at' = stage /\ UNCHANGED result

\* An '@' anywhere in the string ends the credentials.
Credentials ==
  /\ at = "credentials"
  /\ LET i == Find(rest, "@")
         parts == Split(Before(rest, i), ":")
     IN  IF i > Len(rest) THEN UNCHANGED <<rest, options>>
         ELSE /\ options' = [options EXCEPT !.username = Nth(parts, 1), !.password = Nth(parts, 2)]
              /\ rest' = Behind(rest, i)
  /\ Go("hosts")
  /\ UNCHANGED uri

Hosts ==
  /\ at = "hosts"
  /\ LET i == Find(rest, "/")
     IN  /\ options' = [options EXCEPT !.hosts = Split(Before(rest, i), ",")]
         /\ IF i > Len(rest) THEN Stop("ok") /\ UNCHANGED rest
            ELSE rest' = Behind(rest, i) /\ Go("source")
  /\ UNCHANGED uri

\* Without a '?' the slice behind it is out of range.
Source ==
  /\ at = "source"
  /\ LET i == Find(rest, "?")
     IN  /\ options' = [options EXCEPT !.source = <<Before(rest, i)>>]
         /\ IF i > Len(rest) THEN Stop("panic") /\ UNCHANGED rest
            ELSE rest' = Behind(rest, i) /\ Go("options")
  /\ UNCHANGED uri

-----------------------------------------------------------------------------
(* The options *)

True == <<"true">>
Numbers == {<<"0">>, <<"1">>}
Compressors == {<<"noop">>, <<"snappy">>, <<"zlib">>, <<"zstd">>}
Topologies == {<<"unknown">>, <<"sharded">>, <<"replicaSetWithPrimary">>, <<"replicaSetNoPrimary">>}

Ok(o) == [result |-> "none", options |-> o]
Bad(outcome, o) == [result |-> outcome, options |-> o]

\* Mutant: the database in the path counts for more than authSource.
authSourceOnce(o, value) == IF o.source = << <<>> >> THEN [o EXCEPT !.source = <<value>>] ELSE o

authSource(o, value) == [o EXCEPT !.source = <<value>>]

Supported(names) == SelectSeq(names, LAMBDA n : n = <<"zstd">>)

\* One option; a tag needs its ':', the topology one of its names, both panic.
\* "tls" begins the options of TLS anew.
Apply(o, key, value) ==
  CASE key = <<"appname">> -> Ok([o EXCEPT !.appname = <<value>>])
    [] key = <<"authSource">> -> Ok(authSource(o, value))
    [] key = <<"retryWrites">> -> Ok([o EXCEPT !.retryWrites = value = True])
    [] key = <<"journal">> -> Ok([o EXCEPT !.journal = <<value = True>>])
    [] key = <<"tls">> -> Ok([o EXCEPT !.tls = TRUE, !.insecure = FALSE])
    [] key = <<"tlsInsecure">> -> Ok([o EXCEPT !.tls = TRUE, !.insecure = value = True])
    [] key = <<"maxPoolSize">> /\ value \in Numbers -> Ok([o EXCEPT !.maxPoolSize = <<value>>])
    [] key = <<"w">> /\ value \in Numbers -> Ok([o EXCEPT !.w = <<value>>])
    [] key = <<"compressors">> /\ (\A i \in DOMAIN Split(value, ",") : Split(value, ",")[i] \in Compressors) ->
         Ok([o EXCEPT !.compressors = Supported(Split(value, ","))])
    [] key = <<"readPreferenceTags">> ->
         LET tags == Split(value, ",")
         IN  IF \E i \in DOMAIN tags : Lacks(tags[i], {":"}) THEN Bad("panic", o)
             ELSE Ok([o EXCEPT !.tags = Append(@, tags)])
    [] key = <<"initialTopologyType">> ->
         IF value \in Topologies THEN Ok([o EXCEPT !.topology = <<value>>]) ELSE Bad("panic", o)
    [] OTHER -> Bad("error", o)

\* One key and value, and the last of them ends the string.  An option without
\* '=', such as the empty one, has its value out of range.
Option ==
  /\ at = "options"
  /\ LET end == Find(rest, "&")
         text == Before(rest, end)
         i == Find(text, "=")
         applied == Apply(options, Before(text, i), Behind(text, i))
     IN  IF i > Len(text) THEN Stop("panic") /\ UNCHANGED <<rest, options>>
         ELSE /\ options' = applied.options
              /\ IF applied.result # "none" THEN Stop(applied.result) /\ UNCHANGED rest
                 ELSE IF end > Len(rest) THEN Stop("ok") /\ rest' = <<>>
                 ELSE rest' = Behind(rest, end) /\ Go("options")
  /\ UNCHANGED uri

Next == Credentials \/ Hosts \/ Source \/ Option

Spec == Init /\ [][Next]_vars

-----------------------------------------------------------------------------
(* Properties *)

\* Those of the first n options that have this key.
Given(key, n) == {i \in 1 .. n : uri.options[i].key = <<key>>}

\* The value of the last option with this key, or what else it is.
Value(key, n, else) ==
  IF Given(key, n) = {} THEN else
  ELSE LET i == CHOOSE i \in Given(key, n) : \A j \in Given(key, n) : j <= i
       IN  <<uri.options[i].value>>

\* The tags are those given, in their order.
Collected(tags, n) ==
  \E given \in [DOMAIN tags -> Given("readPreferenceTags", n)] :
    /\ \A i, j \in DOMAIN tags : i < j => given[i] < given[j]
    /\ \A k \in Given("readPreferenceTags", n) : \E i \in DOMAIN tags : given[i] = k
    /\ \A i \in DOMAIN tags : tags[i] = Split(uri.options[given[i]].value, ",")

\* The options are those that the first n options of the string ask for, but for
\* those of TLS.
Meant(n) ==
  LET journal == Value("journal", n, <<>>)
      compressors == Value("compressors", n, <<>>)
  IN  /\ options.hosts = uri.hosts
      /\ options.username = Nth(uri.user, 1)
      /\ options.password = Nth(uri.user, 2)
      /\ options.source = Value("authSource", n, IF uri.path = "absent" THEN <<>> ELSE <<uri.source>>)
      /\ options.appname = Value("appname", n, <<>>)
      /\ options.maxPoolSize = Value("maxPoolSize", n, <<>>)
      /\ options.w = Value("w", n, <<>>)
      /\ options.topology = Value("initialTopologyType", n, <<>>)
      /\ options.journal = IF journal = <<>> THEN <<>> ELSE <<journal[1] = True>>
      /\ options.compressors = IF compressors = <<>> THEN <<>> ELSE Supported(Split(compressors[1], ","))
      /\ options.retryWrites <=> Value("retryWrites", n, <<True>>) = <<True>>
      /\ Collected(options.tags, n)

MarksInValues == \E i \in DOMAIN uri.options : ~Lacks(uri.options[i].value, {"@"})

\* What from_str accepts means what its parts say, whichever of them are there
\* and in whichever order: of options given twice the last counts, authSource
\* counts for more than the database in the path, tags are collected.  There are
\* two exceptions: a value with an '@', which moves the hosts into the
\* credentials, and the options of TLS (TlsAsTold).
AcceptedAsMeant ==
  (result = "ok" /\ ~(uri.path = "asked" /\ MarksInValues)) =>
    Meant(IF uri.path = "asked" THEN Len(uri.options) ELSE 0)

\* A string that says of TLS only that it is off does not turn it on.
TlsAsTold ==
  LET last == Len(uri.options)
  IN  result = "ok" /\ Value("tls", last, <<>>) = << <<"false">> >> /\ Given("tlsInsecure", last) = {} =>
        ~options.tls
=============================================================================
