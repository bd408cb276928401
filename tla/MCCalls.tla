-------------------------------- MODULE MCCalls --------------------------------
(***************************************************************************)
(* Calls for TLC: the inputs, and one initial state of each component that *)
(* is not in focus.                                                        *)
(***************************************************************************)
EXTENDS Calls

CONSTANTS
  p, q,  \* servers of Cursor
  t3     \* a thread of LockOrder that does nothing where faults are possible

VARIABLE faulty  \* idle timeouts and clock steps are possible

MCDialects == {{"plain", "refusal", "typed", "stub", "undersized"},
               {"plain", "foreign", "noop", "nested", "zstd", "snappy"}}

MCCredentials ==
  [mechanism : {"MONGODB-X509", "PLAIN", "SCRAM-SHA-1", "SCRAM-SHA-256"},
   username : {"right", "wrong", "none"}, password : {"right", "wrong", "none"}]

MCCursorServers == {p, q}

MCCallers == [openers : {{p}, {p, q}}, eligible : {{p}, {q}, {p, q}}, retry : BOOLEAN]

MCOperations ==
  {"insert_one", "insert_many", "delete_one", "delete_many", "replace_one", "update_one",
   "update_one_pipeline", "update_many", "find_one_and_delete", "find_one_and_replace",
   "find_one_and_update", "rename", "drop", "drop_index", "drop_index_with", "drop_indexes",
   "drop_database", "create_index", "create_indexes", "estimated_document_count", "distinct",
   "aggregate", "count_documents", "watch", "find", "find_one", "list_indexes",
   "list_collections"}

MCInserted == <<"c", "d">>

Set(key, value) == [key |-> <<key>>, value |-> value, assigned |-> TRUE]

\* Options that are well-formed, lack a mark, have one too many or a value that
\* is not known.
SomeOptions ==
  {Set("appname", <<"a", "=">>), Set("appname", <<"a", "@", "b">>), Set("authSource", <<"admin">>),
   Set("authSource", <<>>), Set("maxPoolSize", <<"1">>), Set("w", <<"majority">>),
   Set("w", <<"1">>), Set("journal", <<"true">>), Set("retryWrites", <<"false">>),
   Set("tls", <<"false">>), Set("tlsInsecure", <<"true">>),
   Set("compressors", <<"snappy", ",", "zstd">>), Set("compressors", <<"bz2">>),
   Set("readPreferenceTags", <<"dc", ":", "x", ",", "r", ":">>),
   Set("readPreferenceTags", <<"dc">>), Set("initialTopologyType", <<"single">>),
   Set("initialTopologyType", <<"sharded">>), Set("ssl", <<"true">>),
   [key |-> <<"tls">>, value |-> <<>>, assigned |-> FALSE],
   [key |-> <<"tls", "/">>, value |-> <<>>, assigned |-> TRUE]}

MCHosts == {<< <<"h">> >>, << <<"h", ":", "1">>, <<"i">> >>}

MCUris ==
  [user : {<<>>, << <<"u">> >>, << <<"u">>, <<"p", "/">>, <<>> >>}, hosts : MCHosts,
   path : {"absent", "bare"}, source : {<<"db">>}, options : {<<>>}]
  \cup
  [user : {<<>>, << <<"u">>, <<"p">> >>}, hosts : MCHosts, path : {"asked"},
   source : {<<>>, <<"db", "/">>},
   options : {<<>>} \cup {<<o>> : o \in SomeOptions} \cup {<<o, o2>> : o, o2 \in SomeOptions}]

-----------------------------------------------------------------------------
\* The one initial state of the components that are not in focus.
MCInit ==
  /\ focus \in {"wire", "authentication", "cursor", "collection", "options", "locks"}
  /\ IF focus = "wire" THEN TRUE
     ELSE dialect = (CHOOSE d \in Dialects : TRUE) /\ compressor = "none"
  /\ IF focus = "authentication" THEN TRUE
     ELSE credential = (CHOOSE c \in ClientCredentials : TRUE) /\ peer = "driver"
  /\ IF focus = "cursor" THEN TRUE ELSE caller = CHOOSE c \in Callers : TRUE
  /\ IF focus = "collection" THEN TRUE
     ELSE operation = "insert_one" /\ options = CHOOSE o \in Coll!Options : TRUE
  /\ IF focus = "options" THEN TRUE ELSE uri = CHOOSE u \in Uris : TRUE
  /\ IF focus = "locks" THEN faulty \in BOOLEAN ELSE faulty = FALSE
  /\ CallsInit

\* The locks with three threads, and with faults and two.
MCNext ==
  /\ CallsNext
  /\ UNCHANGED faulty
  /\ IF faulty THEN pc'[t3] = "ready" ELSE UNCHANGED <<lost, poisoned>>

MCSpec == MCInit /\ [][MCNext]_<<allVars, faulty>> /\ Fairness
=============================================================================
