------------------------------ MODULE Collection ------------------------------
(***************************************************************************)
(* The operations of Collection (src/src/coll.rs) and DataBase::drop: one  *)
(* call, from its options to the result it returns, with the retry of      *)
(* Client::run_command.  What tells the operations apart is which servers  *)
(* they may go to, what they ask to be changed, and how the reply is       *)
(* turned into a result; filters match all documents that were there, and  *)
(* which documents a read yields is left to module Cursor.                 *)
(***************************************************************************)
EXTENDS Naturals, Sequences, FiniteSets

CONSTANTS
  Operations,  \* the methods called
  Stored,      \* documents in the collection before
  Inserted,    \* documents to insert, in order
  RetryReads,  \* options.retry_reads
  RetryWrites  \* options.retry_writes

Inserts == {"insert_one", "insert_many"}
Deletes == {"delete_one", "delete_many"}
Updates == {"replace_one", "update_one", "update_one_pipeline", "update_many"}
FindsAndModifies == {"find_one_and_delete", "find_one_and_replace", "find_one_and_update"}
Units == {"rename", "drop", "drop_index", "drop_index_with", "drop_indexes", "drop_database"}
Indexes == {"create_index", "create_indexes"}
Values == {"estimated_document_count", "distinct"}
Cursors == {"aggregate", "count_documents", "watch", "find", "find_one", "list_indexes",
            "list_collections"}

Reads == Values \cup Cursors

CollectionAssumption ==
  /\ Operations \subseteq Inserts \cup Deletes \cup Updates \cup FindsAndModifies \cup Units
                            \cup Indexes \cup Reads
  /\ IsFiniteSet(Stored)
  /\ Inserted \in Seq({Inserted[i] : i \in DOMAIN Inserted}) \ {<<>>}
  /\ \A i, j \in DOMAIN Inserted : Inserted[i] = Inserted[j] => i = j
  /\ \A i \in DOMAIN Inserted : Inserted[i] \notin Stored
  /\ {RetryReads, RetryWrites} \subseteq BOOLEAN

VARIABLES
  operation,
  options,    \* generate: an _id is put into the documents to insert; ordered;
              \* preference: where read_preference leads; limit: of count_documents
  attempts,   \* how often the command was sent or its sending tried
  copies,     \* copies[d]: how often document d is in the collection
  outcome     \* what the call returned

vars == <<operation, options, attempts, copies, outcome>>

Documents == Stored \cup {Inserted[i] : i \in DOMAIN Inserted}

Options == [generate : BOOLEAN, ordered : BOOLEAN, preference : {"primary", "secondary"},
            limit : BOOLEAN]

Init ==
  /\ operation \in Operations
  /\ options \in Options
  /\ attempts = 1
  /\ copies = [d \in Documents |-> IF d \in Stored THEN 1 ELSE 0]
  /\ outcome = "none"

-----------------------------------------------------------------------------
(* The commands *)

\* The read argument of run_command: without one the command goes to a primary.
TakesPreference(op) ==
  op \in Values \cup {"find", "find_one", "list_indexes", "drop_database"}

Target(op) == IF TakesPreference(op) THEN options.preference ELSE "primary"

MayRetry(op) == attempts = 1 /\ IF TakesPreference(op) THEN RetryReads ELSE RetryWrites

\* The limit of a delete is 0.
Many(op) == op = "delete_many"

\* Mutant: the id is reported and not put into the document.
HasIdNever == FALSE

\* The documents as they are sent; only insert_one and insert_many generate ids.
HasId == options.generate

Sent == IF operation = "insert_one" THEN SubSeq(Inserted, 1, 1) ELSE Inserted

\* What the server would accept: not a new name without its database, the keys of
\* an index as an array or among its options, or a stage called "limit".
Understood(op) ==
  /\ op \notin Indexes \cup {"rename", "drop_index_with"}
  /\ ~(op = "count_documents" /\ options.limit)

-----------------------------------------------------------------------------
(* The server *)

\* The documents at the places in which were stored and the others were not; an
\* ordered insert stops at the first that is not, and a document with an _id is
\* stored once.
Insert(which) ==
  /\ \A i \in which : HasId => copies[Sent[i]] = 0
  /\ (operation = "insert_many" /\ options.ordered) => \A i \in which : 1..i \subseteq which
  /\ copies' = [d \in Documents |->
                  copies[d] + Cardinality({i \in which : Sent[i] = d})]

Present == {d \in Documents : copies[d] > 0}

Delete(gone) == copies' = [d \in Documents |-> IF d \in gone THEN 0 ELSE copies[d]]

\* The documents a command deletes: all, or one of those there are.
Affected ==
  IF Many(operation) \/ Present = {} THEN {Present} ELSE {{d} : d \in Present}

\* Whether the reply has all that its struct wants: there is no updatedExisting
\* for a document that was removed, the _id an update has inserted need not be an
\* ObjectId, and distinct values need not be documents.
Decodes(op) ==
  CASE op = "find_one_and_delete" -> {FALSE}
    [] op = "distinct" \/ (op \in Updates /\ Present = {}) -> BOOLEAN
    [] OTHER -> {TRUE}

\* What executing the command does and which places it has errors for.  An update
\* keeps the number of documents, and may be rejected.
Execute(errors) ==
  \/ /\ operation \in Inserts
     /\ \E which \in SUBSET DOMAIN Sent : Insert(which) /\ errors = DOMAIN Sent \ which
  \/ /\ operation \in Deletes \cup {"find_one_and_delete"}
     /\ \E gone \in Affected : Delete(gone)
     /\ errors = {}
  \/ /\ operation \in Updates \cup (FindsAndModifies \ {"find_one_and_delete"})
     /\ errors = {} \/ (operation \in Updates /\ errors = {1})
     /\ UNCHANGED copies
  \/ /\ operation \in {"drop", "drop_database"}
     /\ copies' = [d \in Documents |-> 0]
     /\ errors = {}
  \/ /\ operation \in (Units \ {"drop", "drop_database"}) \cup Indexes \cup Reads
     /\ errors = {}
     /\ UNCHANGED copies

-----------------------------------------------------------------------------
(* The result *)

\* Mutant: write errors are not looked at either.
into_result_never(errors) == "ok"

\* WriteCommandResponse::into_result.  The field for the write concern is spelt
\* wrong and read by nobody; the code of a write error has no conversion.
into_result(errors) == IF errors # {} THEN "panic" ELSE "ok"

\* deserialize for (): a document is no unit.
UnitResult == "error"

Result(errors) ==
  CASE operation \in Inserts \cup Deletes \cup Updates -> into_result(errors)
    [] operation \in Units -> UnitResult
    [] operation \in FindsAndModifies \cup Indexes \cup Reads -> "ok"

Return(result) == outcome' = result /\ UNCHANGED attempts

RetryOrFail ==
  IF MayRetry(operation)
    THEN attempts' = attempts + 1 /\ UNCHANGED outcome
    ELSE Return("error")

Pending == outcome = "none"

Refused == Target(operation) = "secondary" /\ operation \notin Reads

Answered ==
  /\ Pending
  /\ ~Refused /\ Understood(operation)
  /\ \E errors \in SUBSET DOMAIN Inserted, decodes \in Decodes(operation) :
       Execute(errors) /\ Return(IF decodes THEN Result(errors) ELSE "error")
  /\ UNCHANGED <<operation, options>>

\* A reply whose ok is not 1.  Executions the primary steps down from are left to
\* LosesReply, which ends alike.
AnsweredWithError ==
  /\ Pending
  /\ Return("error")
  /\ UNCHANGED <<operation, options, copies>>

LosesRequest ==
  /\ Pending
  /\ RetryOrFail
  /\ UNCHANGED <<operation, options, copies>>

LosesReply ==
  /\ Pending
  /\ ~Refused /\ Understood(operation)
  /\ \E errors \in SUBSET DOMAIN Inserted : Execute(errors)
  /\ RetryOrFail
  /\ UNCHANGED <<operation, options>>

Next == Answered \/ AnsweredWithError \/ LosesRequest \/ LosesReply

Spec == Init /\ [][Next]_vars

-----------------------------------------------------------------------------
(* Properties *)

\* A write that returns Ok was done: all the documents to insert are there and
\* a delete of many left none, though the server executed the command in part,
\* was asked twice, or reported each error inside a reply whose ok is 1.
OkMeansDone ==
  outcome = "ok" =>
    /\ operation \in Inserts => \A i \in DOMAIN Sent : copies[Sent[i]] > 0
    /\ operation \in {"delete_many"} => Present = {}

\* With __generate_id a document is inserted once, although the insert is sent
\* again with the same ids after its reply was lost.
GeneratedOnce == options.generate => \A d \in Documents : copies[d] <= 1
=============================================================================
