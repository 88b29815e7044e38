------------------------- MODULE EmbeddingMigration -------------------------
(***************************************************************************)
(* The migration of Honcho's vectors to the local embedding model,         *)
(* src/files/kubernetes/honcho-local-embedding-migration.py: the schema is *)
(* reset in one transaction, documents and messages are embedded batch by  *)
(* batch, each batch is committed, and the result is verified.             *)
(*                                                                         *)
(* The script is killed or fails anywhere and is run again, with or        *)
(* without SKIP_RESET and SKIP_DOCUMENTS, as its operator likes; Honcho's  *)
(* writers are stopped and one migration runs at a time, as the script     *)
(* asks.  PostgreSQL, which refuses a vector of the wrong dimension, and   *)
(* the embedding endpoint are external; content that the endpoint finds    *)
(* too large is cut until it is taken, or the script fails.                *)
(*                                                                         *)
(* SQL's trim removes spaces, Python's strip all white space: a message of *)
(* newlines only is fetched and never embedded, batch after batch, and the *)
(* script does not end while there is one.                                 *)
(***************************************************************************)
EXTENDS Naturals, Sequences, FiniteSets

CONSTANTS
  Documents,  \* in the order they were created
  Messages,   \* in the order of their ids
  BatchSize,  \* of documents and of messages
  MaxLaunches \* bound: launches of the script

ASSUME MigrationAssumption == BatchSize \in Nat \ {0} /\ MaxLaunches \in Nat

VARIABLES
  content,    \* content[x]: what document or message x holds
  dimension,  \* the dimension of the two vector columns
  vectored,   \* documents that have a vector
  rows,       \* rows[m]: batches whose vectors of message m are stored
  indexed,    \* whether both HNSW indexes exist
  stage,      \* what the running script does next
  skips,      \* the SKIP flags of the running script
  batch,      \* what it has fetched and not committed
  launches    \* launches so far

database == <<dimension, vectored, rows, indexed>>
migrationVars == <<content, database, stage, skips, batch, launches>>

Elements(s) == {s[i] : i \in DOMAIN s}
Documented == Elements(Documents)
Said == Elements(Messages)

MigrationTypeOK ==
  /\ content \in [Documented \cup Said -> {"text", "newlines", "blank", "deleted"}]
  /\ dimension \in {"old", "new"} /\ indexed \in BOOLEAN
  /\ vectored \subseteq Documented
  /\ rows \in [Said -> Nat]
  /\ stage \in {"rest", "reset", "documents", "messages", "indexes", "verify", "success"}
  /\ skips \subseteq {"reset", "documents"}
  /\ batch \subseteq Documented \cup Said
  /\ launches \in 0 .. MaxLaunches

MigrationInit ==
  /\ content \in [Documented \cup Said -> {"text", "newlines", "blank", "deleted"}]
  /\ \A m \in Said : content[m] # "deleted"
  /\ dimension = "old" /\ indexed = TRUE
  /\ vectored \in {{}, Documented} /\ rows \in {[m \in Said |-> n] : n \in {0, 1}}
  /\ stage = "rest" /\ skips = {} /\ batch = {} /\ launches = 0
-----------------------------------------------------------------------------
\* Each launch passes the preflight, or fails before it has changed anything.
Launch ==
  /\ stage \in {"rest", "success"} /\ launches < MaxLaunches
  /\ launches' = launches + 1
  /\ skips' \in SUBSET {"reset", "documents"}
  /\ stage' = "reset"
  /\ UNCHANGED <<content, database, batch>>

\* One transaction: the indexes go, the vectors go, the columns are altered.
Reset ==
  /\ stage = "reset" /\ stage' = "documents"
  /\ IF "reset" \in skips THEN UNCHANGED database
     ELSE /\ dimension' = "new" /\ indexed' = FALSE
          /\ vectored' = {} /\ rows' = [m \in Said |-> 0]
  /\ UNCHANGED <<content, skips, batch, launches>>

\* Content is left after SQL's trim, and no vector of it is stored.
LackingDocument(d) == content[d] \in {"text", "newlines"} /\ d \notin vectored
StoredOrNot(m) == content[m] \in {"text", "newlines"}
LackingMessage(m) == content[m] \in {"text", "newlines"} /\ rows[m] = 0

\* The first of those that lack something, as many as a batch takes.
First(s, lacking) ==
  LET places == {i \in DOMAIN s : s[i] \in lacking}
  IN {s[i] : i \in {p \in places : Cardinality({q \in places : q <= p}) <= BatchSize}}

FetchDocuments ==
  /\ stage = "documents" /\ batch = {}
  /\ batch' = IF "documents" \in skips THEN {}
              ELSE First(Documents, {d \in Documented : LackingDocument(d)})
  /\ stage' = IF batch' = {} THEN "messages" ELSE "documents"
  /\ UNCHANGED <<content, database, skips, launches>>

\* A vector of another dimension than the column's is refused with its batch.
CommitDocuments ==
  /\ stage = "documents" /\ batch # {} /\ dimension = "new"
  /\ vectored' = vectored \cup batch /\ batch' = {}
  /\ UNCHANGED <<content, dimension, rows, indexed, stage, skips, launches>>

FetchMessages ==
  /\ stage = "messages" /\ batch = {}
  /\ batch' = First(Messages, {m \in Said : LackingMessage(m)})
  /\ stage' = IF batch' = {} THEN "indexes" ELSE "messages"
  /\ UNCHANGED <<content, database, skips, launches>>

\* Only what Python does not strip to nothing is embedded.
CommitMessages ==
  /\ stage = "messages" /\ batch # {}
  /\ LET taken == {m \in batch : content[m] = "text"}
     IN /\ taken # {} => dimension = "new"
        /\ rows' = [m \in Said |-> IF m \in taken THEN rows[m] + 1 ELSE rows[m]]
  /\ batch' = {}
  /\ UNCHANGED <<content, dimension, vectored, indexed, stage, skips, launches>>

CreateIndexes ==
  /\ stage = "indexes" /\ stage' = "verify" /\ indexed' = TRUE
  /\ UNCHANGED <<content, dimension, vectored, rows, skips, batch, launches>>

Populated ==
  /\ \A d \in Documented : ~ LackingDocument(d)
  /\ \A m \in Said : ~ LackingMessage(m)

Verified == dimension = "new" /\ Populated

Verify ==
  /\ stage = "verify" /\ Verified /\ stage' = "success"
  /\ UNCHANGED <<content, database, skips, batch, launches>>

\* The script is killed, or what it asks for fails; what it has not committed
\* is lost.
Die ==
  /\ stage \notin {"rest", "success"}
  /\ stage' = "rest" /\ batch' = {}
  /\ UNCHANGED <<content, database, skips, launches>>

MigrationNext ==
  \/ Launch \/ Reset \/ FetchDocuments \/ CommitDocuments
  \/ FetchMessages \/ CommitMessages \/ CreateIndexes \/ Verify \/ Die

MigrationSpec == MigrationInit /\ [][MigrationNext]_migrationVars
-----------------------------------------------------------------------------
\* However often the script died and whatever it was told to skip: when it
\* succeeds all that Honcho recalls from has a vector of the new dimension and
\* is indexed, and no message is ever stored by two batches.
MigrationIsWhole ==
  /\ stage = "success" =>
       /\ dimension = "new" /\ indexed
       /\ \A d \in Documented : content[d] = "text" => d \in vectored
       /\ \A m \in Said : content[m] = "text" => rows[m] = 1
  /\ \A m \in Said : rows[m] <= 1
=============================================================================
