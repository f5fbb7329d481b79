------------------------------ MODULE Retention ------------------------------
(***************************************************************************)
(* Erasing evidence under a retention policy (execute_deletion of          *)
(* services/retention_ops.py) on the connection the web server keeps open  *)
(* (storage/sqlite.py).  Requests run one after the other on that          *)
(* connection.  A deletion writes row by row and commits at its end; an    *)
(* exception leaves its transaction open until a later request commits or  *)
(* rolls back, or the server dies.  Workers write through connections of   *)
(* their own and wait for the write lock.                                  *)
(*                                                                         *)
(* A piece of evidence is a source version with its document and what was  *)
(* derived from it (facts, relations, embedding, tags, collection items).  *)
(***************************************************************************)
EXTENDS Naturals, Sequences, FiniteSets

CONSTANTS
    Evidence,       \* source versions, each with one document
    Workspace, Of,  \* Of[e]: the workspace of e
    MaxDeletions,   \* bound: deletions requested
    MaxCrashes      \* bound: times the server dies

VARIABLES
    db,         \* the committed rows
    view,       \* the rows as the server's connection sees them
    open,       \* its transaction is open
    request,    \* the deletion the server is running
    cache,      \* embeddings held by the server
    ingested,   \* evidence that was ever stored
    refused,    \* evidence of the last deletion, if it was answered with an error
    deletions, crashes

vars == <<db, view, open, request, cache, ingested, refused, deletions, crashes>>
bounds == <<deletions, crashes>>

Rows == [sources: SUBSET Evidence, documents: SUBSET Evidence, derived: SUBSET Evidence,
         current: SUBSET Evidence, routed: SUBSET Evidence, cited: SUBSET Evidence,
         audited: SUBSET Evidence]

Idle == [table |-> "none", batch |-> <<>>, member |-> {}, erased |-> {}]
Request == [table: {"none", "documents", "sources"}, batch: Seq(Evidence),
            member: SUBSET Workspace, erased: SUBSET Evidence]

TypeOK ==
    /\ db \in Rows /\ view \in Rows /\ open \in BOOLEAN
    /\ request \in Request
    /\ cache \subseteq Evidence /\ ingested \subseteq Evidence /\ refused \subseteq Evidence
    /\ (~open => view = db)

Init ==
    /\ db = [sources |-> {}, documents |-> {}, derived |-> {}, current |-> {}, routed |-> {},
             cited |-> {}, audited |-> {}]
    /\ view = db /\ open = FALSE /\ request = Idle
    /\ cache = {} /\ ingested = {} /\ refused = {} /\ deletions = 0 /\ crashes = 0

---------------------------------------------------------------------------
(* The connection (storage/sqlite.py) *)

\* _ThreadSafeConnection.execute: the first statement that writes opens a transaction.
Write(rows) == view' = rows /\ open' = TRUE /\ UNCHANGED db
\* commit
Commit(rows) == db' = rows /\ view' = rows /\ open' = FALSE
\* atomic: BEGIN is refused while a transaction is open; another process waits for the lock.
Atomic(rows) == ~open /\ Commit(rows)

---------------------------------------------------------------------------
(* Other requests and the workers *)

\* _persist_ingestion: source, document and what is derived from it, then the interval
\* that makes it current; the provider route is opened when a connector ingests.
Stored(e) ==
    [db EXCEPT !.sources = @ \cup {e}, !.documents = @ \cup {e}, !.derived = @ \cup {e},
               !.current = @ \cup {e}, !.routed = @ \cup {e}]

\* ingest_text by a request: its embedding is kept.
Ingest(e) ==
    /\ request = Idle /\ e \notin ingested
    /\ Atomic(Stored(e))
    /\ cache' = cache \cup {e} /\ ingested' = ingested \cup {e}
    /\ UNCHANGED <<request, refused, bounds>>

\* A worker ingests a document; the server does not hold its embedding.
WorkerIngest(e) ==
    /\ e \notin ingested
    /\ Atomic(Stored(e)) /\ ingested' = ingested \cup {e}
    /\ UNCHANGED <<request, cache, refused, bounds>>

\* A decision cites a source; the foreign key then holds the source.
Cite(e) ==
    /\ request = Idle /\ e \in view.sources \ view.cited
    /\ Atomic([db EXCEPT !.cited = @ \cup {e}])
    /\ UNCHANGED <<request, cache, ingested, refused, bounds>>

\* authenticate_session: every authenticated request stamps last_seen_at and commits,
\* whatever the request before it had left open.
Authenticate ==
    /\ request = Idle /\ open /\ Commit(view)
    /\ UNCHANGED <<request, cache, ingested, refused, bounds>>

\* receive_webhook is not authenticated; it rolls back when the event is a duplicate.
DuplicateWebhook ==
    /\ request = Idle /\ open /\ Commit(db)
    /\ UNCHANGED <<request, cache, ingested, refused, bounds>>

---------------------------------------------------------------------------
(* Deletion *)

\* Every request starts with a commit (Authenticate).
StartDeletion(table, batch, member) ==
    /\ request = Idle /\ ~open /\ deletions < MaxDeletions /\ deletions' = deletions + 1
    /\ request' = [table |-> table, batch |-> batch, member |-> member, erased |-> {}]
    /\ refused' = {}
    /\ UNCHANGED <<db, view, open, cache, ingested, crashes>>

\* Mutant: the audit row waits for the end of the deletion.
AuditLater(rows, e) == rows
\* _insert_audit
Audited(rows, e) == [rows EXCEPT !.audited = @ \cup {e}]

\* The statements of _delete_document_evidence, up to the deletion of its source.
WithoutDocument(rows, e) ==
    [rows EXCEPT !.derived = @ \ {e}, !.documents = @ \ {e}]

\* Mutant: only the lifecycle interval is closed.
RetireLifecycle(rows, e) == [rows EXCEPT !.current = @ \ {e}]
\* _retire_source_lifecycle, _retire_provider_routes
Retired(rows, e) == [rows EXCEPT !.current = @ \ {e}, !.routed = @ \ {e}]

\* _delete_source_evidence: no document of the source is left.
WithoutSource(rows, e) == [Retired(rows, e) EXCEPT !.sources = @ \ {e}]

NextRow == Head(request.batch)
\* _find_deletable_row
Found == NextRow \in (IF request.table = "documents" THEN view.documents ELSE view.sources)
\* _authorize_delete_target: the person is a member of the workspace of the row.
Authorized == Of[NextRow] \in request.member

\* A row that is not there is passed over.
SkipRow ==
    /\ request.batch # <<>> /\ ~Found
    /\ request' = [request EXCEPT !.batch = Tail(@)]
    /\ UNCHANGED <<db, view, open, cache, ingested, refused, bounds>>

\* The audit row, the document with its evidence, and the source, whose last document it was.
EraseRow ==
    /\ request.batch # <<>> /\ Found /\ Authorized
    /\ NextRow \notin view.cited
    /\ Write(WithoutSource(WithoutDocument(Audited(view, NextRow), NextRow), NextRow))
    /\ request' = [request EXCEPT !.batch = Tail(@), !.erased = @ \cup {NextRow}]
    /\ UNCHANGED <<cache, ingested, refused, bounds>>

\* The request ends with an error: the rows before it stay in the open transaction.
Refuse(rows) ==
    /\ IF rows = view THEN UNCHANGED <<db, view, open>> ELSE Write(rows)
    /\ refused' = refused \cup {NextRow} \cup request.erased
    /\ request' = Idle
    /\ UNCHANGED <<cache, ingested, bounds>>

Forbidden == request.batch # <<>> /\ Found /\ ~Authorized /\ Refuse(view)

\* The source is cited: all statements before its deletion have been executed.
HeldByForeignKey ==
    /\ request.batch # <<>> /\ Found /\ Authorized /\ NextRow \in view.cited
    /\ Refuse(Retired(WithoutDocument(Audited(view, NextRow), NextRow), NextRow))

\* The end: one commit, then the server's embeddings are evicted.
FinishDeletion ==
    /\ request.table # "none" /\ request.batch = <<>>
    /\ Commit(view)
    /\ cache' = cache \ request.erased
    /\ request' = Idle
    /\ UNCHANGED <<ingested, refused, bounds>>

\* The server dies; at its start it rebuilds the embeddings from the documents.
Crash ==
    /\ crashes < MaxCrashes /\ crashes' = crashes + 1
    /\ view' = db /\ open' = FALSE /\ request' = Idle
    /\ cache' = db.documents
    /\ UNCHANGED <<db, ingested, refused, deletions>>

Batches == {<<e>> : e \in Evidence} \cup {<<e, f>> : e \in Evidence, f \in Evidence}

Next ==
    \/ \E e \in Evidence : Ingest(e) \/ WorkerIngest(e) \/ Cite(e)
    \/ Authenticate \/ DuplicateWebhook
    \/ \E table \in {"documents", "sources"}, batch \in Batches, member \in SUBSET Workspace :
        StartDeletion(table, batch, member)
    \/ SkipRow \/ EraseRow \/ Forbidden \/ HeldByForeignKey \/ FinishDeletion \/ Crash

Spec == Init /\ [][Next]_vars

---------------------------------------------------------------------------
(* Properties *)

(* However a deletion ends, and whoever commits what it left open, evidence  *)
(* that is gone has an audit row that was committed with its removal, and    *)
(* nothing that was derived from it, no current interval and no active route *)
(* survives it (execute_deletion, _delete_document_evidence,                 *)
(* _delete_source_evidence).                                                 *)
ErasureIsWhole ==
    /\ ingested \ db.documents \subseteq db.audited
    /\ db.derived \subseteq db.documents
    /\ db.current \cup db.routed \subseteq db.documents

\* Does not hold: A deletion that is answered with an error erases nothing (the tests
\* expect the document and no audit row after a refusal,
\* tests/test_evidence_lifecycle.py:293).  The code leaves the rows before the refused one
\* in an open transaction, which the next authenticated request commits.
RefusedErasesNothing ==
    refused \subseteq db.documents

=============================================================================
