----------------------------- MODULE Documents -----------------------------
(***************************************************************************)
(* Upload and deletion of documents (app/api/routes_documents.py), with    *)
(* everything they call: the ingestion service, the Qdrant wrapper, the    *)
(* repository, and the request-scoped database transaction of app/db.py.   *)
(*                                                                         *)
(* A document lives in two stores that no transaction spans.  Its row is   *)
(* in Postgres, where other requests see it once the transaction of the    *)
(* uploading request commits.  Its chunks are points in Qdrant, where they *)
(* can be retrieved as soon as the call that writes them is applied.       *)
(*                                                                         *)
(* One action is one stretch of a handler between two awaits that touch    *)
(* shared state.  get_db_session commits when FastAPI closes the           *)
(* dependency, which the locked version (uv.lock: fastapi 0.139.0) does    *)
(* after the response was sent: a handler answers first, commits second.   *)
(***************************************************************************)
EXTENDS Naturals

CONSTANTS
    Users,      \* users.id of the accounts
    Docs,       \* the document ids uuid4 hands out in a behaviour
    Requests,   \* slots for the requests that are served at the same time
    MaxChunks,  \* bound: the most chunks a file is split into
    None        \* no row, no object

Status == {"processing", "ready", "failed"}
Row    == [owner : Users, status : Status, chunk_count : 0 .. MaxChunks]
Point  == [document_id : Docs, owner_id : Users, chunk_index : 0 .. (MaxChunks - 1)]

ASSUME DocumentsAssumption ==
    /\ MaxChunks \in Nat
    /\ None \notin Docs \cup Users
    /\ None \notin Row

(***************************************************************************)
(* Where a request stands.  A phase is named for the call it waits for.    *)
(***************************************************************************)
IngestPhases == {"extract", "embed", "exists", "create", "index", "upsert"}
UploadPhases == IngestPhases \cup {"answer_upload", "commit_insert"}
DeletePhases == {"purge", "answer_delete", "commit_delete"}
Phases       == {"idle"} \cup UploadPhases \cup DeletePhases

(* "rejected" is 404, 413 or 415, "error" is 500.                          *)
Replies == {"none", "created", "no_content", "rejected", "error"}

(***************************************************************************)
(* What has happened to a document id so far; no part of the code, it is   *)
(* what the properties speak of.                                           *)
(*   issued     an upload drew the id                                      *)
(*   doubtful   the upload stopped waiting for an upsert Qdrant may apply  *)
(*   published  the row was committed                                      *)
(*   purged     a deletion of its points was applied                       *)
(*   removed    the deletion of its row was committed                      *)
(*   lost       the upload ended without a commit                          *)
(***************************************************************************)
Events == {"issued", "doubtful", "published", "purged", "removed", "lost"}

VARIABLES
    documents,    \* committed rows of the documents table
    collection,   \* does the Qdrant collection exist?
    points,       \* the points in the collection
    unacked,      \* points of upserts nobody waits for that may still be applied
    latePurges,   \* deletions of points nobody waits for: which document, who asked
    phase,        \* per request: where it stands
    user,         \* per request: current_user.id
    doc,          \* per request: the id of the document it handles
    row,          \* per request: the Document object in its session
    chunks,       \* per request: len(chunks) of the file it ingests
    reply,        \* per request: what its client was answered
    past          \* per document: the events so far

stores  == <<documents, collection, points, unacked, latePurges>>
request == <<phase, user, doc, row, chunks, reply>>
vars    == <<stores, request, past>>

-----------------------------------------------------------------------------

TypeOK ==
    /\ documents \in [Docs -> Row \cup {None}]
    /\ collection \in BOOLEAN
    /\ points \in SUBSET Point
    /\ unacked \in SUBSET Point
    /\ latePurges \in SUBSET (Docs \X Users)
    /\ phase \in [Requests -> Phases]
    /\ user \in [Requests -> Users \cup {None}]
    /\ doc \in [Requests -> Docs \cup {None}]
    /\ row \in [Requests -> Row \cup {None}]
    /\ chunks \in [Requests -> 0 .. MaxChunks]
    /\ reply \in [Requests -> Replies]
    /\ past \in [Docs -> SUBSET Events]

Init ==
    /\ documents = [d \in Docs |-> None]
    /\ collection = FALSE
    /\ points = {}
    /\ unacked = {}
    /\ latePurges = {}
    /\ phase = [r \in Requests |-> "idle"]
    /\ user = [r \in Requests |-> None]
    /\ doc = [r \in Requests |-> None]
    /\ row = [r \in Requests |-> None]
    /\ chunks = [r \in Requests |-> 0]
    /\ reply = [r \in Requests |-> "none"]
    /\ past = [d \in Docs |-> {}]

-----------------------------------------------------------------------------
(***************************************************************************)
(* Qdrant and the document repository.                                     *)
(***************************************************************************)

(* The points whose payload names document d.                              *)
PointsOf(d) == {p \in points : p.document_id = d}

(* The records ingest builds for n chunks, one point each.                 *)
Batch(d, u, n) ==
    {[document_id |-> d, owner_id |-> u, chunk_index |-> i] : i \in 0 .. (n - 1)}

(* Mutated form of Finds: the lookup forgets the owner.                    *)
FindsAnyOwner(u, d) == documents[d] # None

(* DocumentRepository.get_by_id finds committed rows of their owner only.  *)
Finds(u, d) == documents[d] # None /\ documents[d].owner = u

Note(d, e) == past' = [past EXCEPT ![d] = @ \cup {e}]

Goto(r, p) == phase' = [phase EXCEPT ![r] = p]

Answer(r, a) == reply' = [reply EXCEPT ![r] = a]

(* A request ends: its session is closed, its objects are dropped.         *)
EndRequest(r) ==
    /\ Goto(r, "idle")
    /\ row' = [row EXCEPT ![r] = None]
    /\ chunks' = [chunks EXCEPT ![r] = 0]
    /\ UNCHANGED <<user, doc>>

(* A call to Qdrant that raises in the client, or whose client dies, was   *)
(* refused, or it was accepted and is applied at some later time.          *)
MaybeUpsertedLater(r) ==
    \/ UNCHANGED <<unacked, past>>
    \/ /\ unacked' = unacked \cup Batch(doc[r], user[r], chunks[r])
       /\ Note(doc[r], "doubtful")

MaybePurgedLater(r) ==
    latePurges' \in {latePurges, latePurges \cup {<<doc[r], user[r]>>}}

-----------------------------------------------------------------------------
(***************************************************************************)
(* POST /documents                                                         *)
(***************************************************************************)

(* 415 or 413, or 500 when the INSERT raises: nothing was written.         *)
RejectUpload(r, u) ==
    /\ phase[r] = "idle"
    /\ \E a \in {"rejected", "error"} : Answer(r, a)
    /\ user' = [user EXCEPT ![r] = u]
    /\ doc' = [doc EXCEPT ![r] = None]
    /\ UNCHANGED <<stores, phase, row, chunks, past>>

(* The file is accepted; a row with a fresh id and status PROCESSING is    *)
(* inserted, which only the request's own transaction sees.                *)
UploadDocument(r, u, d) ==
    /\ phase[r] = "idle"
    /\ past[d] = {}
    /\ Goto(r, "extract")
    /\ user' = [user EXCEPT ![r] = u]
    /\ doc' = [doc EXCEPT ![r] = d]
    /\ row' = [row EXCEPT ![r] = [owner |-> u, status |-> "processing", chunk_count |-> 0]]
    /\ Answer(r, "none")
    /\ Note(d, "issued")
    /\ UNCHANGED <<stores, chunks>>

(* Mutated forms of Conclude: the count is one too many; the except clause *)
(* forgets the status; the status was set before the try block.            *)
ConcludeOffByOne(r, s, n) ==
    /\ Goto(r, "answer_upload")
    /\ row' = [row EXCEPT ![r].status = s, ![r].chunk_count = n + 1]

ConcludeNothing(r, s, n) == Goto(r, "answer_upload") /\ UNCHANGED row

ConcludeReady(r, s, n) ==
    /\ Goto(r, "answer_upload")
    /\ row' = [row EXCEPT ![r].status = "ready", ![r].chunk_count = chunks[r]]

(* The handler's try block is over: the object takes its final status.     *)
Conclude(r, s, n) ==
    /\ Goto(r, "answer_upload")
    /\ row' = [row EXCEPT ![r].status = s, ![r].chunk_count = n]

(* extract_text and chunk_text; a file with no text has nothing to index.  *)
ExtractAndChunk(r) ==
    /\ phase[r] = "extract"
    /\ \E n \in 0 .. MaxChunks :
        \/ n = 0 /\ Conclude(r, "ready", 0) /\ UNCHANGED chunks
        \/ n > 0 /\ Goto(r, "embed") /\ chunks' = [chunks EXCEPT ![r] = n] /\ UNCHANGED row
    /\ UNCHANGED <<stores, user, doc, reply, past>>

EmbedChunks(r) ==
    /\ phase[r] = "embed"
    /\ Goto(r, "exists")
    /\ UNCHANGED <<stores, user, doc, row, chunks, reply, past>>

(* ensure_collection, first await: collection_exists.                      *)
CheckCollection(r) ==
    /\ phase[r] = "exists"
    /\ Goto(r, IF collection THEN "upsert" ELSE "create")
    /\ UNCHANGED <<stores, user, doc, row, chunks, reply, past>>

(* ensure_collection, second await: create_collection, which raises when   *)
(* another upload created the collection since the check (IngestRaises).   *)
CreateCollection(r) ==
    /\ phase[r] = "create"
    /\ ~collection
    /\ collection' = TRUE
    /\ Goto(r, "index")
    /\ UNCHANGED <<documents, points, unacked, latePurges>>
    /\ UNCHANGED <<user, doc, row, chunks, reply, past>>

(* ensure_collection, third and fourth await: the two payload indexes.     *)
CreatePayloadIndexes(r) ==
    /\ phase[r] = "index"
    /\ Goto(r, "upsert")
    /\ UNCHANGED <<stores, user, doc, row, chunks, reply, past>>

(* Mutated forms of UpsertChunks: the call does not wait for the points to *)
(* be applied; something after the call still raises.                      *)
UpsertWithoutWaiting(r) ==
    /\ phase[r] = "upsert"
    /\ unacked' = unacked \cup Batch(doc[r], user[r], chunks[r])
    /\ Conclude(r, "ready", chunks[r])
    /\ UNCHANGED <<documents, collection, points, latePurges>>
    /\ UNCHANGED <<user, doc, chunks, reply, past>>

UpsertThenRaises(r) ==
    /\ phase[r] = "upsert"
    /\ points' = points \cup Batch(doc[r], user[r], chunks[r])
    /\ \/ Conclude(r, "ready", chunks[r])
       \/ Conclude(r, "failed", 0)
    /\ UNCHANGED <<documents, collection, unacked, latePurges>>
    /\ UNCHANGED <<user, doc, chunks, reply, past>>

(* upsert_chunks: all points of the document in one call.                  *)
UpsertChunks(r) ==
    /\ phase[r] = "upsert"
    /\ points' = points \cup Batch(doc[r], user[r], chunks[r])
    /\ Conclude(r, "ready", chunks[r])
    /\ UNCHANGED <<documents, collection, unacked, latePurges>>
    /\ UNCHANGED <<user, doc, chunks, reply, past>>

(* Mutated form of IngestRaises: an upsert that raised is retried forever. *)
IngestRetries(r) ==
    /\ phase[r] \in IngestPhases
    /\ IF phase[r] = "upsert"
       THEN Goto(r, "exists") /\ UNCHANGED row
       ELSE Conclude(r, "failed", 0)
    /\ UNCHANGED <<stores, user, doc, chunks, reply, past>>

(* Any step of ingest raises; the handler catches it and marks the         *)
(* document FAILED.  A create or an upsert that raised may have effect.    *)
IngestRaises(r) ==
    /\ phase[r] \in IngestPhases
    /\ Conclude(r, "failed", 0)
    /\ collection' \in IF phase[r] = "create" THEN {collection, TRUE} ELSE {collection}
    /\ IF phase[r] = "upsert"
       THEN MaybeUpsertedLater(r)
       ELSE UNCHANGED <<unacked, past>>
    /\ UNCHANGED <<documents, points, latePurges, user, doc, chunks, reply>>

AnswerUpload(r) ==
    /\ phase[r] = "answer_upload"
    /\ Answer(r, "created")
    /\ Goto(r, "commit_insert")
    /\ UNCHANGED <<stores, user, doc, row, chunks, past>>

-----------------------------------------------------------------------------
(***************************************************************************)
(* DELETE /documents/{document_id}                                         *)
(***************************************************************************)

DocumentNotFound(r, u, d) ==
    /\ phase[r] = "idle"
    /\ ~Finds(u, d)
    /\ Answer(r, "rejected")
    /\ user' = [user EXCEPT ![r] = u]
    /\ doc' = [doc EXCEPT ![r] = None]
    /\ UNCHANGED <<stores, phase, row, chunks, past>>

DeleteDocument(r, u, d) ==
    /\ phase[r] = "idle"
    /\ Finds(u, d)
    /\ Goto(r, "purge")
    /\ user' = [user EXCEPT ![r] = u]
    /\ doc' = [doc EXCEPT ![r] = d]
    /\ row' = [row EXCEPT ![r] = documents[d]]
    /\ Answer(r, "none")
    /\ UNCHANGED <<stores, chunks, past>>

(* vector_store.delete_document.  Qdrant answers 404 for a collection that *)
(* does not exist, so the call can only succeed once there is one.         *)
PurgeChunks(r) ==
    /\ phase[r] = "purge"
    /\ collection
    /\ points' = points \ PointsOf(doc[r])
    /\ Note(doc[r], "purged")
    /\ Goto(r, "answer_delete")
    /\ UNCHANGED <<documents, collection, unacked, latePurges>>
    /\ UNCHANGED <<user, doc, row, chunks, reply>>

(* Mutated form of PurgeRaises: the error is swallowed.                    *)
PurgeErrorIgnored(r) ==
    /\ phase[r] = "purge"
    /\ Goto(r, "answer_delete")
    /\ UNCHANGED <<stores, user, doc, row, chunks, reply, past>>

PurgeRaises(r) ==
    /\ phase[r] = "purge"
    /\ IF collection THEN MaybePurgedLater(r) ELSE UNCHANGED latePurges
    /\ Answer(r, "error")
    /\ EndRequest(r)
    /\ UNCHANGED <<documents, collection, points, unacked, past>>

(* session.delete only marks the object; the DELETE is part of the commit. *)
AnswerDelete(r) ==
    /\ phase[r] = "answer_delete"
    /\ Answer(r, "no_content")
    /\ Goto(r, "commit_delete")
    /\ UNCHANGED <<stores, user, doc, row, chunks, past>>

-----------------------------------------------------------------------------
(***************************************************************************)
(* The end of a request: get_db_session after the response, and faults.    *)
(***************************************************************************)

(* Mutated form of CommitInsert: the session is closed without a commit.   *)
CloseWithoutCommit(r) ==
    /\ phase[r] = "commit_insert"
    /\ EndRequest(r)
    /\ UNCHANGED <<stores, reply, past>>

CommitInsert(r) ==
    /\ phase[r] = "commit_insert"
    /\ documents' = [documents EXCEPT ![doc[r]] = row[r]]
    /\ Note(doc[r], "published")
    /\ EndRequest(r)
    /\ UNCHANGED <<collection, points, unacked, latePurges, reply>>

(* A row another request deleted meanwhile is no error: SQLAlchemy warns.  *)
CommitDelete(r) ==
    /\ phase[r] = "commit_delete"
    /\ documents' = [documents EXCEPT ![doc[r]] = None]
    /\ Note(doc[r], "removed")
    /\ EndRequest(r)
    /\ UNCHANGED <<collection, points, unacked, latePurges, reply>>

(* The commit raises and is rolled back; the client has its answer.        *)
CommitFails(r) ==
    /\ phase[r] \in {"commit_insert", "commit_delete"}
    /\ IF phase[r] = "commit_insert" THEN Note(doc[r], "lost") ELSE UNCHANGED past
    /\ EndRequest(r)
    /\ UNCHANGED <<stores, reply>>

(* The process dies or the task is cancelled: CancelledError passes both   *)
(* "except Exception" clauses, so the transaction is dropped as it is.  A  *)
(* call that was under way may still reach Qdrant.                         *)
Abandon(r) ==
    /\ phase[r] # "idle"
    /\ collection' \in IF phase[r] = "create" THEN {collection, TRUE} ELSE {collection}
    /\ IF phase[r] \in UploadPhases
       THEN \/ UNCHANGED unacked /\ Note(doc[r], "lost")
            \/ /\ phase[r] = "upsert"
               /\ unacked' = unacked \cup Batch(doc[r], user[r], chunks[r])
               /\ past' = [past EXCEPT ![doc[r]] = @ \cup {"lost", "doubtful"}]
       ELSE UNCHANGED <<unacked, past>>
    /\ IF phase[r] = "purge" /\ collection
       THEN MaybePurgedLater(r)
       ELSE UNCHANGED latePurges
    /\ EndRequest(r)
    /\ UNCHANGED <<documents, points, reply>>

(* Qdrant applies a call whose client gave up, or never will.              *)
LateUpsert(d) ==
    /\ {p \in unacked : p.document_id = d} # {}
    /\ points' = points \cup {p \in unacked : p.document_id = d}
    /\ unacked' = {p \in unacked : p.document_id # d}
    /\ UNCHANGED <<documents, collection, latePurges, request, past>>

(* Qdrant knows the document it was told to purge, not who asked for it.   *)
LatePurge(d) ==
    /\ \E q \in latePurges : q[1] = d /\ latePurges' = latePurges \ {q}
    /\ points' = points \ PointsOf(d)
    /\ Note(d, "purged")
    /\ UNCHANGED <<documents, collection, unacked, request>>

-----------------------------------------------------------------------------

Start(r) ==
    \E u \in Users :
        \/ RejectUpload(r, u)
        \/ \E d \in Docs : \/ UploadDocument(r, u, d)
                           \/ DeleteDocument(r, u, d)
                           \/ DocumentNotFound(r, u, d)

(* What a request does by itself once it was accepted.                     *)
Continue(r) ==
    \/ ExtractAndChunk(r) \/ EmbedChunks(r)
    \/ CheckCollection(r) \/ CreateCollection(r) \/ CreatePayloadIndexes(r)
    \/ UpsertChunks(r) \/ IngestRaises(r) \/ AnswerUpload(r)
    \/ PurgeChunks(r) \/ PurgeRaises(r) \/ AnswerDelete(r)
    \/ CommitInsert(r) \/ CommitDelete(r) \/ CommitFails(r)

Next ==
    \/ \E r \in Requests : Start(r) \/ Continue(r) \/ Abandon(r)
    \/ \E d \in Docs : LateUpsert(d) \/ LatePurge(d)

Spec == Init /\ [][Next]_vars

(* Every call a request waits for returns or raises, and the event loop    *)
(* resumes a handler whose call is over.  The clients of Qdrant and of the *)
(* embedding model have timeouts; that of Postgres has none: that it does  *)
(* answer a statement and a COMMIT is assumed of it.                       *)
FairSpec == Spec /\ \A r \in Requests : WF_vars(Continue(r))

-----------------------------------------------------------------------------
(***************************************************************************)
(* Properties.                                                             *)
(***************************************************************************)

Happened(e, d) == e \in past[d]

(* A document listed READY with n chunks has exactly these n chunks in     *)
(* Qdrant, under its owner's id, unless a deletion already took them: the  *)
(* upsert is over before the row says READY, and no interleaving of other  *)
(* requests, crash or lost answer separates the two (routes_documents.py   *)
(* upload_document, ingestion.py ingest).                                  *)
ReadyMeansIndexed ==
    \A d \in Docs :
        (documents[d] # None /\ documents[d].status = "ready" /\ ~Happened("purged", d))
            => PointsOf(d) = Batch(d, documents[d].owner, documents[d].chunk_count)

(* No committed row says PROCESSING, whatever fails or dies: the status is *)
(* written in the transaction that inserts the row, so there is nothing a  *)
(* restart would have to repair (routes_documents.py upload_document,      *)
(* db.py get_db_session).                                                  *)
NoRowStuckProcessing ==
    \A d \in Docs : documents[d] # None => documents[d].status # "processing"

(* A document listed FAILED has no chunk retrieval could return, also when *)
(* it failed because another upload created the collection first; only an  *)
(* upsert that was given up may leave some (ingestion.py ingest,           *)
(* vectorstore.py ensure_collection).                                      *)
FailedNotRetrievable ==
    \A d \in Docs :
        (documents[d] # None /\ documents[d].status = "failed" /\ ~Happened("doubtful", d))
            => PointsOf(d) = {}

(* Once a client was answered 204, or the row is gone, no chunk of the     *)
(* document is retrievable, then or later, even if the commit behind the   *)
(* 204 is lost; the exception is again a given-up upsert                   *)
(* (routes_documents.py delete_document).                                  *)
DeletedNotRetrievable ==
    \A d \in Docs :
        (\/ Happened("removed", d)
         \/ \E r \in Requests : reply[r] = "no_content" /\ doc[r] = d)
            => PointsOf(d) = {} \/ Happened("doubtful", d)

(* Chunks without a row come from three sources only: an upload that has   *)
(* not committed yet, one that never will, and a given-up upsert.  A       *)
(* deletion never leaves any (the two stores of upload_document and        *)
(* delete_document).                                                       *)
OrphansExplained ==
    \A p \in points :
        \/ documents[p.document_id] # None
        \/ \E r \in Requests :
              doc[r] = p.document_id /\ phase[r] \in {"answer_upload", "commit_insert"}
        \/ Happened("lost", p.document_id)
        \/ Happened("doubtful", p.document_id)

(* Chunks disappear only by a deletion their owner asked for: the filter   *)
(* sent to Qdrant names the document alone, the owner is checked by the    *)
(* lookup before it, also when Qdrant applies it after the request that    *)
(* asked is gone (vectorstore.py delete_document, repositories.py          *)
(* get_by_id).                                                             *)
OnlyOwnerPurges ==
    [][\A p \in points \ points' :
          \/ <<p.document_id, p.owner_id>> \in latePurges
          \/ \E r \in Requests :
                phase[r] = "purge" /\ doc[r] = p.document_id /\ user[r] = p.owner_id]_vars

(* Every accepted upload comes to an end its owner can see: the document   *)
(* is listed, or its transaction is gone for good (routes_documents.py     *)
(* upload_document, under the fairness of FairSpec).                       *)
EveryUploadSettles ==
    \A d \in Docs :
        Happened("issued", d) ~> (Happened("published", d) \/ Happened("lost", d))

(* The README's "answers grounded in your own content with citations back  *)
(* to the source file" (README.md:7): what retrieval can return belongs to *)
(* a document that is listed, at least while no request is under way.      *)
RetrievableIsListed ==
    (\A r \in Requests : phase[r] = "idle")
        => \A p \in points : documents[p.document_id] # None

(***************************************************************************)
(* Refinement: how the two stores show a document to its owner.            *)
(***************************************************************************)
StageOf(d) ==
    CASE Happened("doubtful", d) -> "doubtful"
      [] ~Happened("doubtful", d) /\ documents[d] = None ->
            IF Happened("removed", d) THEN "deleted" ELSE "unlisted"
      [] ~Happened("doubtful", d) /\ documents[d] # None ->
            IF documents[d].status = "ready" /\ Happened("purged", d)
            THEN "withdrawn" ELSE documents[d].status

SizeOf(d) == IF documents[d] = None \/ Happened("doubtful", d)
             THEN 0 ELSE documents[d].chunk_count

Lifecycle ==
    INSTANCE DocumentLifecycle WITH
        stage <- [d \in Docs |-> StageOf(d)],
        size <- [d \in Docs |-> SizeOf(d)],
        retrievable <- [d \in Docs |-> {p.chunk_index : p \in PointsOf(d)}]

(* Upload and deletion keep the promise of DocumentLifecycle: every step   *)
(* of theirs is one of its steps, or none.                                 *)
KeepsLifecycle == Lifecycle!Spec
=============================================================================
