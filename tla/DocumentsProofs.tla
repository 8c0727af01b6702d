-------------------------- MODULE DocumentsProofs --------------------------
(***************************************************************************)
(* Proofs about Documents, for every set of users, documents and request   *)
(* slots and every bound on the chunks of a file.                          *)
(*                                                                         *)
(* The properties of Documents speak of committed rows and points.  They   *)
(* are not inductive: that a row fits its points when it is committed is   *)
(* decided earlier, while it is an object in the session of one request.   *)
(* IInv follows a document through that request and through its history.   *)
(***************************************************************************)
EXTENDS Documents, TLAPS

(* A request that is under way has its user, its document and its object.  *)
RequestOK ==
    \A r \in Requests : phase[r] # "idle" =>
        /\ user[r] \in Users
        /\ doc[r] \in Docs
        /\ row[r] \in Row
        /\ row[r].owner = user[r]

(* Row w tells the truth about the points of document d.                   *)
Honest(d, w) ==
    /\ w.status # "processing"
    /\ w.status = "ready" =>
          ~Happened("doubtful", d) /\ PointsOf(d) = Batch(d, w.owner, w.chunk_count)
    /\ w.status = "failed" => Happened("doubtful", d) \/ PointsOf(d) = {}

(* A document in the hands of its uploading request has no other past, and *)
(* no points before the upsert.                                            *)
UploadOK(r, d) ==
    /\ Happened("issued", d)
    /\ past[d] \subseteq {"issued", "doubtful"}
    /\ phase[r] \in IngestPhases => PointsOf(d) = {} /\ ~Happened("doubtful", d)
    /\ phase[r] \in {"answer_upload", "commit_insert"} => Honest(d, row[r])

DeleteOK(r, d) ==
    /\ Happened("published", d)
    /\ phase[r] \in {"answer_delete", "commit_delete"} => Happened("purged", d)

RequestsOK ==
    \A r \in Requests, d \in Docs : doc[r] = d =>
        /\ phase[r] \in UploadPhases => UploadOK(r, d)
        /\ phase[r] \in DeletePhases => DeleteOK(r, d)
        /\ reply[r] = "no_content" => Happened("purged", d)

(* Only one request uploads a document.                                    *)
SoleUploader ==
    \A r, s \in Requests :
        (phase[r] \in UploadPhases /\ phase[s] \in UploadPhases /\ doc[r] = doc[s]) => r = s

(* The history of a document and its two stores.                           *)
DocumentOK(d) ==
    /\ past[d] = {} => PointsOf(d) = {}
    /\ documents[d] # None =>
          /\ Happened("published", d)
          /\ documents[d].status # "processing"
          /\ ~Happened("purged", d) => Honest(d, documents[d])
          /\ documents[d].status = "failed" => PointsOf(d) = {} \/ Happened("doubtful", d)
    /\ documents[d] = None /\ Happened("published", d) => Happened("removed", d)
    /\ Happened("removed", d) => Happened("purged", d)
    /\ Happened("purged", d) =>
          Happened("published", d) /\ (PointsOf(d) = {} \/ Happened("doubtful", d))
    /\ \A q \in latePurges : q[1] = d => Happened("published", d)
    /\ \A p \in unacked : p.document_id = d => Happened("doubtful", d)

DocumentsOK == \A d \in Docs : DocumentOK(d)

(* An id that was drawn was committed, was lost, or is being uploaded.     *)
Accounted ==
    \A d \in Docs : past[d] # {} =>
        \/ Happened("published", d) \/ Happened("lost", d)
        \/ \E r \in Requests : doc[r] = d /\ phase[r] \in UploadPhases

IInv ==
    /\ TypeOK
    /\ RequestOK
    /\ RequestsOK
    /\ SoleUploader
    /\ DocumentsOK
    /\ Accounted

-----------------------------------------------------------------------------
(***************************************************************************)
(* What the calls to Qdrant do to the points of each document.             *)
(***************************************************************************)

LEMMA BatchType ==
    ASSUME NEW d \in Docs, NEW u \in Users, NEW n \in 0 .. MaxChunks
    PROVE  Batch(d, u, n) \subseteq Point
<1>1. SUFFICES ASSUME NEW i \in 0 .. (n - 1)
               PROVE  [document_id |-> d, owner_id |-> u, chunk_index |-> i] \in Point
  BY DEF Batch
<1>2. i \in 0 .. (MaxChunks - 1)
  BY DocumentsAssumption
<1> QED
  BY <1>2 DEF Point

LEMMA PointsStay ==
    ASSUME points' = points
    PROVE  \A d \in Docs : PointsOf(d)' = PointsOf(d)
BY DEF PointsOf

LEMMA PointsUpserted ==
    ASSUME NEW d, NEW u, NEW n, points' = points \cup Batch(d, u, n)
    PROVE  \A e \in Docs :
              PointsOf(e)' = IF e = d THEN PointsOf(e) \cup Batch(d, u, n) ELSE PointsOf(e)
BY DEF PointsOf, Batch

LEMMA PointsPurged ==
    ASSUME NEW d, points' = points \ PointsOf(d)
    PROVE  \A e \in Docs : PointsOf(e)' = IF e = d THEN {} ELSE PointsOf(e)
BY DEF PointsOf

LEMMA PointsLate ==
    ASSUME NEW d, points' = points \cup {p \in unacked : p.document_id = d}
    PROVE  \A e \in Docs : e # d => PointsOf(e)' = PointsOf(e)
BY DEF PointsOf

-----------------------------------------------------------------------------
(***************************************************************************)
(* Types.                                                                  *)
(***************************************************************************)

LEMMA ConcludedRow ==
    ASSUME NEW w \in Row
    PROVE  [w EXCEPT !.status = "failed", !.chunk_count = 0] \in Row
<1>1. 0 \in 0 .. MaxChunks /\ "failed" \in Status
  BY DocumentsAssumption DEF Status
<1> QED
  BY <1>1 DEF Row

LEMMA InitTypes == Init => TypeOK /\ RequestOK
<1> SUFFICES ASSUME Init PROVE TypeOK /\ RequestOK
  OBVIOUS
<1>1. 0 \in 0 .. MaxChunks
  BY DocumentsAssumption
<1>2. RequestOK
  BY DEF Init, RequestOK
<1>3. documents \in [Docs -> Row \cup {None}] /\ past \in [Docs -> SUBSET Events]
  BY DEF Init
<1>4. points \in SUBSET Point /\ unacked \in SUBSET Point /\ latePurges \in SUBSET (Docs \X Users)
  BY DEF Init
<1>5. phase \in [Requests -> Phases] /\ reply \in [Requests -> Replies]
  BY DEF Init, Phases, Replies
<1>6. /\ user \in [Requests -> Users \cup {None}]
      /\ doc \in [Requests -> Docs \cup {None}]
      /\ row \in [Requests -> Row \cup {None}]
      /\ chunks \in [Requests -> 0 .. MaxChunks]
  BY <1>1 DEF Init
<1> QED
  BY <1>2, <1>3, <1>4, <1>5, <1>6 DEF TypeOK, Init

LEMMA NextTypes == TypeOK /\ RequestOK /\ [Next]_vars => TypeOK' /\ RequestOK'
<1> SUFFICES ASSUME TypeOK, RequestOK, [Next]_vars
             PROVE  TypeOK' /\ RequestOK'
  OBVIOUS
<1> USE DocumentsAssumption DEF TypeOK, RequestOK, stores, request, vars,
        Goto, Answer, Note, EndRequest, Conclude, Events, Phases, Replies,
        UploadPhases, DeletePhases, IngestPhases, Row, Status
<1>1. ASSUME NEW r \in Requests, NEW u \in Users, RejectUpload(r, u)
      PROVE  TypeOK' /\ RequestOK'
  BY <1>1 DEF RejectUpload
<1>2. ASSUME NEW r \in Requests, NEW u \in Users, NEW d \in Docs, UploadDocument(r, u, d)
      PROVE  TypeOK' /\ RequestOK'
  BY <1>2 DEF UploadDocument
<1>3. ASSUME NEW r \in Requests, NEW u \in Users, NEW d \in Docs, DeleteDocument(r, u, d)
      PROVE  TypeOK' /\ RequestOK'
  BY <1>3 DEF DeleteDocument, Finds
<1>4. ASSUME NEW r \in Requests, NEW u \in Users, NEW d \in Docs, DocumentNotFound(r, u, d)
      PROVE  TypeOK' /\ RequestOK'
  BY <1>4 DEF DocumentNotFound
<1>5. ASSUME NEW r \in Requests, ExtractAndChunk(r)
      PROVE  TypeOK' /\ RequestOK'
  BY <1>5 DEF ExtractAndChunk
<1>6. ASSUME NEW r \in Requests, EmbedChunks(r) \/ CheckCollection(r)
                \/ CreateCollection(r) \/ CreatePayloadIndexes(r)
      PROVE  TypeOK' /\ RequestOK'
  BY <1>6 DEF EmbedChunks, CheckCollection, CreateCollection, CreatePayloadIndexes
<1>7. ASSUME NEW r \in Requests, UpsertChunks(r)
      PROVE  TypeOK' /\ RequestOK'
  <2>1. phase[r] = "upsert" /\ doc[r] \in Docs /\ user[r] \in Users /\ row[r] \in Row
    BY <1>7 DEF UpsertChunks
  <2>2. Batch(doc[r], user[r], chunks[r]) \subseteq Point
    BY <2>1, BatchType
  <2>3. points' \in SUBSET Point
    BY <1>7, <2>2 DEF UpsertChunks
  <2>4. row' \in [Requests -> Row \cup {None}] /\ RequestOK'
    BY <1>7, <2>1 DEF UpsertChunks
  <2> QED
    BY <1>7, <2>3, <2>4 DEF UpsertChunks
<1>8. ASSUME NEW r \in Requests, IngestRaises(r)
      PROVE  TypeOK' /\ RequestOK'
  <2>1. phase[r] # "idle" /\ doc[r] \in Docs /\ user[r] \in Users /\ row[r] \in Row
    BY <1>8 DEF IngestRaises
  <2>2. Batch(doc[r], user[r], chunks[r]) \subseteq Point
    BY <2>1, BatchType
  <2>3. unacked' \in SUBSET Point
    BY <1>8, <2>2 DEF IngestRaises, MaybeUpsertedLater
  <2>4. past' \in [Docs -> SUBSET Events]
    BY <1>8, <2>1 DEF IngestRaises, MaybeUpsertedLater
  <2>5. [row[r] EXCEPT !.status = "failed", !.chunk_count = 0] \in Row
    BY <2>1, ConcludedRow
  <2>6. row' = [row EXCEPT ![r] = [row[r] EXCEPT !.status = "failed", !.chunk_count = 0]]
    BY <1>8 DEF IngestRaises
  <2>7. row' \in [Requests -> Row \cup {None}]
    BY <2>5, <2>6
  <2>8. RequestOK'
    BY <1>8, <2>1, <2>5, <2>6 DEF IngestRaises
  <2>9. collection' \in BOOLEAN /\ phase' \in [Requests -> Phases]
    BY <1>8 DEF IngestRaises
  <2> QED
    BY <1>8, <2>3, <2>4, <2>7, <2>8, <2>9 DEF IngestRaises
<1>9. ASSUME NEW r \in Requests, AnswerUpload(r) \/ AnswerDelete(r)
      PROVE  TypeOK' /\ RequestOK'
  BY <1>9 DEF AnswerUpload, AnswerDelete
<1>10. ASSUME NEW r \in Requests, PurgeChunks(r)
       PROVE  TypeOK' /\ RequestOK'
  BY <1>10 DEF PurgeChunks
<1>11. ASSUME NEW r \in Requests, PurgeRaises(r)
       PROVE  TypeOK' /\ RequestOK'
  BY <1>11 DEF PurgeRaises, MaybePurgedLater
<1>12. ASSUME NEW r \in Requests, CommitInsert(r)
       PROVE  TypeOK' /\ RequestOK'
  BY <1>12 DEF CommitInsert
<1>13. ASSUME NEW r \in Requests, CommitDelete(r)
       PROVE  TypeOK' /\ RequestOK'
  BY <1>13 DEF CommitDelete
<1>14. ASSUME NEW r \in Requests, CommitFails(r)
       PROVE  TypeOK' /\ RequestOK'
  BY <1>14 DEF CommitFails
<1>15. ASSUME NEW r \in Requests, Abandon(r)
       PROVE  TypeOK' /\ RequestOK'
  <2>1. doc[r] \in Docs /\ user[r] \in Users
    BY <1>15 DEF Abandon
  <2>2. Batch(doc[r], user[r], chunks[r]) \subseteq Point
    BY <2>1, BatchType
  <2>3. unacked' \in SUBSET Point /\ past' \in [Docs -> SUBSET Events]
    BY <1>15, <2>2 DEF Abandon
  <2>4. latePurges' \in SUBSET (Docs \X Users)
    BY <1>15, <2>1 DEF Abandon, MaybePurgedLater
  <2>5. RequestOK'
    BY <1>15 DEF Abandon
  <2>6. collection' \in BOOLEAN /\ phase' \in [Requests -> Phases]
    BY <1>15 DEF Abandon
  <2>7. row' \in [Requests -> Row \cup {None}] /\ chunks' \in [Requests -> 0 .. MaxChunks]
    BY <1>15 DEF Abandon
  <2> QED
    BY <1>15, <2>3, <2>4, <2>5, <2>6, <2>7 DEF Abandon
<1>16. ASSUME NEW d \in Docs, LateUpsert(d) \/ LatePurge(d)
       PROVE  TypeOK' /\ RequestOK'
  BY <1>16 DEF LateUpsert, LatePurge
<1>17. CASE UNCHANGED vars
  BY <1>17
<1> QED
  BY <1>1, <1>2, <1>3, <1>4, <1>5, <1>6, <1>7, <1>8, <1>9, <1>10, <1>11, <1>12, <1>13,
     <1>14, <1>15, <1>16, <1>17 DEF Next, Start, Continue

(* Every variable keeps its type: documents holds rows, Qdrant holds       *)
(* points, and what a request holds fits the handler it is in.             *)
THEOREM TypeCorrect == Spec => []TypeOK
<1>1. Init => TypeOK /\ RequestOK
  BY InitTypes
<1>2. TypeOK /\ RequestOK /\ [Next]_vars => (TypeOK /\ RequestOK)'
  BY NextTypes
<1> QED
  BY <1>1, <1>2, PTL DEF Spec

-----------------------------------------------------------------------------
LEMMA UpsertEffect ==
    ASSUME NEW r \in Requests, UpsertChunks(r), PointsOf(doc[r]) = {}
    PROVE  \A e \in Docs :
              PointsOf(e)' = IF e = doc[r] THEN Batch(e, user[r], chunks[r]) ELSE PointsOf(e)
<1>1. PICK d, u, n : d = doc[r] /\ u = user[r] /\ n = chunks[r]
  OBVIOUS
<1>2. points' = points \cup Batch(d, u, n)
  BY <1>1 DEF UpsertChunks
<1>3. PointsOf(d) = {}
  BY <1>1
<1> QED
  BY <1>1, <1>2, <1>3, PointsUpserted

LEMMA PurgeEffect ==
    ASSUME NEW r \in Requests, PurgeChunks(r)
    PROVE  \A e \in Docs : PointsOf(e)' = IF e = doc[r] THEN {} ELSE PointsOf(e)
<1>1. PICK d : d = doc[r]
  OBVIOUS
<1>2. points' = points \ PointsOf(d)
  BY <1>1 DEF PurgeChunks
<1> QED
  BY <1>1, <1>2, PointsPurged

LEMMA EmptyBatch == \A d, u : Batch(d, u, 0) = {}
BY DEF Batch

LEMMA NextKeeps == IInv /\ [Next]_vars => IInv'
<1> SUFFICES ASSUME IInv, [Next]_vars PROVE IInv'
  OBVIOUS
<1>a. TypeOK' /\ RequestOK'
  BY NextTypes DEF IInv
<1> USE DocumentsAssumption DEF IInv, TypeOK, RequestOK, stores, request, vars,
        Goto, Answer, Note, Phases,
        UploadPhases, DeletePhases, IngestPhases, Happened, UploadOK, DeleteOK, Honest, DocumentOK, DocumentsOK, RequestsOK, SoleUploader, Accounted
<1>1. ASSUME NEW r \in Requests, NEW u \in Users, RejectUpload(r, u)
      PROVE  (RequestsOK /\ SoleUploader /\ DocumentsOK /\ Accounted)'
  <2>1. RequestsOK'
    BY <1>1, PointsStay DEF RejectUpload
  <2>2. SoleUploader'
    BY <1>1, PointsStay DEF RejectUpload
  <2>3. DocumentsOK'
    BY <1>1, PointsStay DEF RejectUpload
  <2>4. Accounted'
    BY <1>1, PointsStay DEF RejectUpload
  <2> QED
    BY <2>1, <2>2, <2>3, <2>4
<1>2. ASSUME NEW r \in Requests, NEW u \in Users, NEW d \in Docs, DocumentNotFound(r, u, d)
      PROVE  (RequestsOK /\ SoleUploader /\ DocumentsOK /\ Accounted)'
  <2>1. RequestsOK'
    BY <1>2, PointsStay DEF DocumentNotFound
  <2>2. SoleUploader'
    BY <1>2, PointsStay DEF DocumentNotFound
  <2>3. DocumentsOK'
    BY <1>2, PointsStay DEF DocumentNotFound
  <2>4. Accounted'
    BY <1>2, PointsStay DEF DocumentNotFound
  <2> QED
    BY <2>1, <2>2, <2>3, <2>4
<1>3. ASSUME NEW r \in Requests, NEW u \in Users, NEW d \in Docs, UploadDocument(r, u, d)
      PROVE  (RequestsOK /\ SoleUploader /\ DocumentsOK /\ Accounted)'
  <2>1. RequestsOK'
    BY <1>3, PointsStay DEF UploadDocument
  <2>2. SoleUploader'
    BY <1>3, PointsStay DEF UploadDocument
  <2>3. DocumentsOK'
    BY <1>3, PointsStay DEF UploadDocument
  <2>4. Accounted'
    BY <1>3, PointsStay DEF UploadDocument
  <2> QED
    BY <2>1, <2>2, <2>3, <2>4
<1>4. ASSUME NEW r \in Requests, NEW u \in Users, NEW d \in Docs, DeleteDocument(r, u, d)
      PROVE  (RequestsOK /\ SoleUploader /\ DocumentsOK /\ Accounted)'
  <2>1. RequestsOK'
    BY <1>4, PointsStay DEF DeleteDocument, Finds
  <2>2. SoleUploader'
    BY <1>4, PointsStay DEF DeleteDocument, Finds
  <2>3. DocumentsOK'
    BY <1>4, PointsStay DEF DeleteDocument, Finds
  <2>4. Accounted'
    BY <1>4, PointsStay DEF DeleteDocument, Finds
  <2> QED
    BY <2>1, <2>2, <2>3, <2>4
<1>5. ASSUME NEW r \in Requests, ExtractAndChunk(r)
      PROVE  (RequestsOK /\ SoleUploader /\ DocumentsOK /\ Accounted)'
  <2>1. RequestsOK'
    <3>1. CASE Conclude(r, "ready", 0) /\ UNCHANGED chunks
      <4>1. row'[r].status = "ready" /\ row'[r].chunk_count = 0
        BY <1>5, <3>1 DEF ExtractAndChunk, Conclude
      <4>2. \A d \in Docs : Batch(d, row'[r].owner, row'[r].chunk_count) = {}
        BY <4>1, EmptyBatch
      <4>3. \A d \in Docs : doc[r] = d => Honest(d, row[r])'
        <5>1. UNCHANGED <<points, past, doc>> /\ phase[r] = "extract"
          BY <1>5 DEF ExtractAndChunk
        <5>2. \A d \in Docs : doc[r] = d => PointsOf(d)' = {} /\ ~Happened("doubtful", d)'
          BY <5>1, PointsStay
        <5> QED
          BY <4>1, <4>2, <5>1, <5>2
      <4> QED
        BY <1>5, <3>1, <4>3, PointsStay DEF ExtractAndChunk, Conclude
    <3>2. CASE Goto(r, "embed") /\ UNCHANGED row
      BY <1>5, <3>2, PointsStay DEF ExtractAndChunk
    <3> QED
      BY <1>5, <3>1, <3>2 DEF ExtractAndChunk
  <2>2. SoleUploader'
    BY <1>5, PointsStay DEF ExtractAndChunk, Conclude
  <2>3. DocumentsOK'
    BY <1>5, PointsStay DEF ExtractAndChunk, Conclude
  <2>4. Accounted'
    BY <1>5, PointsStay DEF ExtractAndChunk, Conclude
  <2> QED
    BY <2>1, <2>2, <2>3, <2>4
<1>6. ASSUME NEW r \in Requests, EmbedChunks(r)
      PROVE  (RequestsOK /\ SoleUploader /\ DocumentsOK /\ Accounted)'
  <2>1. RequestsOK'
    BY <1>6, PointsStay DEF EmbedChunks
  <2>2. SoleUploader'
    BY <1>6, PointsStay DEF EmbedChunks
  <2>3. DocumentsOK'
    BY <1>6, PointsStay DEF EmbedChunks
  <2>4. Accounted'
    BY <1>6, PointsStay DEF EmbedChunks
  <2> QED
    BY <2>1, <2>2, <2>3, <2>4
<1>7. ASSUME NEW r \in Requests, CheckCollection(r)
      PROVE  (RequestsOK /\ SoleUploader /\ DocumentsOK /\ Accounted)'
  <2>1. RequestsOK'
    BY <1>7, PointsStay DEF CheckCollection
  <2>2. SoleUploader'
    BY <1>7, PointsStay DEF CheckCollection
  <2>3. DocumentsOK'
    BY <1>7, PointsStay DEF CheckCollection
  <2>4. Accounted'
    BY <1>7, PointsStay DEF CheckCollection
  <2> QED
    BY <2>1, <2>2, <2>3, <2>4
<1>8. ASSUME NEW r \in Requests, CreateCollection(r)
      PROVE  (RequestsOK /\ SoleUploader /\ DocumentsOK /\ Accounted)'
  <2>1. RequestsOK'
    BY <1>8, PointsStay DEF CreateCollection
  <2>2. SoleUploader'
    BY <1>8, PointsStay DEF CreateCollection
  <2>3. DocumentsOK'
    BY <1>8, PointsStay DEF CreateCollection
  <2>4. Accounted'
    BY <1>8, PointsStay DEF CreateCollection
  <2> QED
    BY <2>1, <2>2, <2>3, <2>4
<1>9. ASSUME NEW r \in Requests, CreatePayloadIndexes(r)
      PROVE  (RequestsOK /\ SoleUploader /\ DocumentsOK /\ Accounted)'
  <2>1. RequestsOK'
    BY <1>9, PointsStay DEF CreatePayloadIndexes
  <2>2. SoleUploader'
    BY <1>9, PointsStay DEF CreatePayloadIndexes
  <2>3. DocumentsOK'
    BY <1>9, PointsStay DEF CreatePayloadIndexes
  <2>4. Accounted'
    BY <1>9, PointsStay DEF CreatePayloadIndexes
  <2> QED
    BY <2>1, <2>2, <2>3, <2>4
<1>10. ASSUME NEW r \in Requests, UpsertChunks(r)
      PROVE  (RequestsOK /\ SoleUploader /\ DocumentsOK /\ Accounted)'
  <2>1. RequestsOK'
    <3>1. phase[r] = "upsert" /\ doc[r] \in Docs /\ row[r] \in Row /\ row[r].owner = user[r]
      BY <1>10 DEF UpsertChunks
    <3>2. /\ row'[r].status = "ready"
          /\ row'[r].owner = user[r]
          /\ row'[r].chunk_count = chunks[r]
      BY <1>10, <3>1 DEF UpsertChunks, Conclude, Row
    <3>3. PointsOf(doc[r]) = {} /\ UploadOK(r, doc[r])
      BY <3>1
    <3>4. \A e \in Docs :
            PointsOf(e)' = IF e = doc[r] THEN Batch(e, user[r], chunks[r]) ELSE PointsOf(e)
      BY <1>10, <3>3, UpsertEffect
    <3>5. \A d \in Docs : doc[r] = d => UploadOK(r, d)'
      <4>1. \A d \in Docs : doc[r] = d => PointsOf(d)' = Batch(d, user[r], chunks[r])
        BY <3>1, <3>4
      <4>2. /\ past' = past
            /\ phase'[r] = "answer_upload"
        BY <1>10, <3>1 DEF UpsertChunks, Conclude
      <4>3. \A d \in Docs : doc[r] = d => Honest(d, row[r])'
        BY <3>1, <3>2, <3>3, <4>1, <4>2
      <4> QED
        BY <3>3, <4>2, <4>3
    <3>6. \A t \in Requests : t # r /\ doc[t] = doc[r] => phase[t] \notin UploadPhases \cup DeletePhases
      BY <3>1, <3>3
    <3> QED
      BY <1>10, <3>1, <3>4, <3>5, <3>6 DEF UpsertChunks, Conclude
  <2>2. SoleUploader'
    BY <1>10, PointsUpserted DEF UpsertChunks, Conclude
  <2>3. DocumentsOK'
    <3>1. phase[r] = "upsert" /\ doc[r] \in Docs
      BY <1>10 DEF UpsertChunks
    <3>2. past[doc[r]] # {} /\ ~Happened("published", doc[r]) /\ ~Happened("purged", doc[r])
      BY <3>1
    <3>3. \A e \in Docs : e # doc[r] => PointsOf(e)' = PointsOf(e)
      <4>1. PointsOf(doc[r]) = {}
        BY <3>1
      <4> QED
        BY <1>10, <4>1, UpsertEffect
    <3>4. \A d \in Docs : d # doc[r] => DocumentOK(d)'
      BY <1>10, <3>3 DEF UpsertChunks
    <3>5. \A d \in Docs : d = doc[r] => DocumentOK(d)'
      BY <1>10, <3>1, <3>2 DEF UpsertChunks
    <3> QED
      BY <1>10, <3>4, <3>5 DEF UpsertChunks
  <2>4. Accounted'
    BY <1>10, PointsUpserted DEF UpsertChunks, Conclude
  <2> QED
    BY <2>1, <2>2, <2>3, <2>4
<1>11. ASSUME NEW r \in Requests, IngestRaises(r)
      PROVE  (RequestsOK /\ SoleUploader /\ DocumentsOK /\ Accounted)'
  <2>1. RequestsOK'
    BY <1>11, PointsStay DEF IngestRaises, Conclude, MaybeUpsertedLater
  <2>2. SoleUploader'
    BY <1>11, PointsStay DEF IngestRaises, Conclude, MaybeUpsertedLater
  <2>3. DocumentsOK'
    <3>1. phase[r] \in IngestPhases /\ doc[r] \in Docs
      BY <1>11 DEF IngestRaises
    <3>2. UploadOK(r, doc[r])
      BY <3>1
    <3>3. /\ \A d \in Docs : d # doc[r] => past'[d] = past[d]
          /\ past'[doc[r]] \in {past[doc[r]], past[doc[r]] \cup {"doubtful"}}
      BY <1>11, <3>1 DEF IngestRaises, MaybeUpsertedLater
    <3>4. \A p \in unacked' : p \in unacked \/ (p.document_id = doc[r] /\ "doubtful" \in past'[doc[r]])
      BY <1>11, <3>1 DEF IngestRaises, MaybeUpsertedLater, Batch
    <3>5. \A d \in Docs : d # doc[r] => DocumentOK(d)'
      BY <1>11, <3>3, <3>4, PointsStay DEF IngestRaises
    <3>6. \A d \in Docs : d = doc[r] => DocumentOK(d)'
      BY <1>11, <3>1, <3>2, <3>3, <3>4, PointsStay DEF IngestRaises
    <3> QED
      BY <3>5, <3>6
  <2>4. Accounted'
    BY <1>11, PointsStay DEF IngestRaises, Conclude, MaybeUpsertedLater
  <2> QED
    BY <2>1, <2>2, <2>3, <2>4
<1>12. ASSUME NEW r \in Requests, AnswerUpload(r)
      PROVE  (RequestsOK /\ SoleUploader /\ DocumentsOK /\ Accounted)'
  <2>1. RequestsOK'
    BY <1>12, PointsStay DEF AnswerUpload
  <2>2. SoleUploader'
    BY <1>12, PointsStay DEF AnswerUpload
  <2>3. DocumentsOK'
    BY <1>12, PointsStay DEF AnswerUpload
  <2>4. Accounted'
    BY <1>12, PointsStay DEF AnswerUpload
  <2> QED
    BY <2>1, <2>2, <2>3, <2>4
<1>13. ASSUME NEW r \in Requests, PurgeChunks(r)
      PROVE  (RequestsOK /\ SoleUploader /\ DocumentsOK /\ Accounted)'
  <2>1. RequestsOK'
    <3>1. phase[r] = "purge" /\ doc[r] \in Docs /\ Happened("published", doc[r])
      BY <1>13 DEF PurgeChunks
    <3>2. \A e \in Docs : e # doc[r] => PointsOf(e)' = PointsOf(e) /\ past'[e] = past[e]
      <4>1. \A e \in Docs : e # doc[r] => past'[e] = past[e]
        BY <1>13, <3>1 DEF PurgeChunks
      <4>2. \A e \in Docs : e # doc[r] => PointsOf(e)' = PointsOf(e)
        BY <1>13, PurgeEffect
      <4> QED
        BY <4>1, <4>2
    <3>3. \A t \in Requests : doc[t] = doc[r] => phase[t] \notin UploadPhases
      BY <3>1
    <3> QED
      BY <1>13, <3>1, <3>2, <3>3 DEF PurgeChunks
  <2>2. SoleUploader'
    BY <1>13, PointsPurged DEF PurgeChunks
  <2>3. DocumentsOK'
    <3>1. phase[r] = "purge" /\ doc[r] \in Docs /\ Happened("published", doc[r])
      BY <1>13 DEF PurgeChunks
    <3>2. \A e \in Docs : e # doc[r] => PointsOf(e)' = PointsOf(e) /\ past'[e] = past[e]
      <4>1. \A e \in Docs : e # doc[r] => past'[e] = past[e]
        BY <1>13, <3>1 DEF PurgeChunks
      <4>2. \A e \in Docs : e # doc[r] => PointsOf(e)' = PointsOf(e)
        BY <1>13, PurgeEffect
      <4> QED
        BY <4>1, <4>2
    <3>3. /\ \A d \in Docs : d = doc[r] => PointsOf(d)' = {}
          /\ past'[doc[r]] = past[doc[r]] \cup {"purged"}
      <4>1. past'[doc[r]] = past[doc[r]] \cup {"purged"}
        BY <1>13, <3>1 DEF PurgeChunks
      <4>2. \A d \in Docs : d = doc[r] => PointsOf(d)' = {}
        BY <1>13, PurgeEffect
      <4> QED
        BY <4>1, <4>2
    <3>4. \A d \in Docs : d # doc[r] => DocumentOK(d)'
      BY <1>13, <3>2 DEF PurgeChunks
    <3>5. \A d \in Docs : d = doc[r] => DocumentOK(d)'
      BY <1>13, <3>1, <3>3 DEF PurgeChunks
    <3> QED
      BY <3>4, <3>5
  <2>4. Accounted'
    BY <1>13, PointsPurged DEF PurgeChunks
  <2> QED
    BY <2>1, <2>2, <2>3, <2>4
<1>14. ASSUME NEW r \in Requests, PurgeRaises(r)
      PROVE  (RequestsOK /\ SoleUploader /\ DocumentsOK /\ Accounted)'
  <2>1. RequestsOK'
    BY <1>14, PointsStay DEF PurgeRaises, EndRequest, MaybePurgedLater
  <2>2. SoleUploader'
    BY <1>14, PointsStay DEF PurgeRaises, EndRequest, MaybePurgedLater
  <2>3. DocumentsOK'
    BY <1>14, PointsStay DEF PurgeRaises, EndRequest, MaybePurgedLater
  <2>4. Accounted'
    BY <1>14, PointsStay DEF PurgeRaises, EndRequest, MaybePurgedLater
  <2> QED
    BY <2>1, <2>2, <2>3, <2>4
<1>15. ASSUME NEW r \in Requests, AnswerDelete(r)
      PROVE  (RequestsOK /\ SoleUploader /\ DocumentsOK /\ Accounted)'
  <2>1. RequestsOK'
    BY <1>15, PointsStay DEF AnswerDelete
  <2>2. SoleUploader'
    BY <1>15, PointsStay DEF AnswerDelete
  <2>3. DocumentsOK'
    BY <1>15, PointsStay DEF AnswerDelete
  <2>4. Accounted'
    BY <1>15, PointsStay DEF AnswerDelete
  <2> QED
    BY <2>1, <2>2, <2>3, <2>4
<1>16. ASSUME NEW r \in Requests, CommitInsert(r)
      PROVE  (RequestsOK /\ SoleUploader /\ DocumentsOK /\ Accounted)'
  <2>1. RequestsOK'
    BY <1>16, PointsStay DEF CommitInsert, EndRequest
  <2>2. SoleUploader'
    BY <1>16, PointsStay DEF CommitInsert, EndRequest
  <2>3. DocumentsOK'
    BY <1>16, PointsStay DEF CommitInsert, EndRequest
  <2>4. Accounted'
    BY <1>16, PointsStay DEF CommitInsert, EndRequest
  <2> QED
    BY <2>1, <2>2, <2>3, <2>4
<1>17. ASSUME NEW r \in Requests, CommitDelete(r)
      PROVE  (RequestsOK /\ SoleUploader /\ DocumentsOK /\ Accounted)'
  <2>1. RequestsOK'
    BY <1>17, PointsStay DEF CommitDelete, EndRequest
  <2>2. SoleUploader'
    BY <1>17, PointsStay DEF CommitDelete, EndRequest
  <2>3. DocumentsOK'
    BY <1>17, PointsStay DEF CommitDelete, EndRequest
  <2>4. Accounted'
    BY <1>17, PointsStay DEF CommitDelete, EndRequest
  <2> QED
    BY <2>1, <2>2, <2>3, <2>4
<1>18. ASSUME NEW r \in Requests, CommitFails(r)
      PROVE  (RequestsOK /\ SoleUploader /\ DocumentsOK /\ Accounted)'
  <2>1. RequestsOK'
    BY <1>18, PointsStay DEF CommitFails, EndRequest
  <2>2. SoleUploader'
    BY <1>18, PointsStay DEF CommitFails, EndRequest
  <2>3. DocumentsOK'
    BY <1>18, PointsStay DEF CommitFails, EndRequest
  <2>4. Accounted'
    BY <1>18, PointsStay DEF CommitFails, EndRequest
  <2> QED
    BY <2>1, <2>2, <2>3, <2>4
<1>19. ASSUME NEW r \in Requests, Abandon(r)
      PROVE  (RequestsOK /\ SoleUploader /\ DocumentsOK /\ Accounted)'
  <2>1. RequestsOK'
    BY <1>19, PointsStay DEF Abandon, EndRequest, MaybePurgedLater
  <2>2. SoleUploader'
    BY <1>19, PointsStay DEF Abandon, EndRequest, MaybePurgedLater
  <2>3. DocumentsOK'
    <3>1. phase[r] # "idle" /\ doc[r] \in Docs
      BY <1>19 DEF Abandon
    <3>2. /\ \A d \in Docs : d # doc[r] => past'[d] = past[d]
          /\ past'[doc[r]] \in {past[doc[r]], past[doc[r]] \cup {"lost"},
                               past[doc[r]] \cup {"lost", "doubtful"}}
      BY <1>19, <3>1 DEF Abandon
    <3>3. past'[doc[r]] # past[doc[r]] => phase[r] \in UploadPhases
      BY <1>19, <3>1 DEF Abandon
    <3>4. \A p \in unacked' : p \in unacked \/ (p.document_id = doc[r] /\ "doubtful" \in past'[doc[r]])
      BY <1>19, <3>1 DEF Abandon, Batch
    <3>5. \A q \in latePurges' : q \in latePurges \/ (q[1] = doc[r] /\ phase[r] = "purge")
      BY <1>19, <3>1 DEF Abandon, MaybePurgedLater
    <3>6. UNCHANGED <<documents, points>>
      BY <1>19 DEF Abandon
    <3>7. \A d \in Docs : d # doc[r] => DocumentOK(d)'
      BY <3>2, <3>4, <3>5, <3>6, PointsStay
    <3>8. CASE phase[r] \in UploadPhases
      <4>1. past[doc[r]] \subseteq {"issued", "doubtful"} /\ past[doc[r]] # {}
        BY <3>1, <3>8
      <4>2. \A d \in Docs : d = doc[r] => DocumentOK(d)'
        BY <3>1, <3>2, <3>4, <3>5, <3>6, <3>8, <4>1, PointsStay
      <4> QED
        BY <3>7, <4>2
    <3>9. CASE phase[r] \notin UploadPhases
      <4>1. past'[doc[r]] = past[doc[r]]
        BY <3>3, <3>9
      <4>2. phase[r] = "purge" => Happened("published", doc[r])
        BY <3>1
      <4>3. \A d \in Docs : d = doc[r] => DocumentOK(d)'
        BY <3>1, <3>4, <3>5, <3>6, <4>1, <4>2, PointsStay
      <4> QED
        BY <3>7, <4>3
    <3> QED
      BY <3>8, <3>9
  <2>4. Accounted'
    BY <1>19, PointsStay DEF Abandon, EndRequest, MaybePurgedLater
  <2> QED
    BY <2>1, <2>2, <2>3, <2>4
<1>20. ASSUME NEW d \in Docs, LateUpsert(d)
       PROVE  (RequestsOK /\ SoleUploader /\ DocumentsOK /\ Accounted)'
  <2>0. Happened("doubtful", d)
    <3>1. PICK p \in unacked : p.document_id = d
      BY <1>20 DEF LateUpsert
    <3> QED
      BY <3>1
  <2>1. /\ \A e \in Docs : e # d => PointsOf(e)' = PointsOf(e)
        /\ unacked' \subseteq unacked
        /\ UNCHANGED <<documents, latePurges, request, past>>
    BY <1>20, PointsLate DEF LateUpsert
  <2>2. RequestsOK'
    BY <2>0, <2>1
  <2>3. SoleUploader' /\ Accounted'
    BY <2>1
  <2>4. DocumentsOK'
    BY <2>0, <2>1
  <2> QED
    BY <2>2, <2>3, <2>4
<1>21. ASSUME NEW d \in Docs, LatePurge(d)
       PROVE  (RequestsOK /\ SoleUploader /\ DocumentsOK /\ Accounted)'
  <2>1. Happened("published", d)
    BY <1>21 DEF LatePurge
  <2>2. PointsOf(d)' = {} /\ \A e \in Docs : e # d => PointsOf(e)' = PointsOf(e)
    BY <1>21, PointsPurged DEF LatePurge
  <2>3. /\ past'[d] = past[d] \cup {"purged"}
        /\ \A e \in Docs : e # d => past'[e] = past[e]
        /\ latePurges' \subseteq latePurges
        /\ UNCHANGED <<documents, unacked, request>>
    BY <1>21 DEF LatePurge
  <2>4. RequestsOK'
    BY <2>1, <2>2, <2>3
  <2>5. SoleUploader' /\ Accounted'
    BY <2>1, <2>3
  <2>6. DocumentsOK'
    BY <2>1, <2>2, <2>3
  <2> QED
    BY <2>4, <2>5, <2>6
<1>22. CASE UNCHANGED vars
  <2>1. UNCHANGED <<documents, points, unacked, latePurges, request, past>>
    BY <1>22
  <2> QED
    BY <2>1, <1>a, PointsStay
<1>23. (RequestsOK /\ SoleUploader /\ DocumentsOK /\ Accounted)'
  BY <1>1, <1>2, <1>3, <1>4, <1>5, <1>6, <1>7, <1>8, <1>9, <1>10, <1>11, <1>12, <1>13,
     <1>14, <1>15, <1>16, <1>17, <1>18, <1>19, <1>20, <1>21, <1>22 DEF Next, Start, Continue
<1> QED
  BY <1>a, <1>23
-----------------------------------------------------------------------------
(***************************************************************************)
(* Whose chunks the points are.                                            *)
(***************************************************************************)

(* The points of a document, the ones under way included, carry the id of  *)
(* the user its row and the requests that handle it carry.                 *)
OwnersOK ==
    \A p \in points \cup unacked :
        /\ documents[p.document_id] # None =>
              documents[p.document_id].owner = p.owner_id
        /\ \A r \in Requests :
              (phase[r] # "idle" /\ doc[r] = p.document_id) => user[r] = p.owner_id

LEMMA OwnersKept == IInv /\ OwnersOK /\ [Next]_vars => OwnersOK'
<1> SUFFICES ASSUME IInv, OwnersOK, [Next]_vars PROVE OwnersOK'
  OBVIOUS
<1> USE DEF OwnersOK, stores, request, vars, Goto, Answer, Note, EndRequest, Conclude
<1>1. TypeOK /\ RequestOK /\ SoleUploader
  BY DEF IInv
<1>2. \A p \in points \cup unacked : p.document_id \in Docs /\ p.owner_id \in Users
  BY <1>1 DEF TypeOK, Point
<1>3. \A d \in Docs : past[d] = {} => \A p \in points \cup unacked : p.document_id # d
  BY DEF IInv, DocumentsOK, DocumentOK, PointsOf, Happened
<1>4. ASSUME NEW r \in Requests, NEW u \in Users, RejectUpload(r, u)
      PROVE  OwnersOK'
  BY <1>1, <1>4 DEF RejectUpload, TypeOK
<1>5. ASSUME NEW r \in Requests, NEW u \in Users, NEW d \in Docs, UploadDocument(r, u, d)
      PROVE  OwnersOK'
  BY <1>1, <1>3, <1>5 DEF UploadDocument, TypeOK
<1>6. ASSUME NEW r \in Requests, NEW u \in Users, NEW d \in Docs, DeleteDocument(r, u, d)
      PROVE  OwnersOK'
  BY <1>1, <1>6 DEF DeleteDocument, Finds, TypeOK
<1>7. ASSUME NEW r \in Requests, NEW u \in Users, NEW d \in Docs, DocumentNotFound(r, u, d)
      PROVE  OwnersOK'
  BY <1>1, <1>7 DEF DocumentNotFound, TypeOK
<1>8. ASSUME NEW r \in Requests,
             ExtractAndChunk(r) \/ EmbedChunks(r) \/ CheckCollection(r) \/ CreateCollection(r)
                \/ CreatePayloadIndexes(r) \/ AnswerUpload(r) \/ AnswerDelete(r)
      PROVE  OwnersOK'
  <2>1. UNCHANGED <<documents, points, unacked, user, doc>> /\ phase[r] # "idle"
    BY <1>8 DEF ExtractAndChunk, EmbedChunks, CheckCollection, CreateCollection,
                CreatePayloadIndexes, AnswerUpload, AnswerDelete
  <2>2. \A t \in Requests : t # r => phase'[t] = phase[t]
    BY <1>1, <1>8 DEF ExtractAndChunk, EmbedChunks, CheckCollection, CreateCollection,
                CreatePayloadIndexes, AnswerUpload, AnswerDelete, TypeOK
  <2> QED
    BY <2>1, <2>2
<1>9. ASSUME NEW r \in Requests, phase[r] = "upsert"
      PROVE  /\ documents[doc[r]] = None
             /\ \A t \in Requests : phase[t] # "idle" /\ doc[t] = doc[r] => t = r
             /\ \A p \in Batch(doc[r], user[r], chunks[r]) :
                   p.document_id = doc[r] /\ p.owner_id = user[r]
  <2>1. doc[r] \in Docs /\ UploadOK(r, doc[r])
    BY <1>1, <1>9 DEF IInv, RequestOK, RequestsOK, UploadPhases, IngestPhases
  <2>2. documents[doc[r]] = None
    BY <2>1 DEF UploadOK, IInv, DocumentsOK, DocumentOK, Happened
  <2>3. \A t \in Requests : phase[t] # "idle" => phase[t] \in UploadPhases \cup DeletePhases
    BY <1>1 DEF TypeOK, Phases
  <2>4. \A t \in Requests : doc[t] = doc[r] => phase[t] \notin DeletePhases
    BY <2>1 DEF IInv, RequestsOK, UploadOK, DeleteOK, Happened
  <2>5. \A t \in Requests : phase[t] # "idle" /\ doc[t] = doc[r] => t = r
    BY <1>1, <1>9, <2>3, <2>4 DEF SoleUploader, UploadPhases, IngestPhases
  <2> QED
    BY <2>2, <2>5 DEF Batch
<1>10. ASSUME NEW r \in Requests, UpsertChunks(r)
       PROVE  OwnersOK'
  <2>1. phase[r] = "upsert"
    BY <1>10 DEF UpsertChunks
  <2> QED
    BY <1>1, <1>9, <1>10, <2>1 DEF UpsertChunks, TypeOK
<1>11. ASSUME NEW r \in Requests, IngestRaises(r)
       PROVE  OwnersOK'
  <2>1. /\ UNCHANGED <<documents, points, user, doc>>
        /\ phase[r] # "idle"
        /\ \A t \in Requests : t # r => phase'[t] = phase[t]
    BY <1>1, <1>11 DEF IngestRaises, IngestPhases, TypeOK
  <2>2. CASE unacked' = unacked
    BY <2>1, <2>2
  <2>3. CASE /\ phase[r] = "upsert"
             /\ unacked' = unacked \cup Batch(doc[r], user[r], chunks[r])
    BY <1>9, <2>1, <2>3
  <2> QED
    BY <1>11, <2>2, <2>3 DEF IngestRaises, MaybeUpsertedLater
<1>12. ASSUME NEW r \in Requests, Abandon(r)
       PROVE  OwnersOK'
  <2>1. /\ UNCHANGED <<documents, points, user, doc>>
        /\ phase[r] # "idle"
        /\ phase' = [phase EXCEPT ![r] = "idle"]
    BY <1>12 DEF Abandon
  <2>2. CASE unacked' = unacked
    BY <1>1, <2>1, <2>2 DEF TypeOK
  <2>3. CASE /\ phase[r] = "upsert"
             /\ unacked' = unacked \cup Batch(doc[r], user[r], chunks[r])
    BY <1>1, <1>9, <2>1, <2>3 DEF TypeOK
  <2> QED
    BY <1>12, <2>2, <2>3 DEF Abandon
<1>13. ASSUME NEW r \in Requests, PurgeChunks(r)
       PROVE  OwnersOK'
  BY <1>1, <1>13 DEF PurgeChunks, TypeOK
<1>14. ASSUME NEW r \in Requests, PurgeRaises(r) \/ CommitFails(r)
       PROVE  OwnersOK'
  BY <1>1, <1>14 DEF PurgeRaises, CommitFails, TypeOK
<1>15. ASSUME NEW r \in Requests, CommitInsert(r)
       PROVE  OwnersOK'
  BY <1>1, <1>2, <1>15 DEF CommitInsert, TypeOK, RequestOK
<1>16. ASSUME NEW r \in Requests, CommitDelete(r)
       PROVE  OwnersOK'
  BY <1>1, <1>2, <1>16 DEF CommitDelete, TypeOK, RequestOK
<1>17. ASSUME NEW d \in Docs, LateUpsert(d) \/ LatePurge(d)
       PROVE  OwnersOK'
  BY <1>17 DEF LateUpsert, LatePurge
<1>18. CASE UNCHANGED vars
  BY <1>18
<1> QED
  BY <1>4, <1>5, <1>6, <1>7, <1>8, <1>10, <1>11, <1>12, <1>13, <1>14, <1>15, <1>16,
     <1>17, <1>18 DEF Next, Start, Continue

(* Whose deletion of points is still under way.                            *)
AskersOK ==
    \A q \in latePurges, p \in points \cup unacked :
        p.document_id = q[1] => p.owner_id = q[2]

(* A deletion that was given up was asked for by the owner of the chunks   *)
(* it takes: its request was under way, and later no chunk of the document *)
(* can be new, as only a committed row is ever found and deleted.          *)
LEMMA AskersKept == IInv /\ OwnersOK /\ AskersOK /\ [Next]_vars => AskersOK'
<1> SUFFICES ASSUME IInv, OwnersOK, AskersOK, [Next]_vars,
                    NEW q \in latePurges', NEW p \in (points \cup unacked)',
                    p.document_id = q[1]
             PROVE  p.owner_id = q[2]
  BY DEF AskersOK
<1> USE DEF stores, request, vars
<1>1. ASSUME NEW r \in Requests, UpsertChunks(r) \/ IngestRaises(r) \/ Abandon(r),
             p \notin points \cup unacked
      PROVE  p.document_id = doc[r] /\ phase[r] = "upsert" /\ latePurges' = latePurges
  <2>1. CASE UpsertChunks(r)
    BY <1>1, <2>1 DEF UpsertChunks, Batch
  <2>2. CASE IngestRaises(r)
    BY <1>1, <2>2 DEF IngestRaises, MaybeUpsertedLater, Batch
  <2>3. CASE Abandon(r)
    BY <1>1, <2>3 DEF Abandon, Batch
  <2> QED
    BY <1>1, <2>1, <2>2, <2>3
<1>2. ASSUME NEW r \in Requests, PurgeRaises(r) \/ Abandon(r), q \notin latePurges
      PROVE  /\ q = <<doc[r], user[r]>> /\ phase[r] = "purge"
             /\ points' = points /\ unacked' = unacked
  BY <1>2 DEF PurgeRaises, Abandon, MaybePurgedLater, UploadPhases, IngestPhases
<1>3. ASSUME NEW r \in Requests, Continue(r)
      PROVE  \/ UpsertChunks(r) \/ IngestRaises(r) \/ PurgeRaises(r)
             \/ points' \subseteq points /\ UNCHANGED <<unacked, latePurges>>
  BY <1>3 DEF Continue, ExtractAndChunk, EmbedChunks, CheckCollection, CreateCollection,
     CreatePayloadIndexes, AnswerUpload, PurgeChunks, AnswerDelete, CommitInsert,
     CommitDelete, CommitFails
<1>4. ASSUME NEW r \in Requests, Start(r)
      PROVE  UNCHANGED stores
  BY <1>4 DEF Start, RejectUpload, UploadDocument, DeleteDocument, DocumentNotFound
<1>5. ASSUME NEW d \in Docs, LateUpsert(d) \/ LatePurge(d)
      PROVE  points' \cup unacked' \subseteq points \cup unacked /\ latePurges' \subseteq latePurges
  BY <1>5 DEF LateUpsert, LatePurge
<1>6. CASE q \in latePurges /\ p \in points \cup unacked
  BY <1>6 DEF AskersOK
<1>7. CASE q \in latePurges /\ p \notin points \cup unacked
  <2>1. PICK r \in Requests : UpsertChunks(r) \/ IngestRaises(r) \/ Abandon(r)
    <3>1. ASSUME NEW r \in Requests, PurgeRaises(r)
          PROVE  UNCHANGED <<points, unacked>>
      BY <3>1 DEF PurgeRaises
    <3> QED
      BY <1>3, <1>4, <1>5, <1>7, <3>1 DEF Next
  <2>2. p.document_id = doc[r] /\ phase[r] = "upsert"
    BY <1>1, <1>7, <2>1
  <2>3. doc[r] \in Docs /\ ~Happened("published", doc[r])
    BY <2>2 DEF IInv, RequestOK, RequestsOK, UploadOK, UploadPhases, IngestPhases, Happened
  <2>4. Happened("published", doc[r])
    BY <1>7, <2>2, <2>3 DEF IInv, DocumentsOK, DocumentOK
  <2> QED
    BY <2>3, <2>4
<1>8. CASE q \notin latePurges
  <2>1. PICK r \in Requests : PurgeRaises(r) \/ Abandon(r)
    <3>1. ASSUME NEW r \in Requests, UpsertChunks(r) \/ IngestRaises(r)
          PROVE  UNCHANGED latePurges
      BY <3>1 DEF UpsertChunks, IngestRaises
    <3> QED
      BY <1>3, <1>4, <1>5, <1>8, <3>1 DEF Next
  <2> QED
    BY <1>2, <1>8, <2>1 DEF OwnersOK
<1> QED
  BY <1>6, <1>7, <1>8

LEMMA PurgerOwns ==
    IInv /\ OwnersOK /\ AskersOK /\ [Next]_vars =>
        \A p \in points \ points' :
            \/ <<p.document_id, p.owner_id>> \in latePurges
            \/ \E r \in Requests :
                  phase[r] = "purge" /\ doc[r] = p.document_id /\ user[r] = p.owner_id
<1> SUFFICES ASSUME IInv, OwnersOK, AskersOK, [Next]_vars, NEW p \in points \ points'
             PROVE  \/ <<p.document_id, p.owner_id>> \in latePurges
                    \/ \E r \in Requests :
                          phase[r] = "purge" /\ doc[r] = p.document_id /\ user[r] = p.owner_id
  OBVIOUS
<1>1. ASSUME NEW r \in Requests, PurgeChunks(r)
      PROVE  phase[r] = "purge" /\ doc[r] = p.document_id /\ user[r] = p.owner_id
  BY <1>1 DEF PurgeChunks, PointsOf, OwnersOK
<1>2. ASSUME NEW d \in Docs, LatePurge(d)
      PROVE  <<p.document_id, p.owner_id>> \in latePurges
  <2>1. p.document_id = d
    BY <1>2 DEF LatePurge, PointsOf
  <2>2. PICK q \in latePurges : q[1] = d
    BY <1>2 DEF LatePurge
  <2>3. q = <<q[1], q[2]>>
    BY DEF IInv, TypeOK
  <2>4. p.owner_id = q[2]
    BY <2>1, <2>2 DEF AskersOK
  <2> QED
    BY <2>1, <2>2, <2>3, <2>4
<1>3. ASSUME NEW r \in Requests, Start(r) \/ Abandon(r)
      PROVE  points' = points
  BY <1>3 DEF Start, Abandon, stores, RejectUpload, DocumentNotFound, UploadDocument,
     DeleteDocument
<1>4. ASSUME NEW r \in Requests, Continue(r)
      PROVE  PurgeChunks(r) \/ points \subseteq points'
  BY <1>4 DEF Continue, stores, ExtractAndChunk, EmbedChunks, CheckCollection,
     CreateCollection, CreatePayloadIndexes, UpsertChunks, IngestRaises, AnswerUpload,
     PurgeRaises, AnswerDelete, CommitInsert, CommitDelete, CommitFails
<1>5. ASSUME NEW d \in Docs, LateUpsert(d) \/ LatePurge(d)
      PROVE  LatePurge(d) \/ points \subseteq points'
  BY <1>5 DEF LateUpsert
<1>6. UNCHANGED vars => points' = points
  BY DEF vars, stores
<1> QED
  BY <1>1, <1>2, <1>3, <1>4, <1>5, <1>6 DEF Next

-----------------------------------------------------------------------------
(***************************************************************************)
(* The theorems.                                                           *)
(***************************************************************************)

LEMMA InitHolds == Init => IInv /\ OwnersOK /\ AskersOK
<1> SUFFICES ASSUME Init PROVE IInv /\ OwnersOK /\ AskersOK
  OBVIOUS
<1>1. TypeOK /\ RequestOK
  BY InitTypes
<1>2. RequestsOK /\ SoleUploader /\ OwnersOK /\ AskersOK
  BY DocumentsAssumption DEF Init, RequestsOK, SoleUploader, OwnersOK, AskersOK, UploadPhases,
     IngestPhases, DeletePhases
<1>3. DocumentsOK /\ Accounted
  BY DEF Init, DocumentsOK, DocumentOK, Accounted, PointsOf, Happened
<1> QED
  BY <1>1, <1>2, <1>3 DEF IInv

(* The inductive invariant holds: a document is followed from the upload   *)
(* that drew its id, through the object of that request, to its row.       *)
THEOREM Invariance == Spec => [](IInv /\ OwnersOK /\ AskersOK)
<1>1. Init => IInv /\ OwnersOK /\ AskersOK
  BY InitHolds
<1>2. IInv /\ OwnersOK /\ AskersOK /\ [Next]_vars => (IInv /\ OwnersOK /\ AskersOK)'
  BY NextKeeps, OwnersKept, AskersKept
<1> QED
  BY <1>1, <1>2, PTL DEF Spec

(* A document listed READY has exactly its chunks in Qdrant until a        *)
(* deletion takes them, for any number of users, documents and concurrent  *)
(* requests (upload_document, ingest).                                     *)
THEOREM ReadyDocumentsIndexed == Spec => []ReadyMeansIndexed
<1>1. IInv => ReadyMeansIndexed
  BY DEF IInv, DocumentsOK, DocumentOK, Honest, ReadyMeansIndexed
<1> QED
  BY <1>1, Invariance, PTL

(* No crash, cancellation or error leaves a committed row in PROCESSING    *)
(* (upload_document, get_db_session).                                      *)
THEOREM NoneStuck == Spec => []NoRowStuckProcessing
<1>1. IInv => NoRowStuckProcessing
  BY DEF IInv, DocumentsOK, DocumentOK, NoRowStuckProcessing
<1> QED
  BY <1>1, Invariance, PTL

(* Of a FAILED document nothing is retrievable, unless an upsert was given *)
(* up (the except clause of upload_document).                              *)
THEOREM FailedDocumentsEmpty == Spec => []FailedNotRetrievable
<1>1. IInv => FailedNotRetrievable
  BY DEF IInv, DocumentsOK, DocumentOK, FailedNotRetrievable
<1> QED
  BY <1>1, Invariance, PTL

(* After a 204, or once the row is gone, nothing of the document is        *)
(* retrievable, unless an upsert was given up (delete_document).           *)
THEOREM DeletedDocumentsEmpty == Spec => []DeletedNotRetrievable
<1>1. IInv => DeletedNotRetrievable
  BY DEF IInv, DocumentsOK, DocumentOK, RequestsOK, DeletedNotRetrievable, Happened
<1> QED
  BY <1>1, Invariance, PTL

(* Chunks without a row are those of an upload that has not committed yet, *)
(* that lost its commit, or that gave up its upsert; a deletion leaves     *)
(* none behind (upload_document, delete_document).                         *)
THEOREM OrphansAccountedFor == Spec => []OrphansExplained
<1>1. IInv => OrphansExplained
  <2> SUFFICES ASSUME IInv, NEW p \in points, documents[p.document_id] = None,
                      ~Happened("doubtful", p.document_id), ~Happened("lost", p.document_id)
               PROVE  \E r \in Requests :
                         doc[r] = p.document_id /\ phase[r] \in {"answer_upload", "commit_insert"}
    BY DEF OrphansExplained
  <2>1. p.document_id \in Docs /\ PointsOf(p.document_id) # {}
    BY DEF IInv, TypeOK, Point, PointsOf
  <2>2. ~Happened("published", p.document_id) /\ past[p.document_id] # {}
    BY <2>1 DEF IInv, DocumentsOK, DocumentOK
  <2>3. PICK r \in Requests : doc[r] = p.document_id /\ phase[r] \in UploadPhases
    BY <2>1, <2>2 DEF IInv, Accounted
  <2>4. phase[r] \notin IngestPhases
    BY <2>1, <2>3 DEF IInv, RequestsOK, UploadOK
  <2> QED
    BY <2>3, <2>4 DEF UploadPhases
<1> QED
  BY <1>1, Invariance, PTL

(* Chunks disappear only by a deletion of the document's owner, although   *)
(* the filter that deletes them names the document alone (delete_document, *)
(* get_by_id).                                                             *)
THEOREM OnlyOwnersPurge == Spec => OnlyOwnerPurges
<1>1. IInv /\ OwnersOK /\ AskersOK /\ [Next]_vars =>
         [\A p \in points \ points' :
             \/ <<p.document_id, p.owner_id>> \in latePurges
             \/ \E r \in Requests :
                   phase[r] = "purge" /\ doc[r] = p.document_id /\ user[r] = p.owner_id]_vars
  BY PurgerOwns
<1> QED
  BY <1>1, Invariance, PTL DEF Spec, OnlyOwnerPurges
=============================================================================
