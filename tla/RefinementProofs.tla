-------------------------- MODULE RefinementProofs --------------------------
(***************************************************************************)
(* Documents implements DocumentLifecycle, step by step.                   *)
(*                                                                         *)
(* The invariant of DocumentsProofs says which points a document has when  *)
(* its row is committed or removed.  One fact is added to it: a row that   *)
(* says FAILED counts no chunks, so that its commit changes no size.       *)
(***************************************************************************)
EXTENDS DocumentsProofs

FailedCountsNone ==
    \A r \in Requests :
        phase[r] \in {"answer_upload", "commit_insert"} /\ row[r].status = "failed"
            => row[r].chunk_count = 0

RInv == IInv /\ FailedCountsNone

(* The chunk indexes of document d retrieval can return.                   *)
IndexesOf(d) == {p.chunk_index : p \in PointsOf(d)}

(* The abstract step leaves document d alone.                              *)
Same(d) ==
    /\ StageOf(d)' = StageOf(d)
    /\ SizeOf(d)' = SizeOf(d)
    /\ IndexesOf(d)' = IndexesOf(d)

-----------------------------------------------------------------------------
(***************************************************************************)
(* The added invariant.                                                    *)
(***************************************************************************)

LEMMA FailedKept == RInv /\ [Next]_vars => FailedCountsNone'
<1> SUFFICES ASSUME RInv, [Next]_vars, NEW q \in Requests,
                    phase'[q] \in {"answer_upload", "commit_insert"}, row'[q].status = "failed"
             PROVE  row'[q].chunk_count = 0
  BY DEF FailedCountsNone
<1> USE DEF Goto, Answer, EndRequest, stores, request
<1>1. /\ phase \in [Requests -> Phases] /\ row \in [Requests -> Row \cup {None}]
      /\ phase[q] \in {"answer_upload", "commit_insert"} /\ row[q].status = "failed"
            => row[q].chunk_count = 0
      /\ \A r \in Requests : phase[r] # "idle" => row[r] \in Row
  BY DEF RInv, IInv, TypeOK, RequestOK, FailedCountsNone
<1>2. CASE UNCHANGED <<phase, row>>
  BY <1>1, <1>2
<1>3. ASSUME NEW r \in Requests, NEW s \in {"ready", "failed"}, NEW n \in 0 .. MaxChunks,
             phase[r] # "idle", Conclude(r, s, n), s = "failed" => n = 0
      PROVE  row'[q].chunk_count = 0
  <2>1. CASE q = r
    <3>1. row'[q] = [row[r] EXCEPT !.status = s, !.chunk_count = n] /\ row[r] \in Row
      BY <1>1, <1>3, <2>1 DEF Conclude
    <3> QED
      BY <1>3, <3>1 DEF Row
  <2>2. CASE q # r
    BY <1>1, <1>3, <2>2 DEF Conclude
  <2> QED
    BY <2>1, <2>2
<1>4. 0 \in 0 .. MaxChunks /\ \A r \in Requests : chunks[r] \in 0 .. MaxChunks
  BY DocumentsAssumption DEF RInv, IInv, TypeOK
<1>5. ASSUME NEW r \in Requests, Start(r)
      PROVE  row'[q].chunk_count = 0
  BY <1>1, <1>2, <1>5 DEF Start, RejectUpload, UploadDocument, DeleteDocument, DocumentNotFound
<1>6. ASSUME NEW r \in Requests, ExtractAndChunk(r)
      PROVE  row'[q].chunk_count = 0
  <2>1. CASE Conclude(r, "ready", 0)
    BY <1>3, <1>4, <1>6, <2>1 DEF ExtractAndChunk
  <2>2. CASE Goto(r, "embed") /\ UNCHANGED row
    BY <1>1, <2>2
  <2> QED
    BY <1>6, <2>1, <2>2 DEF ExtractAndChunk
<1>7. ASSUME NEW r \in Requests, UpsertChunks(r) \/ IngestRaises(r)
      PROVE  row'[q].chunk_count = 0
  <2>1. phase[r] # "idle" /\ (Conclude(r, "ready", chunks[r]) \/ Conclude(r, "failed", 0))
    BY <1>7 DEF UpsertChunks, IngestRaises, IngestPhases
  <2> QED
    BY <1>3, <1>4, <2>1
<1>8. ASSUME NEW r \in Requests, AnswerUpload(r)
      PROVE  row'[q].chunk_count = 0
  BY <1>1, <1>8 DEF AnswerUpload
<1>9. ASSUME NEW r \in Requests,
             \/ EmbedChunks(r) \/ CheckCollection(r) \/ CreateCollection(r) \/ CreatePayloadIndexes(r)
             \/ PurgeChunks(r) \/ AnswerDelete(r)
      PROVE  row'[q].chunk_count = 0
  BY <1>1, <1>9 DEF EmbedChunks, CheckCollection, CreateCollection, CreatePayloadIndexes, PurgeChunks,
                    AnswerDelete
<1>10. ASSUME NEW r \in Requests, EndRequest(r)
       PROVE  row'[q].chunk_count = 0
  BY <1>1, <1>10
<1> QED
  BY <1>2, <1>5, <1>6, <1>7, <1>8, <1>9, <1>10
     DEF RInv, Next, Continue, Abandon, PurgeRaises, CommitInsert, CommitDelete, CommitFails,
         LateUpsert, LatePurge, vars

LEMMA RInvariance == Spec => []RInv
<1>1. Init => RInv
  BY InitHolds DEF Init, RInv, FailedCountsNone
<1>2. RInv /\ [Next]_vars => RInv'
  BY NextKeeps, FailedKept DEF RInv
<1> QED
  BY <1>1, <1>2, PTL DEF Spec

-----------------------------------------------------------------------------
(***************************************************************************)
(* The refinement mapping, document by document.                           *)
(***************************************************************************)

LEMMA StageCases ==
    ASSUME RInv, NEW d \in Docs
    PROVE  /\ Happened("doubtful", d) => StageOf(d) = "doubtful" /\ SizeOf(d) = 0
           /\ ~Happened("doubtful", d) /\ documents[d] = None =>
                 /\ SizeOf(d) = 0
                 /\ StageOf(d) = IF Happened("removed", d) THEN "deleted" ELSE "unlisted"
           /\ ~Happened("doubtful", d) /\ documents[d] # None =>
                 /\ SizeOf(d) = documents[d].chunk_count
                 /\ documents[d].status \in {"ready", "failed"}
                 /\ StageOf(d) = IF documents[d].status = "ready" /\ Happened("purged", d)
                                 THEN "withdrawn" ELSE documents[d].status
BY DEF StageOf, SizeOf, RInv, IInv, TypeOK, DocumentsOK, DocumentOK, Row, Status

(* A document keeps its place while its row, its points and the events     *)
(* that decide its stage are what they were.                               *)
LEMMA SameIf ==
    ASSUME NEW d \in Docs, documents'[d] = documents[d], PointsOf(d)' = PointsOf(d),
           \A e \in {"doubtful", "removed", "purged"} : Happened(e, d)' <=> Happened(e, d)
    PROVE  Same(d)
<1>1. IndexesOf(d)' = IndexesOf(d)
  BY DEF IndexesOf
<1>2. SizeOf(d)' = SizeOf(d) /\ StageOf(d)' = StageOf(d)
  BY DEF SizeOf, StageOf
<1> QED
  BY <1>1, <1>2 DEF Same

(* When no other document moves, each abstract variable changes at d only. *)
LEMMA MovesAt ==
    ASSUME NEW d \in Docs, \A e \in Docs \ {d} : Same(e)
    PROVE  /\ [e \in Docs |-> StageOf(e)]' = [[e \in Docs |-> StageOf(e)] EXCEPT ![d] = StageOf(d)']
           /\ [e \in Docs |-> SizeOf(e)]' = [[e \in Docs |-> SizeOf(e)] EXCEPT ![d] = SizeOf(d)']
           /\ [e \in Docs |-> IndexesOf(e)]' =
                 [[e \in Docs |-> IndexesOf(e)] EXCEPT ![d] = IndexesOf(d)']
BY DEF Same

LEMMA Stutters ==
    ASSUME \A d \in Docs : Same(d)
    PROVE  UNCHANGED Lifecycle!vars
BY DEF Same, Lifecycle!vars, IndexesOf

-----------------------------------------------------------------------------
(***************************************************************************)
(* The abstract actions, from what a step does to one document.            *)
(***************************************************************************)

LEMMA Indexes ==
    ASSUME NEW d \in Docs, \A e \in Docs \ {d} : Same(e), NEW n \in 0 .. MaxChunks,
           StageOf(d) = "unlisted", IndexesOf(d) = {},
           StageOf(d)' = StageOf(d), SizeOf(d)' = SizeOf(d), IndexesOf(d)' = 0 .. (n - 1)
    PROVE  Lifecycle!Next
<1>1. Lifecycle!Index(d)
  BY MovesAt DEF Lifecycle!Index, IndexesOf
<1> QED
  BY <1>1 DEF Lifecycle!Next

LEMMA Accepts ==
    ASSUME NEW d \in Docs, \A e \in Docs \ {d} : Same(e), NEW n \in 0 .. MaxChunks,
           StageOf(d) = "unlisted", IndexesOf(d) = 0 .. (n - 1),
           StageOf(d)' = "ready", SizeOf(d)' = n, IndexesOf(d)' = IndexesOf(d)
    PROVE  Lifecycle!Next
<1>1. Lifecycle!Accept(d)
  BY MovesAt DEF Lifecycle!Accept, IndexesOf
<1> QED
  BY <1>1 DEF Lifecycle!Next

LEMMA Refuses ==
    ASSUME NEW d \in Docs, \A e \in Docs \ {d} : Same(e),
           StageOf(d) = "unlisted", IndexesOf(d) = {},
           StageOf(d)' = "failed", SizeOf(d)' = SizeOf(d), IndexesOf(d)' = IndexesOf(d)
    PROVE  Lifecycle!Next
<1>1. Lifecycle!Refuse(d)
  BY MovesAt DEF Lifecycle!Refuse, IndexesOf
<1> QED
  BY <1>1 DEF Lifecycle!Next

LEMMA Withdraws ==
    ASSUME NEW d \in Docs, \A e \in Docs \ {d} : Same(e),
           StageOf(d) = "ready",
           StageOf(d)' = "withdrawn", SizeOf(d)' = SizeOf(d), IndexesOf(d)' = {}
    PROVE  Lifecycle!Next
<1>1. Lifecycle!Withdraw(d)
  BY MovesAt DEF Lifecycle!Withdraw, IndexesOf
<1> QED
  BY <1>1 DEF Lifecycle!Next

LEMMA Deletes ==
    ASSUME NEW d \in Docs, \A e \in Docs \ {d} : Same(e),
           StageOf(d) \in {"withdrawn", "failed"},
           StageOf(d)' = "deleted", SizeOf(d)' = 0, IndexesOf(d)' = IndexesOf(d)
    PROVE  Lifecycle!Next
<1>1. Lifecycle!Delete(d)
  BY MovesAt DEF Lifecycle!Delete, IndexesOf
<1> QED
  BY <1>1 DEF Lifecycle!Next

LEMMA Doubts ==
    ASSUME NEW d \in Docs, \A e \in Docs \ {d} : Same(e),
           StageOf(d) = "unlisted", IndexesOf(d) = {},
           StageOf(d)' = "doubtful", SizeOf(d)' = SizeOf(d), IndexesOf(d)' = IndexesOf(d)
    PROVE  Lifecycle!Next
<1>1. Lifecycle!Doubt(d)
  BY MovesAt DEF Lifecycle!Doubt, IndexesOf
<1> QED
  BY <1>1 DEF Lifecycle!Next

LEMMA Drifts ==
    ASSUME NEW d \in Docs, \A e \in Docs \ {d} : Same(e), TypeOK',
           StageOf(d) = "doubtful", StageOf(d)' = "doubtful", SizeOf(d)' = SizeOf(d)
    PROVE  Lifecycle!Next
<1>1. IndexesOf(d)' \in SUBSET (0 .. (MaxChunks - 1))
  BY DEF TypeOK, Point, IndexesOf, PointsOf
<1>2. Lifecycle!Drift(d)
  BY <1>1, MovesAt DEF Lifecycle!Drift, IndexesOf
<1> QED
  BY <1>2 DEF Lifecycle!Next

(* n points of one document have the indexes below n.                      *)
LEMMA BatchIndexes ==
    ASSUME NEW d, NEW u, NEW n
    PROVE  {p.chunk_index : p \in Batch(d, u, n)} = 0 .. (n - 1)
<1> DEFINE Of(i) == [document_id |-> d, owner_id |-> u, chunk_index |-> i]
<1>1. Batch(d, u, n) = {Of(i) : i \in 0 .. (n - 1)}
  BY DEF Batch
<1>2. \A i : Of(i).chunk_index = i
  OBVIOUS
<1> HIDE DEF Of
<1> QED
  BY <1>1, <1>2

-----------------------------------------------------------------------------
(***************************************************************************)
(* The steps of Documents.                                                 *)
(***************************************************************************)

AbstractStep == Lifecycle!Next \/ UNCHANGED Lifecycle!vars

(* Only document d is touched.                                             *)
Elsewhere(d) ==
    \A e \in Docs \ {d} :
        documents'[e] = documents[e] /\ PointsOf(e)' = PointsOf(e) /\ past'[e] = past[e]

LEMMA ElsewhereSame ==
    ASSUME NEW d \in Docs, Elsewhere(d)
    PROVE  \A e \in Docs \ {d} : Same(e)
BY SameIf DEF Elsewhere, Happened

LEMMA StutterAt ==
    ASSUME NEW d \in Docs, Elsewhere(d), Same(d)
    PROVE  AbstractStep
BY ElsewhereSame, Stutters DEF AbstractStep

(* A note about another event than those that decide the stage.            *)
LEMMA NoteEffect ==
    ASSUME RInv, NEW d \in Docs, NEW E \in SUBSET Events,
           past' = [past EXCEPT ![d] = @ \cup E]
    PROVE  /\ past'[d] = past[d] \cup E
           /\ \A e \in Docs \ {d} : past'[e] = past[e]
BY DEF RInv, IInv, TypeOK

LEMMA QuietStep ==
    ASSUME RInv, NEW d \in Docs, NEW E \in SUBSET {"issued", "lost"},
           UNCHANGED <<documents, points>>, past' = [past EXCEPT ![d] = @ \cup E]
    PROVE  AbstractStep
<1>1. /\ past'[d] = past[d] \cup E
      /\ \A e \in Docs \ {d} : past'[e] = past[e]
  BY NoteEffect DEF Events
<1>2. Elsewhere(d) /\ PointsOf(d)' = PointsOf(d)
  BY <1>1, PointsStay DEF Elsewhere
<1>3. Same(d)
  BY <1>1, <1>2, SameIf DEF Happened
<1> QED
  BY <1>2, <1>3, StutterAt

LEMMA NoStep ==
    ASSUME UNCHANGED <<documents, points, past>>
    PROVE  AbstractStep
<1>1. \A d \in Docs : Same(d)
  BY PointsStay, SameIf DEF Happened
<1> QED
  BY <1>1, Stutters DEF AbstractStep

(* While it is uploaded, a document is unlisted, or doubtful.              *)
LEMMA Uploading ==
    ASSUME RInv, NEW r \in Requests, phase[r] \in UploadPhases
    PROVE  /\ doc[r] \in Docs /\ row[r] \in Row /\ user[r] \in Users /\ row[r].owner = user[r]
           /\ UploadOK(r, doc[r])
           /\ documents[doc[r]] = None
           /\ \A e \in {"removed", "purged"} : ~Happened(e, doc[r])
<1>1. /\ doc[r] \in Docs /\ row[r] \in Row /\ user[r] \in Users /\ row[r].owner = user[r]
      /\ UploadOK(r, doc[r])
  BY DEF RInv, IInv, RequestOK, RequestsOK, UploadPhases, IngestPhases
<1>2. ~Happened("published", doc[r]) /\ \A e \in {"removed", "purged"} : ~Happened(e, doc[r])
  BY <1>1 DEF UploadOK, Happened
<1> QED
  BY <1>1, <1>2 DEF RInv, IInv, DocumentsOK, DocumentOK

LEMMA UpsertRefines ==
    ASSUME RInv, NEW r \in Requests, NEW d \in Docs, doc[r] = d, UpsertChunks(r)
    PROVE  AbstractStep
<1>0. PICK n \in 0 .. MaxChunks : n = chunks[r]
  BY DEF RInv, IInv, TypeOK
<1>1. /\ phase[r] = "upsert" /\ phase[r] \in UploadPhases /\ phase[r] \in IngestPhases
      /\ points' = points \cup Batch(d, user[r], n)
      /\ UNCHANGED <<documents, past>>
  BY <1>0 DEF UpsertChunks, UploadPhases, IngestPhases
<1>2. d \in Docs /\ PointsOf(d) = {} /\ ~Happened("doubtful", d) /\ ~Happened("removed", d)
  BY <1>1, Uploading DEF UploadOK
<1>3. Elsewhere(d) /\ PointsOf(d)' = Batch(d, user[r], n)
  BY <1>1, <1>2, PointsUpserted DEF Elsewhere
<1>4. StageOf(d) = "unlisted"
  BY <1>1, <1>2, Uploading, StageCases
<1>5. StageOf(d)' = StageOf(d) /\ SizeOf(d)' = SizeOf(d)
  BY <1>1 DEF StageOf, SizeOf, Happened
<1>6. IndexesOf(d) = {} /\ IndexesOf(d)' = 0 .. (n - 1)
  BY <1>2, <1>3, BatchIndexes DEF IndexesOf
<1> QED
  BY <1>2, <1>3, <1>4, <1>5, <1>6, ElsewhereSame, Indexes DEF AbstractStep

(* An upsert that is given up.                                             *)
LEMMA DoubtRefines ==
    ASSUME RInv, NEW r \in Requests, NEW d \in Docs, doc[r] = d, phase[r] = "upsert",
           NEW E \in SUBSET {"lost", "doubtful"}, "doubtful" \in E,
           UNCHANGED <<documents, points>>, past' = [past EXCEPT ![d] = @ \cup E]
    PROVE  AbstractStep
<1>1. phase[r] \in UploadPhases /\ phase[r] \in IngestPhases
  BY DEF UploadPhases, IngestPhases
<1>2. d \in Docs /\ PointsOf(d) = {} /\ ~Happened("doubtful", d) /\ ~Happened("removed", d)
  BY <1>1, Uploading DEF UploadOK
<1>3. past'[d] = past[d] \cup E /\ \A e \in Docs \ {d} : past'[e] = past[e]
  BY <1>2, NoteEffect DEF Events
<1>4. Elsewhere(d) /\ PointsOf(d)' = PointsOf(d)
  BY <1>2, <1>3, PointsStay DEF Elsewhere
<1>5. StageOf(d) = "unlisted" /\ SizeOf(d) = 0
  BY <1>1, <1>2, Uploading, StageCases
<1>6. StageOf(d)' = "doubtful" /\ SizeOf(d)' = 0
  BY <1>3 DEF StageOf, SizeOf, Happened
<1>7. IndexesOf(d) = {} /\ IndexesOf(d)' = IndexesOf(d)
  BY <1>2, <1>4 DEF IndexesOf
<1> QED
  BY <1>2, <1>4, <1>5, <1>6, <1>7, ElsewhereSame, Doubts DEF AbstractStep

LEMMA CommitInsertRefines ==
    ASSUME RInv, NEW r \in Requests, NEW d \in Docs, doc[r] = d, CommitInsert(r)
    PROVE  AbstractStep
<1>0. PICK w \in Row : w = row[r]
  BY DEF CommitInsert, RInv, IInv, RequestOK
<1>1. phase[r] = "commit_insert" /\ phase[r] \in UploadPhases
  BY DEF CommitInsert, UploadPhases
<1>2. /\ w # None /\ documents[d] = None
      /\ ~Happened("removed", d) /\ ~Happened("purged", d)
      /\ Honest(d, w)
      /\ w.status = "failed" => w.chunk_count = 0
  BY <1>0, <1>1, Uploading, DocumentsAssumption DEF UploadOK, RInv, FailedCountsNone
<1>3. /\ documents'[d] = w /\ \A e \in Docs \ {d} : documents'[e] = documents[e]
      /\ points' = points
  BY <1>0 DEF CommitInsert, RInv, IInv, TypeOK
<1>4. past'[d] = past[d] \cup {"published"} /\ \A e \in Docs \ {d} : past'[e] = past[e]
  BY <1>2, NoteEffect DEF CommitInsert, Note, Events
<1>5. Elsewhere(d) /\ PointsOf(d)' = PointsOf(d) /\ IndexesOf(d)' = IndexesOf(d)
  BY <1>2, <1>3, <1>4, PointsStay DEF Elsewhere, IndexesOf
<1>6. \A e \in {"doubtful", "removed", "purged"} : Happened(e, d)' <=> Happened(e, d)
  BY <1>4 DEF Happened
<1>7. CASE Happened("doubtful", d)
  <2>1. Same(d)
    BY <1>5, <1>6, <1>7 DEF Same, StageOf, SizeOf
  <2> QED
    BY <1>2, <1>5, <2>1, StutterAt
<1>8. CASE ~Happened("doubtful", d)
  <2>1. StageOf(d) = "unlisted" /\ SizeOf(d) = 0
    BY <1>2, <1>8, StageCases
  <2>2. SizeOf(d)' = w.chunk_count /\ StageOf(d)' = w.status
    BY <1>2, <1>3, <1>6, <1>8 DEF StageOf, SizeOf
  <2>3. CASE w.status = "ready"
    <3>1. IndexesOf(d) = 0 .. (w.chunk_count - 1) /\ w.chunk_count \in 0 .. MaxChunks
      BY <1>2, <2>3, BatchIndexes DEF Honest, IndexesOf, Row
    <3> QED
      BY <1>2, <1>5, <2>1, <2>2, <2>3, <3>1, ElsewhereSame, Accepts DEF AbstractStep
  <2>4. CASE w.status = "failed"
    <3>1. IndexesOf(d) = {}
      BY <1>2, <1>8, <2>4 DEF Honest, IndexesOf
    <3> QED
      BY <1>2, <1>5, <2>1, <2>2, <2>4, <3>1, ElsewhereSame, Refuses DEF AbstractStep
  <2> QED
    BY <1>2, <2>3, <2>4 DEF Honest, Row, Status
<1> QED
  BY <1>7, <1>8

LEMMA PurgeRefines ==
    ASSUME RInv, TypeOK', NEW d \in Docs, Happened("published", d),
           documents' = documents, points' = points \ PointsOf(d), Note(d, "purged")
    PROVE  AbstractStep
<1>1. past'[d] = past[d] \cup {"purged"} /\ \A e \in Docs \ {d} : past'[e] = past[e]
  BY NoteEffect DEF Note, Events
<1>2. Elsewhere(d) /\ PointsOf(d)' = {}
  BY <1>1, PointsPurged DEF Elsewhere
<1>3. /\ Happened("purged", d)'
      /\ \A e \in {"doubtful", "removed"} : Happened(e, d)' <=> Happened(e, d)
  BY <1>1 DEF Happened
<1>4. SizeOf(d)' = SizeOf(d) /\ IndexesOf(d)' = {}
  BY <1>2, <1>3 DEF SizeOf, IndexesOf
<1>5. DocumentOK(d)
  BY DEF RInv, IInv, DocumentsOK
<1>6. CASE Happened("doubtful", d)
  <2>1. StageOf(d) = "doubtful" /\ StageOf(d)' = "doubtful"
    BY <1>3, <1>6 DEF StageOf
  <2> QED
    BY <1>2, <1>4, <2>1, ElsewhereSame, Drifts DEF AbstractStep
<1>7. CASE ~Happened("doubtful", d) /\ PointsOf(d) = {}
      /\ (documents[d] # None /\ documents[d].status = "ready" => Happened("purged", d))
  <2>1. IndexesOf(d)' = IndexesOf(d)
    BY <1>4, <1>7 DEF IndexesOf
  <2>2. StageOf(d)' = StageOf(d)
    BY <1>3, <1>7 DEF StageOf
  <2> QED
    BY <1>2, <1>4, <2>1, <2>2, StutterAt DEF Same
<1>8. CASE /\ ~Happened("doubtful", d) /\ ~Happened("purged", d)
           /\ documents[d] # None /\ documents[d].status = "ready"
  <2>1. StageOf(d) = "ready" /\ StageOf(d)' = "withdrawn"
    BY <1>3, <1>8 DEF StageOf
  <2> QED
    BY <1>2, <1>4, <2>1, ElsewhereSame, Withdraws DEF AbstractStep
<1>9. \/ Happened("doubtful", d)
      \/ PointsOf(d) = {} /\ (documents[d] # None /\ documents[d].status = "ready" => Happened("purged", d))
      \/ ~Happened("purged", d) /\ documents[d] # None /\ documents[d].status = "ready"
  <2>1. CASE documents[d] = None
    BY <1>5, <2>1 DEF DocumentOK
  <2>2. CASE documents[d] # None /\ documents[d].status = "failed"
    BY <1>5, <2>2 DEF DocumentOK
  <2>3. CASE documents[d] # None /\ documents[d].status = "ready"
    BY <1>5, <2>3 DEF DocumentOK
  <2> QED
    BY <1>5, <2>1, <2>2, <2>3 DEF DocumentOK, RInv, IInv, TypeOK, Row, Status
<1> QED
  BY <1>6, <1>7, <1>8, <1>9

LEMMA CommitDeleteRefines ==
    ASSUME RInv, NEW r \in Requests, NEW d \in Docs, doc[r] = d, CommitDelete(r)
    PROVE  AbstractStep
<1>1. phase[r] = "commit_delete" /\ phase[r] \in DeletePhases
  BY DEF CommitDelete, DeletePhases
<1>2. d \in Docs /\ Happened("published", d) /\ Happened("purged", d) /\ DocumentOK(d)
  BY <1>1 DEF RInv, IInv, RequestOK, RequestsOK, DeleteOK, DocumentsOK
<1>3. /\ documents'[d] = None /\ \A e \in Docs \ {d} : documents'[e] = documents[e]
      /\ points' = points
  BY <1>2 DEF CommitDelete, RInv, IInv, TypeOK
<1>4. past'[d] = past[d] \cup {"removed"} /\ \A e \in Docs \ {d} : past'[e] = past[e]
  BY <1>2, NoteEffect DEF CommitDelete, Note, Events
<1>5. Elsewhere(d) /\ IndexesOf(d)' = IndexesOf(d)
  BY <1>2, <1>3, <1>4, PointsStay DEF Elsewhere, IndexesOf
<1>6. Happened("removed", d)' /\ (Happened("doubtful", d)' <=> Happened("doubtful", d))
  BY <1>4 DEF Happened
<1>7. SizeOf(d)' = 0
  BY <1>3 DEF SizeOf
<1>8. CASE Happened("doubtful", d)
  <2>1. Same(d)
    BY <1>5, <1>6, <1>7, <1>8 DEF Same, StageOf, SizeOf
  <2> QED
    BY <1>2, <1>5, <2>1, StutterAt
<1>9. CASE ~Happened("doubtful", d)
  <2>1. StageOf(d)' = "deleted"
    BY <1>3, <1>6, <1>9 DEF StageOf
  <2>2. CASE documents[d] = None
    <3>1. StageOf(d) = "deleted" /\ SizeOf(d) = 0
      BY <1>2, <1>9, <2>2, StageCases DEF DocumentOK
    <3> QED
      BY <1>2, <1>5, <1>7, <2>1, <3>1, StutterAt DEF Same
  <2>3. CASE documents[d] # None
    <3>1. StageOf(d) \in {"withdrawn", "failed"}
      BY <1>2, <1>9, <2>3, StageCases
    <3> QED
      BY <1>2, <1>5, <1>7, <2>1, <3>1, ElsewhereSame, Deletes DEF AbstractStep
  <2> QED
    BY <2>2, <2>3
<1> QED
  BY <1>8, <1>9

LEMMA LateUpsertRefines ==
    ASSUME RInv, TypeOK', NEW d \in Docs, LateUpsert(d)
    PROVE  AbstractStep
<1>1. Happened("doubtful", d)
  BY DEF LateUpsert, RInv, IInv, DocumentsOK, DocumentOK
<1>2. UNCHANGED <<documents, past>> /\ points' = points \cup {p \in unacked : p.document_id = d}
  BY DEF LateUpsert
<1>3. Elsewhere(d)
  BY <1>2, PointsLate DEF Elsewhere
<1>4. /\ StageOf(d) = "doubtful" /\ StageOf(d)' = "doubtful"
      /\ SizeOf(d)' = SizeOf(d)
  BY <1>1, <1>2 DEF StageOf, SizeOf, Happened
<1> QED
  BY <1>3, <1>4, ElsewhereSame, Drifts DEF AbstractStep

LEMMA StepRefines ==
    ASSUME RInv, [Next]_vars
    PROVE  AbstractStep
<1> USE DEF stores, request
<1>1. TypeOK'
  BY NextTypes DEF RInv, IInv
<1>2. ASSUME NEW r \in Requests, Start(r)
      PROVE  AbstractStep
  <2>1. ASSUME NEW u \in Users, NEW d \in Docs, UploadDocument(r, u, d)
        PROVE  AbstractStep
    <3>1. UNCHANGED <<documents, points>> /\ past' = [past EXCEPT ![d] = @ \cup {"issued"}]
      BY <2>1 DEF UploadDocument, Note
    <3>2. {"issued"} \in SUBSET {"issued", "lost"}
      OBVIOUS
    <3> QED
      BY <3>1, <3>2, QuietStep
  <2> QED
    BY <1>2, <2>1, NoStep DEF Start, RejectUpload, DeleteDocument, DocumentNotFound
<1>3. ASSUME NEW r \in Requests, IngestRaises(r)
      PROVE  AbstractStep
  <2>1. CASE UNCHANGED past
    BY <1>3, <2>1, NoStep DEF IngestRaises
  <2>2. CASE phase[r] = "upsert" /\ Note(doc[r], "doubtful")
    <3>1. UNCHANGED <<documents, points>> /\ past' = [past EXCEPT ![doc[r]] = @ \cup {"doubtful"}]
      BY <1>3, <2>2 DEF IngestRaises, Note
    <3>2. {"doubtful"} \in SUBSET {"lost", "doubtful"} /\ doc[r] \in Docs
      BY <2>2 DEF RInv, IInv, RequestOK
    <3> QED
      BY <2>2, <3>1, <3>2, DoubtRefines
  <2> QED
    BY <1>3, <2>1, <2>2 DEF IngestRaises, MaybeUpsertedLater
<1>4. ASSUME NEW r \in Requests, phase[r] \in UploadPhases, UNCHANGED <<documents, points>>,
             Note(doc[r], "lost")
      PROVE  AbstractStep
  <2>1. doc[r] \in Docs /\ past' = [past EXCEPT ![doc[r]] = @ \cup {"lost"}]
    BY <1>4, Uploading DEF Note
  <2>2. {"lost"} \in SUBSET {"issued", "lost"}
    OBVIOUS
  <2> QED
    BY <1>4, <2>1, <2>2, QuietStep
<1>5. ASSUME NEW r \in Requests, CommitFails(r)
      PROVE  AbstractStep
  BY <1>4, <1>5, NoStep DEF CommitFails, UploadPhases
<1>6. ASSUME NEW r \in Requests, Abandon(r)
      PROVE  AbstractStep
  <2>1. CASE UNCHANGED past
    BY <1>6, <2>1, NoStep DEF Abandon
  <2>2. CASE phase[r] \in UploadPhases /\ Note(doc[r], "lost")
    BY <1>4, <1>6, <2>2 DEF Abandon
  <2>3. CASE phase[r] = "upsert" /\ past' = [past EXCEPT ![doc[r]] = @ \cup {"lost", "doubtful"}]
    <3>1. {"lost", "doubtful"} \in SUBSET {"lost", "doubtful"} /\ doc[r] \in Docs
      BY <2>3 DEF RInv, IInv, RequestOK
    <3> QED
      BY <1>6, <2>3, <3>1, DoubtRefines DEF Abandon
  <2> QED
    BY <1>6, <2>1, <2>2, <2>3 DEF Abandon
<1>7. ASSUME NEW r \in Requests, PurgeChunks(r)
      PROVE  AbstractStep
  <2>1. doc[r] \in Docs /\ Happened("published", doc[r])
    BY <1>7 DEF PurgeChunks, RInv, IInv, RequestOK, RequestsOK, DeleteOK, DeletePhases
  <2> QED
    BY <1>1, <1>7, <2>1, PurgeRefines DEF PurgeChunks
<1>8. ASSUME NEW d \in Docs, LatePurge(d)
      PROVE  AbstractStep
  <2>1. Happened("published", d)
    BY <1>8 DEF LatePurge, RInv, IInv, DocumentsOK, DocumentOK
  <2> QED
    BY <1>1, <1>8, <2>1, PurgeRefines DEF LatePurge
<1>9. ASSUME NEW r \in Requests,
             \/ ExtractAndChunk(r) \/ EmbedChunks(r) \/ CheckCollection(r) \/ CreateCollection(r)
             \/ CreatePayloadIndexes(r) \/ AnswerUpload(r) \/ PurgeRaises(r) \/ AnswerDelete(r)
      PROVE  AbstractStep
  BY <1>9, NoStep DEF ExtractAndChunk, EmbedChunks, CheckCollection, CreateCollection,
                      CreatePayloadIndexes, AnswerUpload, PurgeRaises, AnswerDelete
<1>10. CASE UNCHANGED vars
  BY <1>10, NoStep DEF vars
<1>11. ASSUME NEW r \in Requests, Continue(r)
       PROVE  AbstractStep
  <2>1. doc[r] \in Docs
    BY <1>11 DEF RInv, IInv, RequestOK, Continue, ExtractAndChunk, EmbedChunks, CheckCollection,
                 CreateCollection, CreatePayloadIndexes, UpsertChunks, IngestRaises, AnswerUpload,
                 PurgeChunks, PurgeRaises, AnswerDelete, CommitInsert, CommitDelete, CommitFails,
                 IngestPhases
  <2> QED
    BY <1>3, <1>5, <1>7, <1>9, <1>11, <2>1, UpsertRefines, CommitInsertRefines, CommitDeleteRefines
       DEF Continue
<1> QED
  BY <1>1, <1>2, <1>6, <1>8, <1>10, <1>11, LateUpsertRefines DEF Next

(* Every behaviour of uploads and deletions, with their faults, is one     *)
(* DocumentLifecycle allows: a document becomes "ready" with its chunks    *)
(* all retrievable, is withdrawn before it is deleted, and drifts only     *)
(* when an upsert was given up (routes_documents.py upload_document and    *)
(* delete_document, ingestion.py ingest, vectorstore.py).                  *)
THEOREM LifecycleKept == Spec => KeepsLifecycle
<1>1. Init => Lifecycle!Init
  <2> SUFFICES ASSUME Init
               PROVE  Lifecycle!Init
    OBVIOUS
  <2>1. \A d \in Docs : StageOf(d) = "unlisted" /\ SizeOf(d) = 0 /\ IndexesOf(d) = {}
    BY DEF Init, StageOf, SizeOf, IndexesOf, PointsOf, Happened
  <2> QED
    BY <2>1 DEF Lifecycle!Init, IndexesOf
<1>2. RInv /\ [Next]_vars => [Lifecycle!Next]_(Lifecycle!vars)
  BY StepRefines DEF AbstractStep
<1> QED
  BY <1>1, <1>2, RInvariance, PTL DEF Spec, KeepsLifecycle, Lifecycle!Spec

(* In the words of DocumentLifecycle: at every moment the list its owner   *)
(* sees and the chunks retrieval can return agree, document by document    *)
(* (routes_documents.py list_documents, vectorstore.py search).            *)
THEOREM ListingAlwaysAgrees == Spec => []Lifecycle!ListingAgrees
<1>1. RInv => Lifecycle!ListingAgrees
  <2> SUFFICES ASSUME RInv, NEW d \in Docs
               PROVE  /\ StageOf(d) = "ready" => IndexesOf(d) = 0 .. (SizeOf(d) - 1)
                      /\ StageOf(d) \in {"failed", "withdrawn", "deleted"} => IndexesOf(d) = {}
    BY DEF Lifecycle!ListingAgrees, IndexesOf
  <2>1. DocumentOK(d)
    BY DEF RInv, IInv, DocumentsOK
  <2>2. CASE StageOf(d) = "ready"
    <3>1. /\ documents[d] # None /\ documents[d].status = "ready" /\ ~Happened("purged", d)
          /\ SizeOf(d) = documents[d].chunk_count
      BY <2>2, StageCases
    <3>2. PointsOf(d) = Batch(d, documents[d].owner, documents[d].chunk_count)
      BY <2>1, <3>1 DEF DocumentOK, Honest
    <3> QED
      BY <2>2, <3>1, <3>2, BatchIndexes DEF IndexesOf
  <2>3. CASE StageOf(d) \in {"failed", "withdrawn", "deleted"}
    <3>1. PointsOf(d) = {}
      BY <2>1, <2>3, StageCases DEF DocumentOK
    <3> QED
      BY <2>3, <3>1 DEF IndexesOf
  <2> QED
    BY <2>2, <2>3
<1> QED
  BY <1>1, RInvariance, PTL

=============================================================================
