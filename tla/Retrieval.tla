----------------------------- MODULE Retrieval -----------------------------
(***************************************************************************)
(* How a question finds its sources: RagService.retrieve of                *)
(* app/services/rag.py, with the two reads of app/vectorstore.py, between  *)
(* the moment the question is asked and the moment its citations are       *)
(* stored with the answer (app/api/routes_chat.py).                        *)
(*                                                                         *)
(* Documents move meanwhile.  How they move is DocumentLifecycle, which    *)
(* Documents implements: uploads, deletions and late calls appear here as  *)
(* steps of that specification.  Questions only read, so that one at a     *)
(* time shows what any number of them can see.                             *)
(***************************************************************************)
EXTENDS Naturals, Sequences, FiniteSets, SequencesExt

CONSTANTS
    Users,      \* users.id of the accounts
    Docs,       \* the document ids, each given as its rank among the uuids
    MaxChunks,  \* bound: the most chunks of a document
    TopK,       \* retrieval_top_k
    SummaryMax, \* summary_max_chunks
    None        \* nobody asks

ASSUME RetrievalAssumption ==
    /\ Docs \subseteq Nat /\ IsFiniteSet(Docs)
    /\ {MaxChunks, TopK, SummaryMax} \subseteq Nat
    /\ None \notin Users

Chunk  == [document : Docs, index : 0 .. (MaxChunks - 1)]
Phases == {"idle", "embed", "search", "scroll", "stream"}

VARIABLES
    stage, size, retrievable,   \* the documents, see DocumentLifecycle
    owner,      \* who uploads each document; the owner_id of its points
    collection, \* does the Qdrant collection exist?
    phase,      \* what the question waits for
    asker,      \* current_user.id
    scope,      \* document_ids; {} for none and for an empty list
    summary,    \* does the query match _SUMMARY_INTENT_RE?
    cited,      \* citations
    asked       \* no part of the code: stage when the question was asked

documents == <<stage, size, retrievable>>
question  == <<phase, asker, scope, summary, cited, asked>>
vars      == <<documents, owner, collection, question>>

Lifecycle == INSTANCE DocumentLifecycle

TypeOK ==
    /\ Lifecycle!TypeOK
    /\ owner \in [Docs -> Users]
    /\ collection \in BOOLEAN
    /\ phase \in Phases
    /\ asker \in Users \cup {None}
    /\ (phase = "idle") = (asker = None)
    /\ scope \subseteq Docs
    /\ summary \in BOOLEAN
    /\ phase = "scroll" => summary /\ scope # {}
    /\ cited \in Seq(Chunk)
    /\ Len(cited) =< IF summary /\ scope # {} THEN SummaryMax ELSE TopK
    /\ asked \in [Docs -> Lifecycle!Stages]

Init ==
    /\ Lifecycle!Init
    /\ owner \in [Docs -> Users]
    /\ collection = FALSE
    /\ phase = "idle" /\ asker = None
    /\ scope = {} /\ summary = FALSE /\ cited = <<>>
    /\ asked = stage

-----------------------------------------------------------------------------
(***************************************************************************)
(* The documents.                                                          *)
(***************************************************************************)

(* The first upload creates the collection; nothing removes it.            *)
CreateCollection ==
    /\ ~collection
    /\ collection' = TRUE
    /\ UNCHANGED <<documents, owner, question>>

(* Some upload, deletion or late call takes a step.  Points are upserted   *)
(* only into a collection that exists.                                     *)
DocumentsMove ==
    /\ Lifecycle!Next
    /\ \A d \in Docs : retrievable'[d] # {} => collection
    /\ UNCHANGED <<owner, collection, question>>

-----------------------------------------------------------------------------
(***************************************************************************)
(* The question.                                                           *)
(***************************************************************************)

Indexed == UNION {{[document |-> d, index |-> i] : i \in retrievable[d]} : d \in Docs}

(* Mutated forms of SearchMatches: the selection is not in the filter, or  *)
(* the filter is evaluated on a copy that deletions miss.                  *)
SearchMatchesUnscoped == {c \in Indexed : owner[c.document] = asker}

SearchMatchesStale ==
    {c \in Chunk : /\ c.index < size[c.document]
                   /\ owner[c.document] = asker
                   /\ scope = {} \/ c.document \in scope}

(* The chunks that pass the filter of search, which names the selection if *)
(* there is one.                                                           *)
SearchMatches ==
    {c \in Indexed : /\ owner[c.document] = asker
                     /\ scope = {} \/ c.document \in scope}

(* Mutated form of ScrollMatches: the owner is not in the filter.          *)
ScrollMatchesAnyOwner == {c \in Indexed : c.document \in scope}

(* The chunks that pass the filter of scroll_documents.                    *)
ScrollMatches == {c \in Indexed : owner[c.document] = asker /\ c.document \in scope}

Before(a, b) ==
    \/ a.document < b.document
    \/ a.document = b.document /\ a.index < b.index

(* sorted(): the one sequence that has each chunk of S once, in order.     *)
ReadingOrder(S) ==
    CHOOSE s \in SetToSeqs(S) : \A i, j \in DOMAIN s : i < j => Before(s[i], s[j])

EndQuestion ==
    /\ phase' = "idle" /\ asker' = None
    /\ scope' = {} /\ summary' = FALSE /\ cited' = <<>>
    /\ asked' = [d \in Docs |-> "unlisted"]

(* Mutated form of Ask: every summary is read by scrolling.                *)
AskScrolls(u, ids, isSummary) ==
    /\ phase = "idle"
    /\ phase' = IF isSummary THEN "scroll" ELSE "embed"
    /\ asker' = u /\ scope' = ids /\ summary' = isSummary
    /\ asked' = stage
    /\ UNCHANGED <<documents, owner, collection, cited>>

(* A question about a selection, if its words ask for a summary, is        *)
(* answered from the whole selection; any other from the nearest chunks.   *)
Ask(u, ids, isSummary) ==
    /\ phase = "idle"
    /\ phase' = IF ids # {} /\ isSummary THEN "scroll" ELSE "embed"
    /\ asker' = u /\ scope' = ids /\ summary' = isSummary
    /\ asked' = stage
    /\ UNCHANGED <<documents, owner, collection, cited>>

EmbedQuery ==
    /\ phase = "embed"
    /\ phase' = "search"
    /\ UNCHANGED <<documents, owner, collection, asker, scope, summary, cited, asked>>

Cite(chunks) ==
    /\ cited' = chunks
    /\ phase' = "stream"
    /\ UNCHANGED <<documents, owner, collection, asker, scope, summary, asked>>

(* Which matching chunks are above the score threshold, and which of them  *)
(* is nearer to the question, is up to their vectors.                      *)
Search ==
    /\ phase = "search" /\ collection
    /\ \E chunks \in {s \in SetToAllKPermutations(SearchMatches) : Len(s) =< TopK} :
        Cite(chunks)

(* Mutated form of Scroll: the limit of search is used.                    *)
ScrollTopK ==
    /\ phase = "scroll" /\ collection
    /\ \E S \in SUBSET ScrollMatches :
        /\ Cardinality(S) = TopK \/ (S = ScrollMatches /\ Cardinality(S) < TopK)
        /\ Cite(ReadingOrder(S))

(* Qdrant returns the first points in the order of their ids, which are    *)
(* random: any SummaryMax of them, or all if there are no more.  Only what *)
(* it returned is sorted.                                                  *)
Scroll ==
    /\ phase = "scroll" /\ collection
    /\ \E S \in SUBSET ScrollMatches :
        /\ Cardinality(S) = SummaryMax \/ (S = ScrollMatches /\ Cardinality(S) < SummaryMax)
        /\ Cite(ReadingOrder(S))

(* The embedding or Qdrant raises, always when there is no collection yet. *)
(* The client is answered an error instead of a stream.                    *)
RetrievalRaises ==
    /\ phase \in {"embed", "search", "scroll"}
    /\ EndQuestion
    /\ UNCHANGED <<documents, owner, collection>>

(* The citations are stored with the answer; or the stream broke off.      *)
AnswerEnds ==
    /\ phase = "stream"
    /\ EndQuestion
    /\ UNCHANGED <<documents, owner, collection>>

Next ==
    \/ CreateCollection
    \/ DocumentsMove
    \/ \E u \in Users, ids \in SUBSET Docs, isSummary \in BOOLEAN : Ask(u, ids, isSummary)
    \/ EmbedQuery \/ Search \/ Scroll
    \/ RetrievalRaises \/ AnswerEnds

Spec == Init /\ [][Next]_vars

-----------------------------------------------------------------------------

CitedDocuments == {cited[i].document : i \in DOMAIN cited}

(* An answer cites, and its prompt quotes, only documents of the user who  *)
(* asked, whatever document ids the request names (rag.py retrieve,        *)
(* vectorstore.py search and scroll_documents).                            *)
CitationsAreOwn == \A d \in CitedDocuments : owner[d] = asker

(* An answer about a selection cites nothing else, whichever of the two    *)
(* reads served it (rag.py retrieve).                                      *)
CitationsInScope == scope # {} => CitedDocuments \subseteq scope

(* An answer never cites a document that had failed, was withdrawn or      *)
(* deleted when the question was asked.  One deleted while the question is *)
(* embedded or answered may still be cited, and so may one that is gone or *)
(* failed for its user but "doubtful" in DocumentLifecycle: its upsert was *)
(* given up and may be applied at any time (rag.py answer, routes_chat.py  *)
(* event_stream).                                                          *)
DeletedUncited ==
    \A d \in CitedDocuments : asked[d] \notin {"failed", "withdrawn", "deleted"}

(* A summary of a selection that fits the limit quotes every chunk of it,  *)
(* each once and in the order they are read, provided all its documents    *)
(* were ready when it was asked and nobody deleted one since               *)
(* (vectorstore.py scroll_documents).                                      *)
SummaryIsWhole ==
    LET own   == {d \in scope : owner[d] = asker}
        whole == {c \in Chunk : c.document \in own /\ c.index < size[c.document]}
    IN  (/\ phase = "stream" /\ summary /\ scope # {}
         /\ \A d \in own : asked[d] = "ready" /\ stage[d] = "ready"
         /\ Cardinality(whole) =< SummaryMax)
        => cited = ReadingOrder(whole)
=============================================================================
