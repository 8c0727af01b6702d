-------------------------- MODULE RetrievalProofs --------------------------
(***************************************************************************)
(* Proofs about Retrieval, for any users, documents, chunks and limits.    *)
(*                                                                         *)
(* A citation is right when it is read and has to stay right until it is   *)
(* stored, while documents move.  IInv therefore adds to the properties    *)
(* what DocumentLifecycle promises at every moment, and that what had      *)
(* become of a document when the question was asked is not undone later.   *)
(***************************************************************************)
EXTENDS Retrieval, FiniteSetTheorems, TLAPS

-----------------------------------------------------------------------------
(***************************************************************************)
(* The order of reading.                                                   *)
(***************************************************************************)

LEMMA ChunkFinite == IsFiniteSet(Chunk)
<1> DEFINE Pairs == Docs \X (0 .. (MaxChunks - 1))
           f == [p \in Pairs |-> [document |-> p[1], index |-> p[2]]]
<1>1. IsFiniteSet(Pairs)
  <2>1. IsFiniteSet(Docs) /\ MaxChunks \in Nat
    BY RetrievalAssumption
  <2>2. IsFiniteSet(0 .. (MaxChunks - 1))
    BY <2>1, FS_Interval
  <2> QED
    BY <2>1, <2>2, FS_Product
<1>2. f \in Surjection(Pairs, Chunk)
  <2>1. f \in [Pairs -> Chunk]
    BY DEF Chunk
  <2>2. ASSUME NEW c \in Chunk
        PROVE  \E p \in Pairs : f[p] = c
    <3>1. <<c.document, c.index>> \in Pairs
      BY DEF Chunk
    <3>2. f[<<c.document, c.index>>] = c
      BY <3>1 DEF Chunk
    <3> QED
      BY <3>1, <3>2
  <2> QED
    BY <2>1, <2>2 DEF Surjection
<1> QED
  BY <1>1, <1>2, FS_Surjection

LEMMA BeforeIsOrder ==
    ASSUME NEW a \in Chunk, NEW b \in Chunk, NEW c \in Chunk
    PROVE  /\ ~Before(a, a)
           /\ Before(a, b) /\ Before(b, c) => Before(a, c)
           /\ a # b => Before(a, b) \/ Before(b, a)
           /\ Before(a, b) => ~Before(b, a)
<1>1. /\ a.document \in Nat /\ b.document \in Nat /\ c.document \in Nat
      /\ a.index \in Nat /\ b.index \in Nat /\ c.index \in Nat
  <2>1. Docs \subseteq Nat /\ 0 .. (MaxChunks - 1) \subseteq Nat
    BY RetrievalAssumption
  <2> QED
    BY <2>1 DEF Chunk
<1>2. a.document = b.document /\ a.index = b.index => a = b
  BY DEF Chunk
<1> QED
  BY <1>1, <1>2 DEF Before

(* How many chunks of S come before c.                                     *)
Rank(S, c) == Cardinality({b \in S : Before(b, c)})

LEMMA RankIsPlace ==
    ASSUME NEW S \in SUBSET Chunk
    PROVE  /\ IsFiniteSet(S) /\ Cardinality(S) \in Nat
           /\ \A c \in S : Rank(S, c) \in 0 .. (Cardinality(S) - 1)
           /\ \A a, b \in S : Before(a, b) => Rank(S, a) < Rank(S, b)
<1>1. IsFiniteSet(S) /\ Cardinality(S) \in Nat
  BY ChunkFinite, FS_Subset, FS_CardinalityType
<1>2. ASSUME NEW c \in S
      PROVE  Rank(S, c) \in 0 .. (Cardinality(S) - 1)
  <2> DEFINE T == {b \in S : Before(b, c)}
  <2>1. T \in SUBSET S /\ T # S
    BY BeforeIsOrder
  <2>2. /\ IsFiniteSet(T) /\ Cardinality(T) \in Nat
        /\ Cardinality(T) <= Cardinality(S) /\ Cardinality(T) # Cardinality(S)
    BY <1>1, <2>1, FS_Subset, FS_CardinalityType
  <2> QED
    BY <1>1, <2>2 DEF Rank
<1>3. ASSUME NEW a \in S, NEW b \in S, Before(a, b)
      PROVE  Rank(S, a) < Rank(S, b)
  <2> DEFINE T == {x \in S : Before(x, a)}
             U == {x \in S : Before(x, b)}
  <2>1. \A x \in S : Before(x, a) => Before(x, b)
    BY <1>3, BeforeIsOrder
  <2>2. T \in SUBSET U /\ a \in U /\ a \notin T
    BY <1>3, <2>1, BeforeIsOrder
  <2>3. IsFiniteSet(U) /\ Cardinality(U) \in Nat
    BY <1>1, FS_Subset, FS_CardinalityType
  <2>4. /\ Cardinality(T) \in Nat /\ Cardinality(T) <= Cardinality(U)
        /\ Cardinality(T) # Cardinality(U)
    BY <2>2, <2>3, FS_Subset, FS_CardinalityType
  <2> QED
    BY <2>3, <2>4 DEF Rank
<1> QED
  BY <1>1, <1>2, <1>3

(* Sorting any set of chunks gives each of them once and in order: the     *)
(* rank of a chunk is its place.                                           *)
LEMMA Sorted ==
    ASSUME NEW S \in SUBSET Chunk
    PROVE  \E s \in SetToSeqs(S) : \A i, j \in DOMAIN s : i < j => Before(s[i], s[j])
<1> DEFINE n == Cardinality(S)
           rank == [c \in S |-> Rank(S, c)]
<1>1. IsFiniteSet(S) /\ n \in Nat
  BY RankIsPlace
<1>2. rank \in Injection(S, 0 .. (n - 1))
  <2>1. rank \in [S -> 0 .. (n - 1)]
    BY RankIsPlace
  <2>2. ASSUME NEW a \in S, NEW b \in S, a # b
        PROVE  rank[a] # rank[b]
    <3>1. Before(a, b) \/ Before(b, a)
      BY <2>2, BeforeIsOrder
    <3>2. Rank(S, a) < Rank(S, b) \/ Rank(S, b) < Rank(S, a)
      BY <3>1, RankIsPlace
    <3>3. Rank(S, a) \in Nat /\ Rank(S, b) \in Nat
      BY RankIsPlace, <1>1
    <3> QED
      BY <3>2, <3>3
  <2> QED
    BY <2>1, <2>2 DEF Injection, IsInjective
<1>3. rank \in Surjection(S, 0 .. (n - 1))
  <2>1. IsFiniteSet(0 .. (n - 1)) /\ Cardinality(0 .. (n - 1)) = n
    BY <1>1, FS_Interval
  <2> QED
    BY <1>2, <2>1, FS_Injection
<1>4. \A k \in 1 .. n : \E c \in S : Rank(S, c) = k - 1
  <2>1. \A m \in 0 .. (n - 1) : \E c \in S : Rank(S, c) = m
    BY <1>3 DEF Surjection
  <2> HIDE DEF n
  <2> QED
    BY <1>1, <2>1
<1> DEFINE s == [k \in 1 .. n |-> CHOOSE c \in S : Rank(S, c) = k - 1]
<1>5. \A k \in 1 .. n : s[k] \in S /\ Rank(S, s[k]) = k - 1
  BY <1>4
<1> HIDE DEF rank
<1>6. s \in [1 .. n -> S] /\ DOMAIN s = 1 .. n
  BY <1>5
<1> HIDE DEF s
<1>7. ASSUME NEW i \in 1 .. n, NEW j \in 1 .. n, i < j
      PROVE  Before(s[i], s[j])
  <2>1. s[i] \in S /\ s[j] \in S /\ Rank(S, s[i]) = i - 1 /\ Rank(S, s[j]) = j - 1
    BY <1>5
  <2>2. s[i] # s[j]
    BY <1>1, <1>7, <2>1
  <2>3. ~Before(s[j], s[i])
    BY <1>1, <1>7, <2>1, RankIsPlace
  <2> QED
    BY <2>1, <2>2, <2>3, BeforeIsOrder
<1>8. \A i, j \in 1 .. n : i # j => s[i] # s[j]
  BY <1>1, <1>5
<1>9. s \in SetToSeqs(S)
  BY <1>6, <1>8 DEF SetToSeqs
<1> QED
  BY <1>6, <1>7, <1>9

(* scroll_documents sorts what Qdrant returned: no chunk is lost, none is  *)
(* doubled, and they are in the order of documents and indexes, for any    *)
(* set of chunks (vectorstore.py, chunks.sort in scroll_documents).        *)
THEOREM ReadingOrderSorts ==
    ASSUME NEW S \in SUBSET Chunk
    PROVE  /\ ReadingOrder(S) \in Seq(S)
           /\ Len(ReadingOrder(S)) = Cardinality(S)
           /\ \A i, j \in DOMAIN ReadingOrder(S) :
                 i < j => Before(ReadingOrder(S)[i], ReadingOrder(S)[j])
           /\ \A c \in S : \E i \in DOMAIN ReadingOrder(S) : ReadingOrder(S)[i] = c
<1> DEFINE s == ReadingOrder(S)
<1>1. s \in SetToSeqs(S) /\ \A i, j \in DOMAIN s : i < j => Before(s[i], s[j])
  BY Sorted DEF ReadingOrder
<1>2. Cardinality(S) \in Nat /\ IsFiniteSet(S)
  BY RankIsPlace
<1> HIDE DEF s
<1>3. s \in [1 .. Cardinality(S) -> S]
      /\ \A i, j \in 1 .. Cardinality(S) : i # j => s[i] # s[j]
  BY <1>1 DEF SetToSeqs
<1>4. s \in Seq(S) /\ Len(s) = Cardinality(S)
  BY <1>2, <1>3
<1>5. s \in Surjection(1 .. Cardinality(S), S)
  <2>1. s \in Injection(1 .. Cardinality(S), S)
    BY <1>3 DEF Injection, IsInjective
  <2>2. IsFiniteSet(1 .. Cardinality(S)) /\ Cardinality(1 .. Cardinality(S)) = Cardinality(S)
    BY <1>2, FS_Interval
  <2> QED
    BY <1>2, <2>1, <2>2, FS_Injection
<1>6. \A c \in S : \E i \in DOMAIN s : s[i] = c
  BY <1>3, <1>5 DEF Surjection
<1> QED
  BY <1>1, <1>4, <1>6 DEF s

-----------------------------------------------------------------------------
(***************************************************************************)
(* The documents.                                                          *)
(***************************************************************************)

(* Nothing of these is retrievable, nor ever will be.                      *)
Dead == {"failed", "withdrawn", "deleted"}

(* What a document that was ready may have become.                         *)
Settled == {"ready", "withdrawn", "deleted"}

(* What a step may do to one document.                                     *)
DocumentStep(d) ==
    /\ stage'[d] \in Lifecycle!Stages
    /\ size'[d] \in 0 .. MaxChunks
    /\ retrievable'[d] \in SUBSET (0 .. (MaxChunks - 1))
    /\ stage'[d] = "ready" => retrievable'[d] = 0 .. (size'[d] - 1)
    /\ stage'[d] \in Dead => retrievable'[d] = {}
    /\ stage[d] \in Dead => stage'[d] \in Dead
    /\ stage[d] \in Settled => stage'[d] \in Settled
    /\ stage[d] \in Settled /\ stage'[d] = "ready" => stage[d] = "ready" /\ size'[d] = size[d]

LEMMA LifecycleSteps ==
    ASSUME Lifecycle!TypeOK, Lifecycle!ListingAgrees, Lifecycle!Next, NEW d \in Docs
    PROVE  DocumentStep(d)
<1> USE DEF DocumentStep, Dead, Settled, Lifecycle!Stages
<1>0. /\ stage \in [Docs -> Lifecycle!Stages]
      /\ size \in [Docs -> 0 .. MaxChunks]
      /\ retrievable \in [Docs -> SUBSET (0 .. (MaxChunks - 1))]
      /\ MaxChunks \in Nat
  BY RetrievalAssumption DEF Lifecycle!TypeOK
<1>1. /\ stage[d] = "ready" => retrievable[d] = 0 .. (size[d] - 1)
      /\ stage[d] \in Dead => retrievable[d] = {}
  BY DEF Lifecycle!ListingAgrees
<1>2. PICK e \in Docs :
        \/ Lifecycle!Index(e) \/ Lifecycle!Accept(e) \/ Lifecycle!Refuse(e)
        \/ Lifecycle!Withdraw(e) \/ Lifecycle!Delete(e)
        \/ Lifecycle!Doubt(e) \/ Lifecycle!Drift(e)
  BY DEF Lifecycle!Next
<1>3. CASE d # e
  <2>1. stage'[d] = stage[d] /\ size'[d] = size[d] /\ retrievable'[d] = retrievable[d]
    BY <1>0, <1>2, <1>3 DEF Lifecycle!Index, Lifecycle!Accept, Lifecycle!Refuse,
       Lifecycle!Withdraw, Lifecycle!Delete, Lifecycle!Doubt, Lifecycle!Drift
  <2>2. /\ stage[d] \in Lifecycle!Stages /\ size[d] \in 0 .. MaxChunks
        /\ retrievable[d] \in SUBSET (0 .. (MaxChunks - 1))
    BY <1>0
  <2> QED
    BY <1>1, <2>1, <2>2
<1>4. CASE d = e /\ Lifecycle!Index(d)
  <2>1. PICK n \in 0 .. MaxChunks : retrievable' = [retrievable EXCEPT ![d] = 0 .. (n - 1)]
    BY <1>4 DEF Lifecycle!Index
  <2>2. stage' = stage /\ size' = size /\ stage[d] = "unlisted"
    BY <1>4 DEF Lifecycle!Index
  <2>3. retrievable'[d] \in SUBSET (0 .. (MaxChunks - 1))
    BY <1>0, <2>1
  <2> QED
    BY <1>0, <2>2, <2>3
<1>5. CASE d = e /\ Lifecycle!Accept(d)
  <2>1. PICK n \in 0 .. MaxChunks :
          retrievable[d] = 0 .. (n - 1) /\ size' = [size EXCEPT ![d] = n]
    BY <1>5 DEF Lifecycle!Accept
  <2>2. /\ stage' = [stage EXCEPT ![d] = "ready"] /\ retrievable' = retrievable
        /\ stage[d] = "unlisted"
    BY <1>5 DEF Lifecycle!Accept
  <2>3. stage'[d] = "ready" /\ size'[d] = n
    BY <1>0, <2>1, <2>2
  <2>4. retrievable'[d] \in SUBSET (0 .. (MaxChunks - 1))
    BY <1>0, <2>2
  <2> QED
    BY <2>1, <2>2, <2>3, <2>4
<1>6. CASE d = e /\ Lifecycle!Refuse(d)
  BY <1>0, <1>6 DEF Lifecycle!Refuse
<1>7. CASE d = e /\ Lifecycle!Withdraw(d)
  BY <1>0, <1>7 DEF Lifecycle!Withdraw
<1>8. CASE d = e /\ Lifecycle!Delete(d)
  BY <1>0, <1>1, <1>8 DEF Lifecycle!Delete
<1>9. CASE d = e /\ Lifecycle!Doubt(d)
  BY <1>0, <1>9 DEF Lifecycle!Doubt
<1>10. CASE d = e /\ Lifecycle!Drift(d)
  BY <1>0, <1>10 DEF Lifecycle!Drift
<1> QED
  BY <1>2, <1>3, <1>4, <1>5, <1>6, <1>7, <1>8, <1>9, <1>10

(* A step of the documents keeps what DocumentLifecycle promises.          *)
LEMMA LifecycleStays ==
    ASSUME Lifecycle!TypeOK, Lifecycle!ListingAgrees, Lifecycle!Next
    PROVE  Lifecycle!TypeOK' /\ Lifecycle!ListingAgrees'
<1>1. \A d \in Docs : DocumentStep(d)
  BY LifecycleSteps
<1>2. stage' = [d \in Docs |-> stage'[d]] /\ size' = [d \in Docs |-> size'[d]]
      /\ retrievable' = [d \in Docs |-> retrievable'[d]]
  BY DEF Lifecycle!TypeOK, Lifecycle!Next, Lifecycle!Index, Lifecycle!Accept, Lifecycle!Refuse,
     Lifecycle!Withdraw, Lifecycle!Delete, Lifecycle!Doubt, Lifecycle!Drift
<1>3. Lifecycle!TypeOK'
  BY <1>1, <1>2 DEF DocumentStep, Lifecycle!TypeOK
<1>4. Lifecycle!ListingAgrees'
  BY <1>1 DEF DocumentStep, Lifecycle!ListingAgrees, Dead
<1> QED
  BY <1>3, <1>4

-----------------------------------------------------------------------------
(***************************************************************************)
(* The question.                                                           *)
(***************************************************************************)

(* What was asked of is not undone.                                        *)
AskedOK ==
    \A d \in Docs :
        /\ asked[d] \in Dead => stage[d] \in Dead
        /\ asked[d] = "ready" => stage[d] \in Settled

(* Nothing is cited before something was read, and a summary of a          *)
(* selection is never searched for.                                        *)
PhaseOK ==
    /\ phase # "stream" => cited = <<>>
    /\ phase \in {"embed", "search"} => ~(summary /\ scope # {})

(* The inductive invariant.                                                *)
IInv ==
    /\ TypeOK /\ Lifecycle!ListingAgrees
    /\ AskedOK /\ PhaseOK
    /\ CitationsAreOwn /\ CitationsInScope /\ DeletedUncited
    /\ SummaryIsWhole

(* The documents of the user who asks, and all their chunks (the LET of    *)
(* SummaryIsWhole).                                                        *)
Own   == {d \in scope : owner[d] = asker}
Whole == {c \in Chunk : c.document \in Own /\ c.index < size[c.document]}

LEMMA SummaryForm ==
    SummaryIsWhole <=>
        ((/\ phase = "stream" /\ summary /\ scope # {}
          /\ \A d \in Own : asked[d] = "ready" /\ stage[d] = "ready"
          /\ Cardinality(Whole) =< SummaryMax)
         => cited = ReadingOrder(Whole))
BY DEF SummaryIsWhole, Own, Whole

(* Before an answer is streamed, the properties ask for nothing.           *)
LEMMA NothingCited ==
    ASSUME phase' # "stream", cited' = <<>>
    PROVE  CitationsAreOwn' /\ CitationsInScope' /\ DeletedUncited' /\ SummaryIsWhole'
BY DEF CitationsAreOwn, CitationsInScope, DeletedUncited, SummaryIsWhole, CitedDocuments

(* A chunk that matches is its asker's, selected, and of a document that   *)
(* was alive when it was asked for.                                        *)
LEMMA MatchingOK ==
    ASSUME IInv, NEW c \in SearchMatches
    PROVE  /\ c \in Chunk
           /\ owner[c.document] = asker
           /\ scope # {} => c.document \in scope
           /\ asked[c.document] \notin Dead
<1>1. c \in Indexed /\ owner[c.document] = asker /\ (scope = {} \/ c.document \in scope)
  BY DEF SearchMatches
<1>2. PICK d \in Docs : c \in {[document |-> d, index |-> i] : i \in retrievable[d]}
  BY <1>1 DEF Indexed
<1>3. PICK i \in retrievable[d] : c = [document |-> d, index |-> i]
  BY <1>2
<1>4. retrievable[d] \subseteq 0 .. (MaxChunks - 1)
  BY DEF IInv, TypeOK, Lifecycle!TypeOK
<1>5. c \in Chunk /\ c.document = d
  BY <1>3, <1>4 DEF Chunk
<1>6. stage[d] \notin Dead
  BY <1>3 DEF IInv, Lifecycle!ListingAgrees, Dead
<1> QED
  BY <1>1, <1>5, <1>6 DEF IInv, AskedOK

(* Citing any sequence of chunks that match is right, but for a summary,   *)
(* of which more is asked.                                                 *)
LEMMA CiteKeeps ==
    ASSUME IInv, phase # "idle", NEW chunks \in Seq(SearchMatches), Cite(chunks),
           Len(chunks) =< IF summary /\ scope # {} THEN SummaryMax ELSE TopK,
           SummaryIsWhole'
    PROVE  IInv'
<1>1. /\ cited' = chunks /\ phase' = "stream"
      /\ stage' = stage /\ size' = size /\ retrievable' = retrievable
      /\ owner' = owner /\ collection' = collection /\ asker' = asker /\ scope' = scope
      /\ summary' = summary /\ asked' = asked
  BY DEF Cite, documents
<1>2. Lifecycle!TypeOK' /\ Lifecycle!ListingAgrees' /\ AskedOK' /\ PhaseOK'
  BY <1>1 DEF IInv, TypeOK, Lifecycle!TypeOK, Lifecycle!ListingAgrees, AskedOK, PhaseOK
<1>3. chunks \in Seq(Chunk)
  <2>1. SearchMatches \subseteq Chunk
    BY MatchingOK
  <2> QED
    BY <2>1
<1>4. TypeOK'
  BY <1>1, <1>2, <1>3 DEF IInv, TypeOK, Phases
<1>5. \A d \in CitedDocuments' : \E c \in SearchMatches : d = c.document
  <2>1. \A i \in DOMAIN chunks : chunks[i] \in SearchMatches
    OBVIOUS
  <2> QED
    BY <1>1, <2>1 DEF CitedDocuments
<1>6. CitationsAreOwn' /\ CitationsInScope' /\ DeletedUncited'
  BY <1>1, <1>5, MatchingOK DEF CitationsAreOwn, CitationsInScope, DeletedUncited, Dead
<1> QED
  BY <1>2, <1>4, <1>6 DEF IInv

(* search: whatever is near, in whatever order.                            *)
LEMMA SearchKeeps ==
    ASSUME IInv, Search
    PROVE  IInv'
<1>1. PICK chunks \in SetToAllKPermutations(SearchMatches) : Len(chunks) =< TopK /\ Cite(chunks)
  BY DEF Search
<1>2. PICK S \in SUBSET SearchMatches : chunks \in SetToSeqs(S)
  BY DEF SetToAllKPermutations
<1>3. chunks \in Seq(SearchMatches)
  <2>1. S \in SUBSET Chunk
    BY MatchingOK
  <2>2. Cardinality(S) \in Nat
    BY <2>1, RankIsPlace
  <2>3. chunks \in [1 .. Cardinality(S) -> S]
    BY <1>2 DEF SetToSeqs
  <2>4. chunks \in [1 .. Cardinality(S) -> SearchMatches]
    BY <2>3
  <2> QED
    BY <2>2, <2>4
<1>4. phase = "search" /\ ~(summary /\ scope # {})
  BY DEF Search, IInv, PhaseOK
<1>5. SummaryIsWhole'
  BY <1>1, <1>4 DEF Cite, SummaryIsWhole
<1> QED
  BY <1>1, <1>3, <1>4, <1>5, CiteKeeps

(* The filters of the two reads, which are built apart, agree when there   *)
(* is a selection.                                                         *)
LEMMA FiltersAgree == scope # {} => ScrollMatches = SearchMatches
BY DEF ScrollMatches, SearchMatches

(* scroll_documents: all that match, or as many as the limit allows.       *)
LEMMA ScrollKeeps ==
    ASSUME IInv, Scroll
    PROVE  IInv'
<1>0. phase = "scroll" /\ summary /\ scope # {} /\ ScrollMatches = SearchMatches
  BY FiltersAgree DEF Scroll, IInv, TypeOK
<1>1. PICK S \in SUBSET ScrollMatches :
        /\ Cardinality(S) = SummaryMax \/ (S = ScrollMatches /\ Cardinality(S) < SummaryMax)
        /\ Cite(ReadingOrder(S))
  BY DEF Scroll
<1>2. S \in SUBSET Chunk /\ ScrollMatches \in SUBSET Chunk
  BY <1>0, MatchingOK
<1>3. /\ ReadingOrder(S) \in Seq(SearchMatches)
      /\ Len(ReadingOrder(S)) =< SummaryMax
  <2>1. ReadingOrder(S) \in Seq(S) /\ Len(ReadingOrder(S)) = Cardinality(S)
    BY <1>2, ReadingOrderSorts
  <2>2. Cardinality(S) \in Nat /\ SummaryMax \in Nat
    BY <1>2, RankIsPlace, RetrievalAssumption
  <2> QED
    BY <1>0, <1>1, <2>1, <2>2
<1>4. phase = "scroll" /\ summary /\ scope # {}
  BY <1>0
<1>5. ASSUME \A d \in Own : asked[d] = "ready" /\ stage[d] = "ready",
             Cardinality(Whole) =< SummaryMax
      PROVE  S = Whole
  <2>1. ScrollMatches = Whole
    <3>1. ScrollMatches \subseteq Whole
      <4> SUFFICES ASSUME NEW c \in ScrollMatches
                   PROVE  c \in Whole
        OBVIOUS
      <4>1. c \in Chunk /\ c.document \in Own /\ c.document \in Docs
        BY <1>0, <1>4, MatchingOK DEF Own, Chunk
      <4>2. c.index \in retrievable[c.document]
        BY DEF ScrollMatches, Indexed
      <4>3. retrievable[c.document] = 0 .. (size[c.document] - 1) /\ size[c.document] \in Nat
        BY <1>5, <4>1 DEF IInv, Lifecycle!ListingAgrees, TypeOK, Lifecycle!TypeOK
      <4> QED
        BY <4>1, <4>2, <4>3 DEF Whole
    <3>2. Whole \subseteq ScrollMatches
      <4> SUFFICES ASSUME NEW c \in Whole
                   PROVE  c \in ScrollMatches
        OBVIOUS
      <4>1. /\ c \in Chunk /\ c.document \in Own /\ c.index < size[c.document]
            /\ c.document \in Docs /\ c.index \in 0 .. (MaxChunks - 1)
        BY DEF Whole, Chunk
      <4>2. retrievable[c.document] = 0 .. (size[c.document] - 1) /\ size[c.document] \in Nat
        BY <1>5, <4>1 DEF IInv, Lifecycle!ListingAgrees, TypeOK, Lifecycle!TypeOK
      <4>3. c.index \in retrievable[c.document]
        BY <4>1, <4>2, RetrievalAssumption
      <4>4. c = [document |-> c.document, index |-> c.index]
        BY <4>1 DEF Chunk
      <4>5. c \in Indexed
        BY <4>1, <4>3, <4>4 DEF Indexed
      <4> QED
        BY <4>1, <4>5 DEF ScrollMatches, Own
    <3> QED
      BY <3>1, <3>2
  <2>2. /\ IsFiniteSet(ScrollMatches) /\ Cardinality(ScrollMatches) \in Nat /\ Cardinality(S) \in Nat
        /\ SummaryMax \in Nat
    BY <1>2, RankIsPlace, RetrievalAssumption
  <2>3. Cardinality(S) <= Cardinality(ScrollMatches)
        /\ (Cardinality(ScrollMatches) = Cardinality(S) => ScrollMatches = S)
    BY <2>2, FS_Subset
  <2>4. S # ScrollMatches => Cardinality(S) = SummaryMax
    BY <1>1
  <2> QED
    BY <1>5, <2>1, <2>2, <2>3, <2>4
<1>6. SummaryIsWhole'
  <2>1. /\ Own' = Own /\ Whole' = Whole /\ stage' = stage /\ asked' = asked
        /\ cited' = ReadingOrder(S)
    BY <1>1 DEF Cite, documents, Own, Whole
  <2>2. ASSUME \A d \in Own' : asked'[d] = "ready" /\ stage'[d] = "ready",
               Cardinality(Whole') =< SummaryMax
        PROVE  cited' = ReadingOrder(Whole')
    BY <1>5, <2>1, <2>2
  <2> QED
    BY <2>2 DEF SummaryIsWhole, Own, Whole
<1> QED
  BY <1>1, <1>3, <1>4, <1>6, CiteKeeps

(* Documents move under a question: who owns them does not change, what    *)
(* had become of one is not undone, and one that is still ready has the    *)
(* chunks it had.                                                          *)
LEMMA DocumentsMoveKeeps ==
    ASSUME IInv, DocumentsMove
    PROVE  IInv'
<1>1. Lifecycle!Next /\ UNCHANGED <<owner, collection, question>>
  BY DEF DocumentsMove
<1>2. /\ owner' = owner /\ collection' = collection /\ phase' = phase /\ asker' = asker
      /\ scope' = scope /\ summary' = summary /\ cited' = cited /\ asked' = asked
  BY <1>1 DEF question
<1>3. Lifecycle!TypeOK /\ Lifecycle!ListingAgrees
  BY DEF IInv, TypeOK
<1>4. \A d \in Docs : DocumentStep(d)
  BY <1>1, <1>3, LifecycleSteps
<1>5. Lifecycle!TypeOK' /\ Lifecycle!ListingAgrees'
  BY <1>1, <1>3, LifecycleStays
<1>6. TypeOK' /\ PhaseOK'
  BY <1>2, <1>5 DEF IInv, TypeOK, PhaseOK
<1>7. AskedOK'
  BY <1>2, <1>4 DEF IInv, AskedOK, DocumentStep
<1>8. CitationsAreOwn' /\ CitationsInScope' /\ DeletedUncited'
  BY <1>2 DEF IInv, CitationsAreOwn, CitationsInScope, DeletedUncited, CitedDocuments
<1>9. SummaryIsWhole'
  <2>1. Own' = Own /\ Own \subseteq Docs
    BY <1>2 DEF Own, IInv, TypeOK
  <2>2. ASSUME phase' = "stream", summary', scope' # {},
               \A d \in Own' : asked'[d] = "ready" /\ stage'[d] = "ready",
               Cardinality(Whole') =< SummaryMax
        PROVE  cited' = ReadingOrder(Whole')
    <3>1. ASSUME NEW d \in Own
          PROVE  asked[d] = "ready" /\ stage[d] = "ready" /\ size'[d] = size[d]
      <4>1. d \in Docs /\ asked[d] = "ready" /\ stage'[d] = "ready"
        BY <1>2, <2>1, <2>2
      <4>2. stage[d] \in Settled
        BY <4>1 DEF IInv, AskedOK
      <4> QED
        BY <1>4, <4>1, <4>2 DEF DocumentStep
    <3>2. Whole' = Whole
      BY <2>1, <3>1 DEF Whole
    <3> QED
      BY <1>2, <2>2, <3>1, <3>2, SummaryForm DEF IInv
  <2> QED
    BY <2>2 DEF SummaryIsWhole, Own, Whole
<1> QED
  BY <1>5, <1>6, <1>7, <1>8, <1>9 DEF IInv

LEMMA AskKeeps ==
    ASSUME IInv, NEW u \in Users, NEW ids \in SUBSET Docs, NEW isSummary \in BOOLEAN,
           Ask(u, ids, isSummary)
    PROVE  IInv'
<1>1. /\ phase = "idle" /\ phase' = IF ids # {} /\ isSummary THEN "scroll" ELSE "embed"
      /\ asker' = u /\ scope' = ids /\ summary' = isSummary /\ asked' = stage
      /\ stage' = stage /\ size' = size /\ retrievable' = retrievable
      /\ owner' = owner /\ collection' = collection /\ cited' = cited
  BY DEF Ask, documents
<1>2. cited = <<>>
  BY <1>1 DEF IInv, PhaseOK
<1>3. Lifecycle!TypeOK' /\ Lifecycle!ListingAgrees'
  BY <1>1 DEF IInv, TypeOK, Lifecycle!TypeOK, Lifecycle!ListingAgrees
<1>4. TypeOK'
  <2>1. /\ cited' \in Seq(Chunk)
        /\ Len(cited') =< IF summary' /\ scope' # {} THEN SummaryMax ELSE TopK
    BY <1>1, <1>2, RetrievalAssumption
  <2>2. u # None /\ stage \in [Docs -> Lifecycle!Stages]
    BY RetrievalAssumption DEF IInv, TypeOK, Lifecycle!TypeOK
  <2> QED
    BY <1>1, <1>3, <2>1, <2>2 DEF IInv, TypeOK, Phases
<1>5. AskedOK' /\ PhaseOK'
  BY <1>1, <1>2 DEF AskedOK, PhaseOK, Settled
<1>6. phase' # "stream" /\ cited' = <<>>
  BY <1>1, <1>2
<1> QED
  BY <1>3, <1>4, <1>5, <1>6, NothingCited DEF IInv

(* The question is over.                                                   *)
LEMMA EndKeeps ==
    ASSUME IInv, EndQuestion, UNCHANGED <<documents, owner, collection>>
    PROVE  IInv'
<1>1. /\ phase' = "idle" /\ asker' = None /\ scope' = {} /\ summary' = FALSE /\ cited' = <<>>
      /\ asked' = [d \in Docs |-> "unlisted"]
      /\ stage' = stage /\ size' = size /\ retrievable' = retrievable
      /\ owner' = owner /\ collection' = collection
  BY DEF EndQuestion, documents
<1>2. Lifecycle!TypeOK' /\ Lifecycle!ListingAgrees'
  BY <1>1 DEF IInv, TypeOK, Lifecycle!TypeOK, Lifecycle!ListingAgrees
<1>3. TypeOK'
  <2>1. cited' \in Seq(Chunk) /\ Len(cited') =< TopK
    BY <1>1, RetrievalAssumption
  <2> QED
    BY <1>1, <1>2, <2>1 DEF IInv, TypeOK, Phases, Lifecycle!Stages
<1>4. AskedOK' /\ PhaseOK'
  BY <1>1 DEF AskedOK, PhaseOK, Dead
<1> QED
  BY <1>1, <1>2, <1>3, <1>4, NothingCited DEF IInv

-----------------------------------------------------------------------------

LEMMA InitHolds == Init => IInv
<1> SUFFICES ASSUME Init
             PROVE  IInv
  OBVIOUS
<1>1. /\ stage = [d \in Docs |-> "unlisted"] /\ size = [d \in Docs |-> 0]
      /\ retrievable = [d \in Docs |-> {}]
      /\ owner \in [Docs -> Users] /\ collection = FALSE
      /\ phase = "idle" /\ asker = None /\ scope = {} /\ summary = FALSE /\ cited = <<>>
      /\ asked = stage
  BY DEF Init, Lifecycle!Init
<1>2. Lifecycle!TypeOK /\ Lifecycle!ListingAgrees
  BY <1>1, RetrievalAssumption DEF Lifecycle!TypeOK, Lifecycle!Stages, Lifecycle!ListingAgrees
<1>3. TypeOK
  <2>1. cited \in Seq(Chunk) /\ Len(cited) =< TopK
    BY <1>1, RetrievalAssumption
  <2> QED
    BY <1>1, <1>2, <2>1 DEF TypeOK, Phases, Lifecycle!TypeOK
<1>4. AskedOK /\ PhaseOK
  BY <1>1 DEF AskedOK, PhaseOK, Dead
<1>5. CitationsAreOwn /\ CitationsInScope /\ DeletedUncited /\ SummaryIsWhole
  BY <1>1 DEF CitationsAreOwn, CitationsInScope, DeletedUncited, SummaryIsWhole, CitedDocuments
<1> QED
  BY <1>2, <1>3, <1>4, <1>5 DEF IInv

LEMMA NextKeeps == IInv /\ [Next]_vars => IInv'
<1> SUFFICES ASSUME IInv, [Next]_vars
             PROVE  IInv'
  OBVIOUS
<1>1. CASE CreateCollection
  BY <1>1 DEF CreateCollection, documents, question, IInv, TypeOK, Lifecycle!TypeOK,
     Lifecycle!ListingAgrees, AskedOK, PhaseOK, CitationsAreOwn, CitationsInScope,
     DeletedUncited, SummaryIsWhole, CitedDocuments
<1>2. CASE DocumentsMove
  BY <1>2, DocumentsMoveKeeps
<1>3. ASSUME NEW u \in Users, NEW ids \in SUBSET Docs, NEW isSummary \in BOOLEAN,
             Ask(u, ids, isSummary)
      PROVE  IInv'
  BY <1>3, AskKeeps
<1>4. CASE EmbedQuery
  <2>1. /\ phase = "embed" /\ phase' = "search"
        /\ stage' = stage /\ size' = size /\ retrievable' = retrievable
        /\ owner' = owner /\ collection' = collection /\ asker' = asker /\ scope' = scope
        /\ summary' = summary /\ cited' = cited /\ asked' = asked
    BY <1>4 DEF EmbedQuery, documents
  <2>2. cited = <<>> /\ PhaseOK'
    BY <2>1 DEF IInv, PhaseOK
  <2>3. TypeOK' /\ Lifecycle!ListingAgrees' /\ AskedOK'
    BY <2>1 DEF IInv, TypeOK, Phases, Lifecycle!TypeOK, Lifecycle!ListingAgrees, AskedOK
  <2> QED
    BY <2>1, <2>2, <2>3, NothingCited DEF IInv
<1>5. CASE Search
  BY <1>5, SearchKeeps
<1>6. CASE Scroll
  BY <1>6, ScrollKeeps
<1>7. CASE RetrievalRaises \/ AnswerEnds
  BY <1>7, EndKeeps DEF RetrievalRaises, AnswerEnds
<1>8. CASE UNCHANGED vars
  BY <1>8 DEF vars, documents, question, IInv, TypeOK, Lifecycle!TypeOK,
     Lifecycle!ListingAgrees, AskedOK, PhaseOK, CitationsAreOwn, CitationsInScope,
     DeletedUncited, SummaryIsWhole, CitedDocuments
<1> QED
  BY <1>1, <1>2, <1>3, <1>4, <1>5, <1>6, <1>7, <1>8 DEF Next

(* The inductive invariant holds in every state.                           *)
THEOREM Invariance == Spec => []IInv
<1> QED
  BY InitHolds, NextKeeps, PTL DEF Spec

(* Every variable keeps its type; in particular no answer cites more       *)
(* chunks than its limit, which needs that sorting a set of chunks keeps   *)
(* their number (rag.py retrieve, vectorstore.py scroll_documents).        *)
THEOREM RetrievalTypes == Spec => []TypeOK
<1>1. IInv => TypeOK
  BY DEF IInv
<1> QED
  BY <1>1, Invariance, PTL

(* An answer cites only documents of the user who asked, for any users,    *)
(* documents and document ids a request names (rag.py retrieve,            *)
(* vectorstore.py search and scroll_documents).                            *)
THEOREM CitationsAlwaysOwn == Spec => []CitationsAreOwn
<1>1. IInv => CitationsAreOwn
  BY DEF IInv
<1> QED
  BY <1>1, Invariance, PTL

(* An answer about a selection cites nothing else (rag.py retrieve).       *)
THEOREM CitationsAlwaysInScope == Spec => []CitationsInScope
<1>1. IInv => CitationsInScope
  BY DEF IInv
<1> QED
  BY <1>1, Invariance, PTL

(* An answer never cites a document that had failed, was withdrawn or      *)
(* deleted when the question was asked, however documents move while it is *)
(* answered (rag.py answer, routes_chat.py event_stream).                  *)
THEOREM DeletedNeverCited == Spec => []DeletedUncited
<1>1. IInv => DeletedUncited
  BY DEF IInv
<1> QED
  BY <1>1, Invariance, PTL

(* A summary of a selection that fits the limit quotes all of it, each     *)
(* chunk once and in order, for selections and limits of any size          *)
(* (vectorstore.py scroll_documents).                                      *)
THEOREM SummariesAreWhole == Spec => []SummaryIsWhole
<1>1. IInv => SummaryIsWhole
  BY DEF IInv
<1> QED
  BY <1>1, Invariance, PTL
=============================================================================
