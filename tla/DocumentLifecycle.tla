------------------------- MODULE DocumentLifecycle -------------------------
(***************************************************************************)
(* What the document service promises of one document, without requests,   *)
(* transactions or calls: how the entry its owner sees in the list and the *)
(* chunks retrieval can return move together.                              *)
(*                                                                         *)
(*   - A document is listed "ready" only while all its chunks, and no      *)
(*     others, are retrievable.                                            *)
(*   - Once its chunks were withdrawn, or it was deleted, nothing of it    *)
(*     is retrievable again.                                               *)
(*   - The one exception is a document whose upsert the service gave up    *)
(*     waiting for.  It is "doubtful" for good, never "ready", and the     *)
(*     service promises nothing about its chunks.                          *)
(***************************************************************************)
EXTENDS Naturals

CONSTANTS Docs, MaxChunks

Stages == {"unlisted", "ready", "failed", "withdrawn", "deleted", "doubtful"}

VARIABLES
    stage,          \* what became of each document
    size,           \* the chunk count its listing shows
    retrievable     \* the chunk indexes retrieval can return

vars == <<stage, size, retrievable>>

Init ==
    /\ stage = [d \in Docs |-> "unlisted"]
    /\ size = [d \in Docs |-> 0]
    /\ retrievable = [d \in Docs |-> {}]

(* All chunks of a document become retrievable at once.                    *)
Index(d) ==
    /\ stage[d] = "unlisted" /\ retrievable[d] = {}
    /\ \E n \in 0 .. MaxChunks :
        retrievable' = [retrievable EXCEPT ![d] = 0 .. (n - 1)]
    /\ UNCHANGED <<stage, size>>

(* A document is listed as ready with the chunks that are retrievable.     *)
Accept(d) ==
    /\ stage[d] = "unlisted"
    /\ \E n \in 0 .. MaxChunks :
        /\ retrievable[d] = 0 .. (n - 1)
        /\ size' = [size EXCEPT ![d] = n]
    /\ stage' = [stage EXCEPT ![d] = "ready"]
    /\ UNCHANGED retrievable

Refuse(d) ==
    /\ stage[d] = "unlisted" /\ retrievable[d] = {}
    /\ stage' = [stage EXCEPT ![d] = "failed"]
    /\ UNCHANGED <<size, retrievable>>

Withdraw(d) ==
    /\ stage[d] = "ready"
    /\ stage' = [stage EXCEPT ![d] = "withdrawn"]
    /\ retrievable' = [retrievable EXCEPT ![d] = {}]
    /\ UNCHANGED size

Delete(d) ==
    /\ stage[d] \in {"withdrawn", "failed"}
    /\ stage' = [stage EXCEPT ![d] = "deleted"]
    /\ size' = [size EXCEPT ![d] = 0]
    /\ UNCHANGED retrievable

(* The answer to an upsert did not arrive.                                 *)
Doubt(d) ==
    /\ stage[d] = "unlisted" /\ retrievable[d] = {}
    /\ stage' = [stage EXCEPT ![d] = "doubtful"]
    /\ UNCHANGED <<size, retrievable>>

(* The chunks of a doubtful document come and go.                          *)
Drift(d) ==
    /\ stage[d] = "doubtful"
    /\ \E c \in SUBSET (0 .. (MaxChunks - 1)) :
        retrievable' = [retrievable EXCEPT ![d] = c]
    /\ UNCHANGED <<stage, size>>

Next ==
    \E d \in Docs :
        \/ Index(d) \/ Accept(d) \/ Refuse(d)
        \/ Withdraw(d) \/ Delete(d)
        \/ Doubt(d) \/ Drift(d)

Spec == Init /\ [][Next]_vars

-----------------------------------------------------------------------------

TypeOK ==
    /\ stage \in [Docs -> Stages]
    /\ size \in [Docs -> 0 .. MaxChunks]
    /\ retrievable \in [Docs -> SUBSET (0 .. (MaxChunks - 1))]

(* What the listing shows and what retrieval returns agree.                *)
ListingAgrees ==
    \A d \in Docs :
        /\ stage[d] = "ready" => retrievable[d] = 0 .. (size[d] - 1)
        /\ stage[d] \in {"failed", "withdrawn", "deleted"} => retrievable[d] = {}
=============================================================================
