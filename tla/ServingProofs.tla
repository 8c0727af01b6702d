--------------------------- MODULE ServingProofs ---------------------------
(***************************************************************************)
(* Proofs about Serving, for any number of requests and probes and a pool  *)
(* of any size.                                                            *)
(*                                                                         *)
(* That free stays a natural number no larger than the pool is not a       *)
(* matter of types: a request gives back a connection because it has one.  *)
(* So the invariant is TypeOK and ConnectionsAccounted together.           *)
(***************************************************************************)
EXTENDS Serving, FiniteSetTheorems, TLAPS

(* The slots that hold a connection when f is the phase of each.           *)
Holders(f) == {r \in Slots : f[r] \in Holding}

Inv == TypeOK /\ ConnectionsAccounted

(* There are finitely many holders: their number is a number.              *)
LEMMA HoldersFinite ==
    ASSUME NEW f
    PROVE  IsFiniteSet(Holders(f)) /\ Cardinality(Holders(f)) \in Nat
<1>1. IsFiniteSet(Holders(f))
  BY FS_Subset, ServingAssumption DEF Holders
<1>2. QED
  BY <1>1, FS_CardinalityType

(* A slot that moves within the phases with, or without, a connection      *)
(* changes nothing.                                                        *)
LEMMA HoldersKept ==
    ASSUME NEW f \in [Slots -> Phases], NEW r \in Slots, NEW p \in Phases,
           f[r] \in Holding <=> p \in Holding
    PROVE  Holders([f EXCEPT ![r] = p]) = Holders(f)
BY DEF Holders

(* A slot that takes a connection adds one holder.                         *)
LEMMA HoldersGrow ==
    ASSUME NEW f \in [Slots -> Phases], NEW r \in Slots, NEW p \in Holding,
           f[r] \notin Holding
    PROVE  Cardinality(Holders([f EXCEPT ![r] = p])) = Cardinality(Holders(f)) + 1
<1>1. Holders([f EXCEPT ![r] = p]) = Holders(f) \cup {r}
  BY DEF Holders
<1>2. r \notin Holders(f)
  BY DEF Holders
<1>3. QED
  BY <1>1, <1>2, HoldersFinite, FS_AddElement

(* A slot that gives its connection back leaves one holder fewer.          *)
LEMMA HoldersShrink ==
    ASSUME NEW f \in [Slots -> Phases], NEW r \in Slots, NEW p \in Phases \ Holding,
           f[r] \in Holding
    PROVE  Cardinality(Holders([f EXCEPT ![r] = p])) = Cardinality(Holders(f)) - 1
<1>1. Holders([f EXCEPT ![r] = p]) = Holders(f) \ {r}
  BY DEF Holders
<1>2. r \in Holders(f)
  BY DEF Holders
<1>3. QED
  BY <1>1, <1>2, HoldersFinite, FS_RemoveElement

(* No slot holds a connection when all are idle.                           *)
LEMMA HoldersOfIdle == Idle \in [Slots -> Phases] /\ Cardinality(Holders(Idle)) = 0
<1>1. Idle \in [Slots -> Phases]
  BY DEF Idle, Phases
<1>2. Holders(Idle) = {}
  BY DEF Holders, Idle, Holding
<1>3. QED
  BY <1>1, <1>2, FS_EmptySet

-----------------------------------------------------------------------------

(* The pool, its part of the invariant: what db.py engine and              *)
(* get_db_session have to keep.                                            *)
PoolOK ==
    /\ phase \in [Slots -> Phases]
    /\ free \in 0 .. PoolLimit
    /\ free + Cardinality(Holders(phase)) = PoolLimit

(* An end of a request, however it came to it, keeps the pool in order: it *)
(* gives back its connection if it has one, and nothing otherwise.         *)
LEMMA EndKeepsPool ==
    ASSUME PoolOK, NEW r \in Slots, Release(r), Goto(r, "idle")
    PROVE  PoolOK'
<1>1. "idle" \in Phases \ Holding
  BY DEF Phases, Holding
<1>2. phase' \in [Slots -> Phases]
  BY <1>1 DEF PoolOK, Goto
<1>3. Cardinality(Holders(phase)) \in Nat /\ Cardinality(Holders(phase')) \in Nat
  BY HoldersFinite
<1>4. CASE phase[r] \in Holding
  <2>1. free' = free + 1
    BY <1>4 DEF Release
  <2>2. Cardinality(Holders(phase')) = Cardinality(Holders(phase)) - 1
    BY <1>1, <1>4, HoldersShrink DEF PoolOK, Goto
  <2>3. QED
    BY <1>2, <1>3, <2>1, <2>2, ServingAssumption DEF PoolOK
<1>5. CASE phase[r] \notin Holding
  <2>1. free' = free
    BY <1>5 DEF Release
  <2>2. Holders(phase') = Holders(phase)
    BY <1>1, <1>5, HoldersKept DEF PoolOK, Goto
  <2>3. QED
    BY <1>2, <2>1, <2>2 DEF PoolOK
<1>6. QED
  BY <1>4, <1>5

(* A request that goes on with, or without, its connection keeps the pool  *)
(* in order.                                                               *)
LEMMA MoveKeepsPool ==
    ASSUME PoolOK, NEW r \in Slots, NEW p \in Phases, free' = free, Goto(r, p),
           phase[r] \in Holding <=> p \in Holding
    PROVE  PoolOK'
<1>1. Holders(phase') = Holders(phase)
  BY HoldersKept DEF PoolOK, Goto
<1>2. QED
  BY <1>1 DEF PoolOK, Goto

(* A checkout keeps the pool in order.                                     *)
LEMMA CheckOutKeepsPool ==
    ASSUME PoolOK, NEW r \in Slots, CheckOut(r)
    PROVE  PoolOK'
<1>1. PICK p \in {"ping", "open"} : Goto(r, p)
  BY DEF CheckOut
<1>2. p \in Holding /\ p \in Phases /\ phase[r] \notin Holding
  BY <1>1 DEF CheckOut, At, Holding, Phases
<1>3. Cardinality(Holders(phase)) \in Nat /\ Cardinality(Holders(phase')) \in Nat
  BY HoldersFinite
<1>4. Cardinality(Holders(phase')) = Cardinality(Holders(phase)) + 1
  BY <1>1, <1>2, HoldersGrow DEF PoolOK, Goto
<1>5. phase' \in [Slots -> Phases]
  BY <1>1, <1>2 DEF PoolOK, Goto
<1>6. free' \in 0 .. PoolLimit
  BY ServingAssumption DEF PoolOK, CheckOut
<1>7. QED
  BY <1>3, <1>4, <1>5, <1>6, ServingAssumption DEF PoolOK, CheckOut

(* What the probes and the event loop add to the types.                    *)
ProbesOK ==
    /\ loop \in Requests \cup {None}
    /\ database \in {"up", "down", "silent"}
    /\ probe \in Probes \cup {None}
    /\ missed \in 0 .. FailureThreshold
    /\ unhealthy \in 0 .. (FailureThreshold - 1)
    /\ ready \in BOOLEAN

(* A count of missed probes may begin anew.                                *)
LEMMA CountsBegin == 0 \in 0 .. FailureThreshold /\ 0 \in 0 .. (FailureThreshold - 1)
BY ServingAssumption

LEMMA InvSplits == Inv <=> PoolOK /\ ProbesOK
BY DEF Inv, TypeOK, ConnectionsAccounted, PoolOK, ProbesOK, Holders

LEMMA InitKeeps == Init => Inv
<1>1. Cardinality(Holders(Idle)) = 0 /\ Idle \in [Slots -> Phases]
  BY HoldersOfIdle
<1>2. Init => PoolOK
  BY <1>1, ServingAssumption DEF Init, PoolOK
<1>3. Init => ProbesOK
  BY CountsBegin DEF Init, ProbesOK
<1>4. QED
  BY <1>2, <1>3, InvSplits

(* An end changes, of the rest, what the kubelet makes of the answer.      *)
LEMMA EndKeeps ==
    ASSUME Inv, NEW r \in Slots, End(r)
    PROVE  Inv'
<1>1. PoolOK'
  BY EndKeepsPool, InvSplits DEF End
<1>2. ProbesOK'
  BY InvSplits, CountsBegin DEF End, Answered, ProbesOK, kubelet
<1>3. QED
  BY <1>1, <1>2, InvSplits DEF Inv, TypeOK, ConnectionsAccounted, PoolOK, ProbesOK, Holders

(* Every step of the replica, of Kubernetes and of Postgres keeps the      *)
(* invariant.                                                              *)
LEMMA NextKeeps == Inv /\ [Next]_vars => Inv'
<1> SUFFICES ASSUME Inv, [Next]_vars
             PROVE  PoolOK' /\ ProbesOK'
  BY DEF Inv, TypeOK, ConnectionsAccounted, PoolOK, ProbesOK, Holders
<1>0. PoolOK /\ ProbesOK
  BY InvSplits
<1> USE DEF Slots
<1>1. ASSUME NEW r \in Requests, Accept(r)
      PROVE  PoolOK' /\ ProbesOK'
  <2>1. "connect" \in Phases \ Holding /\ phase[r] \notin Holding
    BY <1>1 DEF Accept, At, Phases, Holding
  <2>2. PoolOK'
    BY <1>0, <1>1, <2>1, MoveKeepsPool DEF Accept
  <2>3. QED
    BY <1>0, <1>1, <2>2 DEF Accept, ProbesOK, kubelet
<1>2. ASSUME NEW r \in Requests, Parse(r)
      PROVE  PoolOK' /\ ProbesOK'
  <2>1. "parse" \in Phases \cap Holding /\ phase[r] \in Holding
    BY <1>2 DEF Parse, At, Phases, Holding
  <2>2. PoolOK'
    BY <1>0, <1>2, <2>1, MoveKeepsPool DEF Parse
  <2>3. QED
    BY <1>0, <1>2, <2>2 DEF Parse, ProbesOK, kubelet
<1>3. ASSUME NEW r \in Slots, CheckOut(r) \/ Connected(r)
      PROVE  PoolOK' /\ ProbesOK'
  <2>1. CASE CheckOut(r)
    BY <1>0, <2>1, CheckOutKeepsPool DEF CheckOut, ProbesOK, kubelet
  <2>2. CASE Connected(r)
    <3>1. "work" \in Phases \cap Holding /\ phase[r] \in Holding
      BY <2>2 DEF Connected, Connecting, Phases, Holding
    <3>2. PoolOK'
      BY <1>0, <2>2, <3>1, MoveKeepsPool DEF Connected
    <3>3. QED
      BY <1>0, <2>2, <3>2 DEF Connected, ProbesOK, kubelet
  <2>3. QED
    BY <1>3, <2>1, <2>2
<1>4. ASSUME NEW r \in Slots, ParseEnds(r)
      PROVE  PoolOK' /\ ProbesOK'
  <2>1. "index" \in Phases \cap Holding /\ phase[r] \in Holding
    BY <1>4 DEF ParseEnds, At, Phases, Holding
  <2>2. PoolOK'
    BY <1>0, <1>4, <2>1, MoveKeepsPool DEF ParseEnds
  <2>3. QED
    BY <1>0, <1>4, <2>2 DEF ParseEnds, ProbesOK, kubelet
<1>5. ASSUME NEW r \in Slots, Finish(r) \/ Refused(r) \/ OpenTimesOut(r) \/ GiveUp(r)
      PROVE  PoolOK' /\ ProbesOK'
  <2>1. End(r)
    BY <1>5 DEF Finish, Refused, OpenTimesOut, GiveUp
  <2>2. QED
    BY <2>1, EndKeeps DEF Inv, TypeOK, ConnectionsAccounted, PoolOK, ProbesOK, Holders
<1>6. ASSUME NEW p \in Probes, StartProbe(p)
      PROVE  PoolOK' /\ ProbesOK'
  <2>1. "connect" \in Phases \ Holding /\ phase[p] \notin Holding
    BY <1>6 DEF StartProbe, At, Phases, Holding
  <2>2. PoolOK'
    BY <1>0, <1>6, <2>1, MoveKeepsPool DEF StartProbe
  <2>3. QED
    BY <1>0, <1>6, <2>2 DEF StartProbe, ProbesOK
<1>7. CASE MissProbe
  <2>1. PoolOK'
    BY <1>0, <1>7 DEF MissProbe, PoolOK
  <2>2. QED
    BY <1>0, <1>7, <2>1, ServingAssumption DEF MissProbe, ProbesOK
<1>8. CASE Healthy \/ Unhealthy \/ DatabaseTurns
  <2>1. PoolOK'
    BY <1>0, <1>8 DEF Healthy, Unhealthy, DatabaseTurns, PoolOK
  <2>2. QED
    BY <1>0, <1>8, <2>1, ServingAssumption DEF Healthy, Unhealthy, DatabaseTurns, ProbesOK, kubelet
<1>9. CASE Restart
  <2>1. PoolOK'
    BY <1>9, HoldersOfIdle, ServingAssumption DEF Restart, PoolOK
  <2>2. QED
    BY <1>0, <1>9, <2>1, CountsBegin DEF Restart, ProbesOK
<1>10. CASE UNCHANGED vars
  BY <1>0, <1>10 DEF vars, kubelet, PoolOK, ProbesOK
<1>11. QED
  BY <1>1, <1>2, <1>3, <1>4, <1>5, <1>6, <1>7, <1>8, <1>9, <1>10 DEF Next, Continue

-----------------------------------------------------------------------------

(* The invariant holds in every behaviour.                                 *)
LEMMA Invariance == Spec => []Inv
BY InitKeeps, NextKeeps, PTL DEF Spec

(* Every variable of Serving keeps its type; of the connections that are   *)
(* free it takes the accounting to see it.                                 *)
THEOREM ServingTypes == Spec => []TypeOK
<1>1. Inv => TypeOK
  BY DEF Inv
<1>2. QED
  BY <1>1, Invariance, PTL

(* However requests end, no connection leaks and none is given back twice, *)
(* for any pool and any number of requests and probes (db.py               *)
(* get_db_session).                                                        *)
THEOREM PoolAccounted == Spec => []ConnectionsAccounted
<1>1. Inv => ConnectionsAccounted
  BY DEF Inv
<1>2. QED
  BY <1>1, Invariance, PTL
=============================================================================
