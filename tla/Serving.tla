------------------------------ MODULE Serving ------------------------------
(***************************************************************************)
(* One replica that serves requests: its pool of database connections      *)
(* (app/db.py), the event loop its handlers share, and the probes of       *)
(* Kubernetes (app/api/routes_health.py, k8s/base/deployment.yaml), which  *)
(* decide whether it is sent requests and whether it is restarted.         *)
(*                                                                         *)
(* A request takes a connection with its first statement, in               *)
(* get_current_user, and keeps it until get_db_session ends: for a whole   *)
(* ingestion, or a whole streamed answer.  /ready is such a request, too.  *)
(***************************************************************************)
EXTENDS Naturals, FiniteSets

CONSTANTS
    Requests,         \* slots for requests that are served at the same time
    Probes,           \* slots for calls of /ready that are served, some given up
    PoolLimit,        \* db_pool_size + db_max_overflow
    FailureThreshold, \* the kubelet's: 3, as deployment.yaml sets none
    None              \* nobody blocks the event loop; no probe is awaited

Slots == Requests \cup Probes

ASSUME ServingAssumption ==
    /\ PoolLimit \in Nat \ {0}
    /\ FailureThreshold \in Nat \ {0}
    /\ Requests \cap Probes = {} /\ IsFiniteSet(Slots) /\ None \notin Slots

(***************************************************************************)
(*   connect  waits for a connection                                       *)
(*   ping     has one of the pool's, which pool_pre_ping tries             *)
(*   open     opens a new one, which counts against the pool               *)
(*   work     has one, and awaits Postgres, a model or its client          *)
(*   parse    has one, and runs extract_text and chunk_text without await  *)
(*   index    has one, and awaits the embedding and Qdrant                 *)
(***************************************************************************)
Holding == {"ping", "open", "work", "parse", "index"}
Phases  == {"idle", "connect"} \cup Holding

VARIABLES
    phase,    \* per slot: where the request stands
    free,     \* connections the pool may still hand out
    loop,     \* the request that keeps the event loop busy
    database, \* does Postgres answer, refuse connections, or keep silent?
    probe,    \* the call of /ready the kubelet awaits
    missed,   \* readiness probes missed in a row
    unhealthy,\* liveness probes missed in a row
    ready     \* is the replica sent requests?

kubelet == <<probe, missed, unhealthy, ready>>
vars    == <<phase, free, loop, database, kubelet>>

TypeOK ==
    /\ phase \in [Slots -> Phases]
    /\ free \in 0 .. PoolLimit
    /\ loop \in Requests \cup {None}
    /\ database \in {"up", "down", "silent"}
    /\ probe \in Probes \cup {None}
    /\ missed \in 0 .. FailureThreshold
    /\ unhealthy \in 0 .. (FailureThreshold - 1)
    /\ ready \in BOOLEAN

Idle == [r \in Slots |-> "idle"]

(* The container has started; its first probe is still to come.            *)
Init ==
    /\ phase = Idle /\ free = PoolLimit /\ loop = None
    /\ database = "up"
    /\ probe = None /\ missed = 0 /\ unhealthy = 0 /\ ready = FALSE

-----------------------------------------------------------------------------
(***************************************************************************)
(* Requests.                                                               *)
(***************************************************************************)

At(r, p) == phase[r] = p

Goto(r, p) == phase' = [phase EXCEPT ![r] = p]

(* The Service routes requests to a replica that is ready.                 *)
Accept(r) ==
    /\ At(r, "idle") /\ ready
    /\ Goto(r, "connect")
    /\ UNCHANGED <<free, loop, database, kubelet>>

(* Mutated form of CheckOut: overflow connections are not counted.         *)
CheckOutUncounted(r) ==
    /\ At(r, "connect")
    /\ free' = free - 1
    /\ Goto(r, "ping") \/ Goto(r, "open")
    /\ UNCHANGED <<loop, database, kubelet>>

(* The first statement checks a connection out: one the pool has at hand,  *)
(* or a new one.                                                           *)
CheckOut(r) ==
    /\ At(r, "connect") /\ free > 0
    /\ free' = free - 1
    /\ Goto(r, "ping") \/ Goto(r, "open")
    /\ UNCHANGED <<loop, database, kubelet>>

Connecting(r) == phase[r] \in {"ping", "open"}

(* The ping, or the login of a new connection, was answered.               *)
Connected(r) ==
    /\ Connecting(r) /\ database = "up"
    /\ Goto(r, "work")
    /\ UNCHANGED <<free, loop, database, kubelet>>

(* extract_text and chunk_text run on the event loop.  The callbacks of    *)
(* other requests, which have to wait, commute with them; that they may    *)
(* run earlier here makes a difference to the probes only, which need not  *)
(* be answered meanwhile (MissProbe, Unhealthy).                           *)
Parse(r) ==
    /\ At(r, "work") /\ loop = None
    /\ loop' = r
    /\ Goto(r, "parse")
    /\ UNCHANGED <<free, database, kubelet>>

ParseEnds(r) ==
    /\ At(r, "parse")
    /\ loop' = None
    /\ Goto(r, "index")
    /\ UNCHANGED <<free, database, kubelet>>

(* What the kubelet makes of a 200, if it still awaits the answer.         *)
Answered(r) ==
    IF probe = r
    THEN probe' = None /\ missed' = 0 /\ ready' = TRUE /\ UNCHANGED unhealthy
    ELSE UNCHANGED kubelet

(* Mutated forms of Release: a cancelled request is not closed; a request  *)
(* gives back what it never had.                                           *)
ReleaseUnlessCancelled(r) ==
    IF phase[r] \in Holding THEN free' \in {free, free + 1} ELSE UNCHANGED free

ReleaseAlways(r) == free' = IF free < PoolLimit THEN free + 1 ELSE free

(* get_db_session commits, rolls back or is cancelled; its finally clause  *)
(* closes the session, and the connection it has goes back to the pool.    *)
Release(r) == free' = IF phase[r] \in Holding THEN free + 1 ELSE free

End(r) ==
    /\ Release(r)
    /\ Goto(r, "idle")
    /\ Answered(r)
    /\ UNCHANGED <<loop, database>>

(* The handler returned, raised or lost its client, and Postgres answered  *)
(* the COMMIT or ROLLBACK, or is seen to be gone.  No statement has a      *)
(* timeout: as long as Postgres is silent, the request stays.  /ready      *)
(* answers 200 whether its SELECT 1 raised or not.                         *)
Finish(r) ==
    /\ phase[r] \in {"work", "index"} /\ database # "silent"
    /\ End(r)

(* Postgres refuses the connection: an error, but for /ready a 200.        *)
Refused(r) ==
    /\ Connecting(r) /\ database = "down"
    /\ End(r)

(* A silent Postgres does not accept a new connection within the client's  *)
(* timeout, which is longer than a kubelet waits.  A ping has none.        *)
OpenTimesOut(r) ==
    /\ At(r, "open") /\ database = "silent"
    /\ probe # r
    /\ End(r)

(* Mutated form of GiveUp: only /ready stops waiting for a connection.     *)
GiveUpProbes(r) ==
    /\ At(r, "connect") /\ free = 0
    /\ r \in Probes /\ probe # r
    /\ End(r)

(* No connection came free within the pool's timeout, which, too, is       *)
(* longer than a kubelet waits.                                            *)
GiveUp(r) ==
    /\ At(r, "connect") /\ free = 0
    /\ probe # r
    /\ End(r)

-----------------------------------------------------------------------------
(***************************************************************************)
(* Kubernetes and Postgres.                                                *)
(***************************************************************************)

(* The kubelet calls /ready.                                               *)
StartProbe(p) ==
    /\ probe = None /\ At(p, "idle")
    /\ probe' = p
    /\ Goto(p, "connect")
    /\ UNCHANGED <<free, loop, database, missed, unhealthy, ready>>

(* No answer within a second: something keeps it from the event loop, the  *)
(* pool or the database.  The handler goes on, unheard.                    *)
MissProbe ==
    /\ probe # None
    /\ loop # None \/ database = "silent" \/ (phase[probe] = "connect" /\ free = 0)
    /\ probe' = None
    /\ missed' = IF missed < FailureThreshold THEN missed + 1 ELSE missed
    /\ ready' = (ready /\ missed' < FailureThreshold)
    /\ UNCHANGED <<phase, free, loop, database, unhealthy>>

(* /health needs nothing but the event loop.                               *)
Healthy ==
    /\ loop = None /\ unhealthy > 0
    /\ unhealthy' = 0
    /\ UNCHANGED <<phase, free, loop, database, probe, missed, ready>>

Unhealthy ==
    /\ loop # None /\ unhealthy < FailureThreshold - 1
    /\ unhealthy' = unhealthy + 1
    /\ UNCHANGED <<phase, free, loop, database, probe, missed, ready>>

(* The container is restarted; the requests it served are lost.            *)
Restart ==
    /\ loop # None /\ unhealthy = FailureThreshold - 1
    /\ phase' = Idle /\ free' = PoolLimit /\ loop' = None
    /\ probe' = None /\ missed' = 0 /\ unhealthy' = 0 /\ ready' = FALSE
    /\ UNCHANGED database

DatabaseTurns ==
    /\ database' \in {"up", "down", "silent"} \ {database}
    /\ UNCHANGED <<phase, free, loop, kubelet>>

-----------------------------------------------------------------------------

(* What a request does by itself.                                          *)
Continue(r) ==
    \/ CheckOut(r) \/ Connected(r) \/ ParseEnds(r)
    \/ Finish(r) \/ Refused(r) \/ OpenTimesOut(r) \/ GiveUp(r)

Next ==
    \/ \E r \in Requests : Accept(r) \/ Parse(r)
    \/ \E r \in Slots : Continue(r)
    \/ \E p \in Probes : StartProbe(p)
    \/ MissProbe \/ Healthy \/ Unhealthy \/ Restart
    \/ DatabaseTurns

Spec == Init /\ [][Next]_vars

(* The event loop serves its callbacks in turn; what a handler parses      *)
(* comes to an end, and so does what it awaits of a model or of its        *)
(* client, but of Postgres only while that is not silent; the kubelet      *)
(* keeps probing, and gives a probe up when its second is over.            *)
FairSpec ==
    /\ Spec
    /\ \A r \in Slots : WF_vars(Continue(r))
    /\ WF_vars(\E p \in Probes : StartProbe(p)) /\ WF_vars(MissProbe)

-----------------------------------------------------------------------------

(* However requests end, by an answer, an exception, a cancellation or a   *)
(* timeout of the pool, each connection is either free or held by one      *)
(* request that is still served: none leaks, none is given back twice      *)
(* (db.py get_db_session).                                                 *)
ConnectionsAccounted ==
    free + Cardinality({r \in Slots : phase[r] \in Holding}) = PoolLimit

(* A request that was accepted ends, however many others stream answers    *)
(* and keep the pool empty, and however often Postgres fell silent under   *)
(* it, provided that Postgres is not silent for ever or again and again:   *)
(* then nothing in the code bounds the wait (db.py engine, get_db_session, *)
(* under the fairness of FairSpec).                                        *)
EveryRequestEnds ==
    <>[](database # "silent") => \A r \in Requests : At(r, "connect") ~> At(r, "idle")

(* A replica that was taken out of service because its pool was empty or   *)
(* its event loop busy is put back: what it still serves gives the pool    *)
(* back and a probe gets through, unless Postgres falls silent again; also *)
(* after a silence, in which requests were left hanging with connections   *)
(* (routes_health.py ready, deployment.yaml, under FairSpec).              *)
ReplicaComesBack == (~ready) ~> (ready \/ database = "silent")
=============================================================================
