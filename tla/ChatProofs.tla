----------------------------- MODULE ChatProofs -----------------------------
(***************************************************************************)
(* Proofs about Chat, for any users, request slots, sessions, turns and    *)
(* tokens.                                                                 *)
(*                                                                         *)
(* The properties of Chat speak of committed messages.  What is committed  *)
(* is decided while it is pending in the transaction of one request, so    *)
(* IInv follows a turn through its request: which messages are pending in  *)
(* which phase, that no other request has that turn, and that nothing of   *)
(* it is committed as long as the request lives.                           *)
(***************************************************************************)
EXTENDS Chat, TLAPS

Sending(r)  == request[r].phase \in SendPhases
Creating(r) == request[r].phase \in {"answer_create", "commit_create"}

(* The two messages request r writes.                                      *)
Question(r) ==
    [session |-> request[r].session, role |-> "user", tokens |-> 0,
     created_at |-> request[r].started, turn |-> request[r].started, whole |-> 0]

Answer(r) ==
    [session |-> request[r].session, role |-> "assistant", tokens |-> request[r].collected,
     created_at |-> request[r].started, turn |-> request[r].started, whole |-> request[r].whole]

(* Turns and session ids that are still to come have no past.              *)
FutureOK ==
    /\ \A t \in Turns : t > clock => fate[t] = {}
    /\ \A s \in Sessions : s > drawn => sessions[s] = None

(* A session that is being created is nobody's yet.                        *)
CreateOK(r) ==
    /\ request[r].user \in Users
    /\ request[r].session \in 1 .. drawn
    /\ sessions[request[r].session] = None
    /\ request[r].history = {} /\ request[r].pending = {}

(* The turn of a request is its user's, in a session of this user.         *)
TurnOK(r) ==
    /\ request[r].user \in Users
    /\ request[r].session \in Sessions
    /\ request[r].started \in 1 .. clock
    /\ sessions[request[r].session] = request[r].user
    /\ asker[request[r].started] = request[r].user

(* What was collected is all the model had to say, or Ollama failed within *)
(* its stream.                                                             *)
CollectedAll(r) ==
    \/ request[r].collected = request[r].whole
    \/ request[r].collected < request[r].whole /\ "cut" \in fate[request[r].started]

(* What request r has flushed, and what has become of its turn, by phase.  *)
PendingOK(r) ==
    /\ request[r].phase \in {"history", "question"} => request[r].pending = {}
    /\ request[r].phase \in {"retrieve", "stream", "answer"} => request[r].pending = {Question(r)}
    /\ request[r].phase \in {"history", "question"} => request[r].whole = 0
    /\ request[r].phase = "answer" => CollectedAll(r)
    /\ request[r].phase = "commit_turn" =>
          \/ request[r].pending = {Question(r), Answer(r)} /\ CollectedAll(r)
          \/ request[r].pending = {Question(r)} /\ "disconnected" \in fate[request[r].started]
    /\ request[r].phase = "history" => request[r].history = {}

(* Nothing of the turn of a request that lives is committed or has failed. *)
UndecidedOK(r) ==
    /\ fate[request[r].started] \cap {"failed", "lost"} = {}
    /\ \A m \in messages : m.turn # request[r].started

RequestOK(r) ==
    /\ request[r].phase = "idle" => request[r] = Idle
    /\ Creating(r) => CreateOK(r)
    /\ Sending(r) => TurnOK(r) /\ PendingOK(r) /\ UndecidedOK(r)

RequestsOK == \A r \in Requests : RequestOK(r)

(* No two requests share a turn or create the same session.                *)
Distinct ==
    \A r, s \in Requests :
        /\ Sending(r) /\ Sending(s) /\ request[r].started = request[s].started => r = s
        /\ Creating(r) /\ Creating(s) /\ request[r].session = request[s].session => r = s

(* A committed message belongs to a turn that is over, in a session of its *)
(* asker.                                                                  *)
MessageOK(m) ==
    /\ m.turn \in 1 .. clock
    /\ m.created_at = m.turn
    /\ fate[m.turn] \cap {"failed", "lost"} = {}
    /\ asker[m.turn] \in Users
    /\ sessions[m.session] = asker[m.turn]

(* It has its counterpart, or its client left.                             *)
WholeIn(m, S) ==
    /\ m.role = "assistant" =>
          /\ m.tokens = m.whole \/ ("cut" \in fate[m.turn] /\ m.tokens < m.whole)
          /\ \E q \in S : q.role = "user" /\ q.turn = m.turn /\ q.session = m.session
    /\ m.role = "user" =>
          \/ \E a \in S : a.role = "assistant" /\ a.turn = m.turn /\ a.session = m.session
          \/ "disconnected" \in fate[m.turn]

MessagesOK == \A m \in messages : MessageOK(m) /\ WholeIn(m, messages)

(* A history is made of committed messages of the request's own session,   *)
(* in whole turns.                                                         *)
HistoryOK(r) ==
    \A m \in request[r].history :
        m \in messages /\ m.session = request[r].session /\ WholeIn(m, request[r].history)

HistoriesOK == \A r \in Requests : HistoryOK(r)

IInv ==
    /\ TypeOK
    /\ FutureOK
    /\ RequestsOK
    /\ Distinct
    /\ MessagesOK
    /\ HistoriesOK

-----------------------------------------------------------------------------
(***************************************************************************)
(* What the actions do to the records of the requests.                     *)
(***************************************************************************)

LEMMA GotoEffect ==
    ASSUME TypeOK, NEW r \in Requests, NEW p \in Phases, Goto(r, p)
    PROVE  /\ request' \in [Requests -> Request]
           /\ request'[r] = [request[r] EXCEPT !.phase = p]
           /\ \A q \in Requests \ {r} : request'[q] = request[q]
<1>1. request' = [request EXCEPT ![r] = [request[r] EXCEPT !.phase = p]]
  BY DEF Goto
<1>2. [request[r] EXCEPT !.phase = p] \in Request
  BY DEF TypeOK, Request
<1> QED
  BY <1>1, <1>2 DEF TypeOK

(* Request r, on the way to phase p with one more message.                 *)
Flushed(r, role, n, p) ==
    [request[r] EXCEPT !.phase = p, !.pending = @ \cup
        {[session |-> request[r].session, role |-> role, tokens |-> n,
          created_at |-> request[r].started, turn |-> request[r].started,
          whole |-> request[r].whole]}]

LEMMA FlushEffect ==
    ASSUME TypeOK, NEW r \in Requests, NEW role \in Roles, NEW n \in 0 .. MaxTokens, NEW p \in Phases,
           request[r].session \in Sessions, request[r].started \in Turns, Flush(r, role, n, p)
    PROVE  /\ request' \in [Requests -> Request]
           /\ request'[r] = Flushed(r, role, n, p)
           /\ \A q \in Requests \ {r} : request'[q] = request[q]
<1> DEFINE m == [session |-> request[r].session, role |-> role, tokens |-> n,
                 created_at |-> request[r].started, turn |-> request[r].started,
                 whole |-> request[r].whole]
<1>1. request' = [request EXCEPT ![r] = Flushed(r, role, n, p)]
  BY DEF Flush, FlushAt, Flushed
<1>3. request[r] \in Request
  BY DEF TypeOK
<1>2. m \in Message
  BY <1>3 DEF Message, Request
<1>4. request[r].pending \cup {m} \in SUBSET Message
  BY <1>2, <1>3 DEF Request
<1>5. Flushed(r, role, n, p) \in Request
  BY <1>3, <1>4 DEF Request, Flushed
<1> QED
  BY <1>1, <1>5 DEF TypeOK

LEMMA HistoryEffect ==
    ASSUME TypeOK, NEW r \in Requests, ReadHistory(r)
    PROVE  /\ request' \in [Requests -> Request]
           /\ request'[r] = [request[r] EXCEPT !.phase = "question", !.history = ListMessages(r)]
           /\ \A q \in Requests \ {r} : request'[q] = request[q]
<1>1. request' = [request EXCEPT ![r] =
                     [request[r] EXCEPT !.phase = "question", !.history = ListMessages(r)]]
  BY DEF ReadHistory
<1>2. request[r] \in Request
  BY DEF TypeOK
<1>3. ListMessages(r) \in SUBSET Message
  BY <1>2 DEF ListMessages, TypeOK, Request
<1>4. [request[r] EXCEPT !.phase = "question", !.history = ListMessages(r)] \in Request
  BY <1>2, <1>3 DEF Request, Phases, SendPhases
<1> QED
  BY <1>1, <1>4 DEF TypeOK

LEMMA TokenEffect ==
    ASSUME TypeOK, NEW r \in Requests, StreamToken(r)
    PROVE  /\ request' \in [Requests -> Request]
           /\ request'[r] = [request[r] EXCEPT !.collected = @ + 1]
           /\ \A q \in Requests \ {r} : request'[q] = request[q]
<1>1. request' = [request EXCEPT ![r] = [request[r] EXCEPT !.collected = @ + 1]]
  BY DEF StreamToken
<1>2. request[r] \in Request
  BY DEF TypeOK
<1>3. request[r].collected + 1 \in 0 .. MaxTokens
  BY <1>2, ChatAssumption DEF StreamToken, Request
<1>4. [request[r] EXCEPT !.collected = @ + 1] \in Request
  BY <1>2, <1>3 DEF Request
<1> QED
  BY <1>1, <1>4 DEF TypeOK

LEMMA EndEffect ==
    ASSUME TypeOK, NEW r \in Requests, EndRequest(r)
    PROVE  /\ request' \in [Requests -> Request]
           /\ request'[r] = Idle
           /\ \A q \in Requests \ {r} : request'[q] = request[q]
<1>1. Idle \in Request
  BY ChatAssumption DEF Idle, Request, Phases
<1> QED
  BY <1>1 DEF TypeOK, EndRequest

LEMMA NoteEffect ==
    ASSUME TypeOK, NEW r \in Requests, NEW events \in SUBSET Events, Note(r, events)
    PROVE  /\ fate' \in [Turns -> SUBSET Events]
           /\ request[r].started \in Turns =>
                 fate'[request[r].started] = fate[request[r].started] \cup events
           /\ \A t \in Turns : t # request[r].started => fate'[t] = fate[t]
BY DEF Note, TypeOK

(* What a request holds lies within the bounds.                            *)
LEMMA InRange ==
    ASSUME IInv, NEW r \in Requests
    PROVE  /\ RequestOK(r)
           /\ request[r] \in Request
           /\ Sending(r) => /\ request[r].user \in Users
                            /\ request[r].session \in Sessions
                            /\ request[r].started \in Turns
                            /\ request[r].started \in 1 .. clock
           /\ Creating(r) => request[r].user \in Users /\ request[r].session \in Sessions
BY ChatAssumption DEF IInv, RequestsOK, RequestOK, TurnOK, CreateOK, TypeOK, Turns, Sessions

-----------------------------------------------------------------------------
(***************************************************************************)
(* The types.                                                              *)
(***************************************************************************)

LEMMA NextTypes ==
    ASSUME IInv, [Next]_vars
    PROVE  TypeOK'
<1> USE DEF tables, past
<1>a. TypeOK
  BY DEF IInv
<1>1. ASSUME NEW r \in Requests, NEW u \in Users, CreateSession(r, u)
      PROVE  TypeOK'
  <2>1. drawn + 1 \in Sessions
    BY <1>a, <1>1, ChatAssumption DEF TypeOK, CreateSession, Sessions
  <2>2. [request[r] EXCEPT !.phase = "answer_create", !.user = u, !.session = drawn + 1] \in Request
    BY <1>a, <2>1 DEF TypeOK, Request, Phases
  <2> QED
    BY <1>a, <1>1, <2>1, <2>2, ChatAssumption DEF TypeOK, CreateSession, Sessions
<1>2. ASSUME NEW r \in Requests, NEW u \in Users, NEW s \in Sessions, SendMessage(r, u, s)
      PROVE  TypeOK'
  <2>1. clock + 1 \in Turns
    BY <1>a, <1>2, ChatAssumption DEF TypeOK, SendMessage, Turns
  <2>2. request[r] \in Request /\ clock + 1 \in 0 .. MaxTurns
    BY <1>a, <2>1, ChatAssumption DEF TypeOK, Turns
  <2>3. [request[r] EXCEPT !.phase = "history", !.user = u, !.session = s, !.started = clock + 1]
            \in Request
    BY <2>2 DEF Request, Phases, SendPhases
  <2> QED
    BY <1>a, <1>2, <2>1, <2>2, <2>3 DEF TypeOK, SendMessage, Turns
<1>3. ASSUME NEW r \in Requests, NEW u \in Users, NEW s \in Sessions, SessionNotFound(r, u, s)
      PROVE  TypeOK'
  BY <1>a, <1>3 DEF TypeOK, SessionNotFound, vars
<1>4. ASSUME NEW r \in Requests, AnswerCreate(r)
      PROVE  TypeOK'
  BY <1>a, <1>4, GotoEffect DEF TypeOK, AnswerCreate, Phases
<1>5. ASSUME NEW r \in Requests, CommitSession(r)
      PROVE  TypeOK'
  BY <1>a, <1>5, EndEffect, InRange DEF TypeOK, CommitSession, At, Creating
<1>6. ASSUME NEW r \in Requests, ReadHistory(r)
      PROVE  TypeOK'
  <2>1. UNCHANGED <<tables, clock, past>>
    BY <1>6 DEF ReadHistory
  <2> QED
    BY <1>a, <1>6, <2>1, HistoryEffect DEF TypeOK
<1>7. ASSUME NEW r \in Requests, AddQuestion(r)
      PROVE  TypeOK'
  <2>1. "retrieve" \in Phases /\ "user" \in Roles /\ 0 \in 0 .. MaxTokens
    BY ChatAssumption DEF Phases, SendPhases, Roles
  <2>2. request' \in [Requests -> Request]
    BY <1>a, <1>7, <2>1, FlushEffect, InRange DEF AddQuestion, At, Sending, SendPhases
  <2> QED
    BY <1>a, <1>7, <2>2 DEF TypeOK, AddQuestion
<1>8. ASSUME NEW r \in Requests, Retrieve(r)
      PROVE  TypeOK'
  <2>1. request[r] \in Request /\ "stream" \in Phases
    BY <1>a DEF TypeOK, Phases, SendPhases
  <2>2. \A n \in 0 .. MaxTokens : [request[r] EXCEPT !.phase = "stream", !.whole = n] \in Request
    BY <2>1 DEF Request
  <2> QED
    BY <1>a, <1>8, <2>2 DEF TypeOK, Retrieve
<1>9. ASSUME NEW r \in Requests, StreamToken(r)
      PROVE  TypeOK'
  <2>1. UNCHANGED <<tables, clock, past>>
    BY <1>9 DEF StreamToken
  <2> QED
    BY <1>a, <1>9, <2>1, TokenEffect DEF TypeOK
<1>10. ASSUME NEW r \in Requests, StreamEnds(r)
       PROVE  TypeOK'
  <2>1. request' \in [Requests -> Request]
    BY <1>a, <1>10, GotoEffect DEF StreamEnds, Phases, SendPhases
  <2> QED
    BY <1>a, <1>10, <2>1 DEF TypeOK, StreamEnds
<1>18. ASSUME NEW r \in Requests, StreamCut(r)
       PROVE  TypeOK'
  BY <1>a, <1>18, GotoEffect, NoteEffect DEF TypeOK, StreamCut, Events, Phases, SendPhases
<1>11. ASSUME NEW r \in Requests, AddAnswer(r)
       PROVE  TypeOK'
  <2>1. "commit_turn" \in Phases /\ "assistant" \in Roles /\ {"delivered"} \in SUBSET Events
    BY DEF Phases, SendPhases, Roles, Events
  <2>2. request[r].collected \in 0 .. MaxTokens
    BY <1>a DEF TypeOK, Request
  <2>3. request' \in [Requests -> Request]
    BY <1>a, <1>11, <2>1, <2>2, FlushEffect, InRange DEF AddAnswer, At, Sending, SendPhases
  <2>4. fate' \in [Turns -> SUBSET Events]
    BY <1>a, <1>11, <2>1, NoteEffect DEF AddAnswer
  <2> QED
    BY <1>a, <1>11, <2>3, <2>4 DEF TypeOK, AddAnswer
<1>12. ASSUME NEW r \in Requests, CommitTurn(r)
       PROVE  TypeOK'
  <2>1. request[r].pending \in SUBSET Message
    BY <1>a DEF TypeOK, Request
  <2> QED
    BY <1>a, <1>12, <2>1, EndEffect DEF TypeOK, CommitTurn
<1>13. ASSUME NEW r \in Requests, Raise(r)
       PROVE  TypeOK'
  BY <1>a, <1>13, EndEffect, NoteEffect DEF TypeOK, Raise, Events
<1>14. ASSUME NEW r \in Requests, Disconnect(r)
       PROVE  TypeOK'
  BY <1>a, <1>14, GotoEffect, NoteEffect DEF TypeOK, Disconnect, Events, Phases, SendPhases
<1>15. ASSUME NEW r \in Requests, DisconnectInFlush(r)
       PROVE  TypeOK'
  BY <1>a, <1>15, EndEffect, NoteEffect DEF TypeOK, DisconnectInFlush, Events
<1>16. ASSUME NEW r \in Requests, Lose(r)
       PROVE  TypeOK'
  <2>1. fate' \in [Turns -> SUBSET Events]
    BY <1>a, <1>16, NoteEffect DEF TypeOK, Lose, Events
  <2> QED
    BY <1>a, <1>16, <2>1, EndEffect DEF TypeOK, Lose
<1>17. CASE UNCHANGED vars
  BY <1>a, <1>17 DEF TypeOK, vars
<1> QED
  BY <1>1, <1>2, <1>3, <1>4, <1>5, <1>6, <1>7, <1>8, <1>9, <1>10, <1>11, <1>12, <1>13, <1>14,
     <1>15, <1>16, <1>17, <1>18 DEF Next, Start, Continue, Fault

-----------------------------------------------------------------------------
(***************************************************************************)
(* What a request leaves as it is.                                         *)
(***************************************************************************)

(* The frame of the actions by which request r goes on with its turn, or   *)
(* gives it up: other requests and other turns do not notice.              *)
TurnStep(r) ==
    /\ Sending(r)
    /\ UNCHANGED <<tables, clock, drawn, asker>>
    /\ \A q \in Requests \ {r} : request'[q] = request[q]
    /\ \A t \in Turns : t # request[r].started => fate'[t] = fate[t]
    /\ \/ request'[r] = Idle
       \/ Sending(r)' /\ request'[r].started = request[r].started

(* No request enters a turn or a creation another one is in.               *)
LEMMA DistinctKept ==
    ASSUME IInv, NEW r \in Requests, \A q \in Requests \ {r} : request'[q] = request[q],
           Sending(r)' => Sending(r) /\ request'[r].started = request[r].started,
           Creating(r)' => Creating(r) /\ request'[r].session = request[r].session
    PROVE  Distinct'
BY DEF IInv, Distinct, Sending, Creating

(* A history stays what it is while the turns in it keep their fate.       *)
LEMMA HistoryStays ==
    ASSUME IInv, NEW q \in Requests, request'[q].history = request[q].history,
           request'[q].session = request[q].session, messages \subseteq messages',
           \A m \in messages : fate'[m.turn] = fate[m.turn]
    PROVE  HistoryOK(q)'
BY DEF IInv, HistoriesOK, HistoryOK, WholeIn

LEMMA TurnStepKeeps ==
    ASSUME IInv, TypeOK', NEW r \in Requests, TurnStep(r), RequestOK(r)', HistoryOK(r)'
    PROVE  IInv'
<1> USE DEF TurnStep, tables
<1>1. /\ request[r].started \in Turns
      /\ \A m \in messages : /\ m \in Message
                             /\ m.turn \in Turns /\ m.turn # request[r].started
                             /\ fate'[m.turn] = fate[m.turn]
  BY InRange DEF IInv, TypeOK, RequestOK, UndecidedOK, Message
<1>2. FutureOK'
  <2>1. request[r].started \in 1 .. clock
    BY InRange
  <2>2. \A t \in Turns : t > clock => t # request[r].started
    BY <2>1, ChatAssumption DEF IInv, TypeOK, Turns
  <2> QED
    BY <2>2 DEF IInv, FutureOK
<1>3. ASSUME NEW q \in Requests, q # r
      PROVE  RequestOK(q)'
  <2>1. request'[q] = request[q] /\ RequestOK(q)
    BY <1>3, InRange
  <2>2. CASE Sending(q)
    <3>1. request[q].started # request[r].started /\ request[q].started \in Turns
      BY <1>3, <2>2, InRange DEF IInv, Distinct
    <3>2. TurnOK(q)'
      BY <2>1, <2>2 DEF RequestOK, TurnOK
    <3>3. PendingOK(q)'
      BY <2>1, <2>2, <3>1 DEF RequestOK, PendingOK, CollectedAll, Question, Answer
    <3>4. UndecidedOK(q)'
      BY <2>1, <2>2, <3>1 DEF RequestOK, UndecidedOK
    <3> QED
      BY <2>1, <2>2, <3>2, <3>3, <3>4 DEF RequestOK, Sending, Creating, SendPhases
  <2> QED
    BY <2>1, <2>2 DEF RequestOK, CreateOK, Sending, Creating
<1>4. Distinct'
  BY DistinctKept DEF Idle, Sending, Creating, SendPhases
<1>5. MessagesOK'
  BY <1>1 DEF IInv, MessagesOK, MessageOK, WholeIn
<1>6. ASSUME NEW q \in Requests, q # r
      PROVE  HistoryOK(q)'
  BY <1>1, <1>6, HistoryStays
<1> QED
  BY <1>2, <1>3, <1>4, <1>5, <1>6 DEF IInv, RequestsOK, HistoriesOK

-----------------------------------------------------------------------------
(***************************************************************************)
(* The steps.                                                              *)
(***************************************************************************)

LEMMA CreateSessionKeeps ==
    ASSUME IInv, TypeOK', NEW r \in Requests, NEW u \in Users, CreateSession(r, u)
    PROVE  IInv'
<1> USE DEF tables
<1>1. /\ request'[r] = [request[r] EXCEPT !.phase = "answer_create", !.user = u, !.session = drawn + 1]
      /\ request[r] = Idle
      /\ \A q \in Requests \ {r} : request'[q] = request[q]
      /\ UNCHANGED <<sessions, messages, clock, asker, fate>>
      /\ drawn' = drawn + 1 /\ drawn \in Nat /\ drawn + 1 \in Sessions
  BY InRange, ChatAssumption DEF CreateSession, IInv, TypeOK, RequestOK, At, Sessions
<1>2. FutureOK' /\ MessagesOK'
  BY <1>1 DEF IInv, FutureOK, MessagesOK, MessageOK, WholeIn, Sessions
<1>3. RequestOK(r)'
  BY <1>1 DEF RequestOK, CreateOK, Sending, Creating, SendPhases, Idle, IInv, FutureOK
<1>4. ASSUME NEW q \in Requests, q # r
      PROVE  RequestOK(q)' /\ HistoryOK(q)'
  <2>1. request'[q] = request[q] /\ RequestOK(q)
    BY <1>1, <1>4, InRange
  <2>2. RequestOK(q)'
    BY <1>1, <2>1 DEF RequestOK, CreateOK, TurnOK, PendingOK, CollectedAll, UndecidedOK, Question,
                      Answer,
                      Sending, Creating
  <2> QED
    BY <1>1, <2>1, <2>2, HistoryStays
<1>5. HistoryOK(r)'
  BY <1>1 DEF HistoryOK, Idle
<1>6. \A q \in Requests \ {r} : Creating(q) => request[q].session # drawn + 1
  BY <1>1, InRange DEF RequestOK, CreateOK
<1>7. Distinct'
  <2>1. request'[r].phase = "answer_create" /\ request'[r].session = drawn + 1
    BY <1>1 DEF Idle
  <2> QED
    <3>1. ASSUME NEW q \in Requests \ {r}
          PROVE  /\ Sending(q)' <=> Sending(q)
                 /\ Creating(q)' <=> Creating(q)
                 /\ request'[q].started = request[q].started /\ request'[q].session = request[q].session
      BY <1>1 DEF Sending, Creating
    <3>2. ~Sending(r)'
      BY <2>1 DEF Sending, SendPhases
    <3> QED
      BY <2>1, <1>6, <3>1, <3>2 DEF IInv, Distinct
<1> QED
  BY <1>2, <1>3, <1>4, <1>5, <1>7 DEF IInv, RequestsOK, HistoriesOK

LEMMA AnswerCreateKeeps ==
    ASSUME IInv, TypeOK', NEW r \in Requests, AnswerCreate(r)
    PROVE  IInv'
<1> USE DEF tables, past
<1>1. /\ request'[r] = [request[r] EXCEPT !.phase = "commit_create"]
      /\ request[r] \in Request /\ request[r].phase = "answer_create"
      /\ \A q \in Requests \ {r} : request'[q] = request[q]
      /\ UNCHANGED <<sessions, messages, clock, drawn, asker, fate>>
  BY InRange, GotoEffect DEF AnswerCreate, IInv, At, Phases
<1>2. FutureOK' /\ MessagesOK'
  BY <1>1 DEF IInv, FutureOK, MessagesOK, MessageOK, WholeIn
<1>3. ASSUME NEW q \in Requests
      PROVE  RequestOK(q)' /\ HistoryOK(q)'
  <2>1. RequestOK(q) /\ request[q] \in Request
    BY InRange
  <2>2. CASE q = r
    BY <1>1, <2>1, <2>2, HistoryStays
       DEF RequestOK, CreateOK, Sending, Creating, SendPhases, Request
  <2>3. CASE q # r
    BY <1>1, <2>1, <2>3, HistoryStays
       DEF RequestOK, CreateOK, TurnOK, PendingOK, CollectedAll, UndecidedOK, Question, Answer,
           Sending, Creating
  <2> QED
    BY <2>2, <2>3
<1>4. Distinct'
  BY <1>1, DistinctKept DEF Sending, Creating, SendPhases, Request
<1> QED
  BY <1>2, <1>3, <1>4 DEF IInv, RequestsOK, HistoriesOK

LEMMA CommitSessionKeeps ==
    ASSUME IInv, TypeOK', NEW r \in Requests, CommitSession(r)
    PROVE  IInv'
<1> USE DEF tables, past
<1>1. /\ request'[r] = Idle /\ Creating(r)
      /\ request[r].user \in Users /\ request[r].session \in Sessions
      /\ request[r].session \in 1 .. drawn
      /\ sessions[request[r].session] = None
      /\ sessions' = [sessions EXCEPT ![request[r].session] = request[r].user]
      /\ \A q \in Requests \ {r} : request'[q] = request[q]
      /\ UNCHANGED <<messages, clock, drawn, asker, fate>>
  BY InRange, EndEffect DEF CommitSession, IInv, RequestOK, CreateOK, At, Creating
<1>2. /\ sessions'[request[r].session] = request[r].user
      /\ \A s \in Sessions : s # request[r].session => sessions'[s] = sessions[s]
  BY <1>1 DEF IInv, TypeOK
<1>3. FutureOK'
  BY <1>1, <1>2, ChatAssumption DEF IInv, TypeOK, FutureOK, Sessions
<1>4. MessagesOK'
  <2>1. \A m \in messages : m.session \in Sessions /\ m.session # request[r].session
    BY <1>1, ChatAssumption DEF IInv, TypeOK, MessagesOK, MessageOK, Message
  <2> QED
    BY <1>1, <1>2, <2>1 DEF IInv, MessagesOK, MessageOK, WholeIn
<1>5. ASSUME NEW q \in Requests
      PROVE  RequestOK(q)' /\ HistoryOK(q)'
  <2>1. RequestOK(q)
    BY InRange
  <2>2. CASE q = r
    BY <1>1, <2>2 DEF RequestOK, HistoryOK, Sending, Creating, SendPhases, Idle
  <2>3. CASE q # r
    <3>1. request'[q] = request[q]
      BY <1>1, <2>3
    <3>2. Sending(q) => TurnOK(q)'
      BY <1>1, <1>2, <2>1, <3>1, InRange, ChatAssumption DEF RequestOK, TurnOK
    <3>3. Creating(q) => CreateOK(q)'
      BY <1>1, <1>2, <2>1, <2>3, <3>1, InRange DEF RequestOK, CreateOK, IInv, Distinct
    <3> QED
      BY <1>1, <2>1, <3>1, <3>2, <3>3, HistoryStays
         DEF RequestOK, PendingOK, CollectedAll, UndecidedOK, Question, Answer, Sending, Creating
  <2> QED
    BY <2>2, <2>3
<1>6. Distinct'
  BY <1>1, DistinctKept DEF Sending, Creating, SendPhases, Idle
<1> QED
  BY <1>3, <1>4, <1>5, <1>6 DEF IInv, RequestsOK, HistoriesOK

LEMMA SendMessageKeeps ==
    ASSUME IInv, TypeOK', NEW r \in Requests, NEW u \in Users, NEW s \in Sessions,
           SendMessage(r, u, s)
    PROVE  IInv'
<1> USE DEF tables
<1>1. /\ request'[r] = [request[r] EXCEPT !.phase = "history", !.user = u, !.session = s,
                                          !.started = clock + 1]
      /\ request[r] = Idle
      /\ sessions[s] = u
      /\ \A q \in Requests \ {r} : request'[q] = request[q]
      /\ UNCHANGED <<sessions, messages, drawn, fate>>
      /\ clock' = clock + 1 /\ clock \in Nat /\ clock + 1 \in Turns
  BY InRange, ChatAssumption DEF SendMessage, GetSession, IInv, TypeOK, RequestOK, At, Turns
<1>2. /\ asker'[clock + 1] = u
      /\ \A t \in Turns : t # clock + 1 => asker'[t] = asker[t]
  BY <1>1 DEF SendMessage, IInv, TypeOK
<1>3. FutureOK'
  BY <1>1 DEF IInv, FutureOK, Turns
<1>4. \A m \in messages : m.turn \in Turns /\ m.turn \in 1 .. clock
  BY DEF IInv, TypeOK, Message, MessagesOK, MessageOK
<1>5. MessagesOK'
  <2>1. \A m \in messages : asker'[m.turn] = asker[m.turn] /\ m.turn \in 1 .. clock'
    BY <1>1, <1>2, <1>4
  <2> QED
    BY <1>1, <2>1 DEF IInv, MessagesOK, MessageOK, WholeIn
<1>6. RequestOK(r)'
  <2>1. fate[clock + 1] = {}
    BY <1>1 DEF IInv, FutureOK
  <2>2. \A m \in messages : m.turn # clock + 1
    BY <1>1, <1>4
  <2> QED
    BY <1>1, <1>2, <2>1, <2>2
       DEF RequestOK, TurnOK, PendingOK, CollectedAll, UndecidedOK, Sending, Creating, SendPhases,
           Idle
<1>7. ASSUME NEW q \in Requests, q # r
      PROVE  RequestOK(q)' /\ HistoryOK(q)'
  <2>1. request'[q] = request[q] /\ RequestOK(q)
    BY <1>1, <1>7, InRange
  <2>2. Sending(q) => TurnOK(q)'
    BY <1>1, <1>2, <2>1, InRange DEF RequestOK, TurnOK
  <2> QED
    BY <1>1, <2>1, <2>2, HistoryStays
       DEF RequestOK, CreateOK, PendingOK, CollectedAll, UndecidedOK, Question, Answer, Sending,
           Creating
<1>8. HistoryOK(r)'
  BY <1>1 DEF HistoryOK, Idle
<1>9. \A q \in Requests : Sending(q) => request[q].started # clock + 1
  BY <1>1, InRange
<1>10. Distinct'
  <2>1. request'[r].phase = "history" /\ request'[r].started = clock + 1
    BY <1>1 DEF Idle
  <2> QED
    <3>1. ASSUME NEW q \in Requests \ {r}
          PROVE  /\ Sending(q)' <=> Sending(q)
                 /\ Creating(q)' <=> Creating(q)
                 /\ request'[q].started = request[q].started /\ request'[q].session = request[q].session
      BY <1>1 DEF Sending, Creating
    <3>2. ~Creating(r)'
      BY <2>1 DEF Creating
    <3> QED
      BY <2>1, <1>9, <3>1, <3>2 DEF IInv, Distinct
<1> QED
  BY <1>3, <1>5, <1>6, <1>7, <1>8, <1>10 DEF IInv, RequestsOK, HistoriesOK

(* The steps of a turn, each within its frame.                             *)
LEMMA ReadHistoryKeeps ==
    ASSUME IInv, TypeOK', NEW r \in Requests, ReadHistory(r)
    PROVE  IInv'
<1>1. /\ request'[r] = [request[r] EXCEPT !.phase = "question", !.history = ListMessages(r)]
      /\ request[r] \in Request /\ request[r].phase = "history"
      /\ UNCHANGED <<tables, clock, past>>
      /\ RequestOK(r)
  BY HistoryEffect, InRange DEF ReadHistory, IInv, At
<1>2. TurnStep(r)
  BY <1>1, HistoryEffect DEF TurnStep, IInv, Sending, SendPhases, Request, past
<1>3. RequestOK(r)'
  BY <1>1 DEF RequestOK, TurnOK, PendingOK, CollectedAll, UndecidedOK, Sending, Creating, SendPhases,
              Request,
              tables, past
<1>4. HistoryOK(r)'
  <2>1. ListMessages(r) = {m \in messages : m.session = request[r].session}
    BY <1>1 DEF ListMessages, RequestOK, PendingOK, Sending, SendPhases
  <2>2. \A m \in ListMessages(r) : WholeIn(m, ListMessages(r))
    BY <2>1 DEF IInv, MessagesOK, WholeIn
  <2> QED
    BY <1>1, <2>1, <2>2 DEF HistoryOK, WholeIn, Request, tables, past
<1> QED
  BY <1>2, <1>3, <1>4, TurnStepKeeps

(* A turn that goes on, or is given up, leaves its history as it was.      *)
LEMMA OwnHistoryKept ==
    ASSUME IInv, NEW r \in Requests, TurnStep(r), RequestOK(r),
           \/ request'[r] = Idle
           \/ /\ request'[r].history = request[r].history
              /\ request'[r].session = request[r].session
    PROVE  HistoryOK(r)'
<1>1. \A m \in messages : fate'[m.turn] = fate[m.turn]
  BY DEF TurnStep, IInv, TypeOK, Message, RequestOK, UndecidedOK
<1> QED
  BY <1>1, HistoryStays DEF TurnStep, tables, HistoryOK, Idle

LEMMA AddQuestionKeeps ==
    ASSUME IInv, TypeOK', NEW r \in Requests, AddQuestion(r)
    PROVE  IInv'
<1>1. /\ request[r] \in Request /\ request[r].phase = "question" /\ Sending(r)
      /\ request[r].session \in Sessions /\ request[r].started \in Turns
      /\ UNCHANGED <<tables, clock, past>>
      /\ RequestOK(r)
  BY InRange DEF AddQuestion, At, Sending, SendPhases
<1>2. /\ request'[r] = [request[r] EXCEPT !.phase = "retrieve", !.pending = @ \cup {Question(r)}]
      /\ \A q \in Requests \ {r} : request'[q] = request[q]
  <2>1. "retrieve" \in Phases /\ "user" \in Roles /\ 0 \in 0 .. MaxTokens
    BY ChatAssumption DEF Phases, SendPhases, Roles
  <2>2. Flush(r, "user", 0, "retrieve")
    BY DEF AddQuestion
  <2>3. /\ request'[r] = Flushed(r, "user", 0, "retrieve")
        /\ \A q \in Requests \ {r} : request'[q] = request[q]
    BY <1>1, <2>1, <2>2, FlushEffect DEF IInv
  <2> QED
    BY <1>1, <2>3 DEF Flushed, Question, RequestOK, PendingOK
<1>3. TurnStep(r)
  BY <1>1, <1>2 DEF TurnStep, Sending, SendPhases, Request, past
<1>4. request[r].pending \cup {Question(r)} = {Question(r)}
  BY <1>1 DEF RequestOK, PendingOK
<1>5. RequestOK(r)'
  BY <1>1, <1>2, <1>4
     DEF RequestOK, TurnOK, PendingOK, CollectedAll, UndecidedOK, Question, Sending, Creating,
         SendPhases, Request,
         tables, past
<1> QED
  BY <1>1, <1>2, <1>3, <1>5, OwnHistoryKept, TurnStepKeeps DEF Request

LEMMA RetrieveKeeps ==
    ASSUME IInv, TypeOK', NEW r \in Requests, Retrieve(r)
    PROVE  IInv'
<1>0. PICK n \in 0 .. MaxTokens : request' = [request EXCEPT ![r].phase = "stream", ![r].whole = n]
  BY DEF Retrieve
<1>1. /\ request'[r] = [request[r] EXCEPT !.phase = "stream", !.whole = n]
      /\ request[r] \in Request /\ request[r].phase = "retrieve"
      /\ \A q \in Requests \ {r} : request'[q] = request[q]
      /\ UNCHANGED <<tables, clock, past>>
      /\ RequestOK(r)
  BY <1>0, InRange DEF Retrieve, IInv, TypeOK, At
<1>2. TurnStep(r)
  BY <1>1 DEF TurnStep, Sending, SendPhases, Request, past
<1>3. RequestOK(r)'
  BY <1>1 DEF RequestOK, TurnOK, PendingOK, CollectedAll, UndecidedOK, Question, Sending, Creating,
              SendPhases,
              Request, tables, past
<1> QED
  BY <1>1, <1>2, <1>3, OwnHistoryKept, TurnStepKeeps DEF Request

LEMMA StreamTokenKeeps ==
    ASSUME IInv, TypeOK', NEW r \in Requests, StreamToken(r)
    PROVE  IInv'
<1>1. /\ request'[r] = [request[r] EXCEPT !.collected = @ + 1]
      /\ request[r] \in Request /\ request[r].phase = "stream"
      /\ \A q \in Requests \ {r} : request'[q] = request[q]
      /\ UNCHANGED <<tables, clock, past>>
      /\ RequestOK(r)
  BY TokenEffect, InRange DEF StreamToken, IInv, At
<1>2. TurnStep(r)
  BY <1>1 DEF TurnStep, Sending, SendPhases, Request, past
<1>3. RequestOK(r)'
  BY <1>1 DEF RequestOK, TurnOK, PendingOK, CollectedAll, UndecidedOK, Question, Sending, Creating,
              SendPhases,
              Request, tables, past
<1> QED
  BY <1>1, <1>2, <1>3, OwnHistoryKept, TurnStepKeeps DEF Request

LEMMA StreamEndsKeeps ==
    ASSUME IInv, TypeOK', NEW r \in Requests, StreamEnds(r)
    PROVE  IInv'
<1>1. /\ request'[r] = [request[r] EXCEPT !.phase = "answer"]
      /\ request[r] \in Request /\ request[r].phase = "stream"
      /\ request[r].collected = request[r].whole
      /\ \A q \in Requests \ {r} : request'[q] = request[q]
      /\ UNCHANGED <<tables, clock, past>>
      /\ RequestOK(r)
  BY GotoEffect, InRange DEF StreamEnds, IInv, At, Phases, SendPhases
<1>2. TurnStep(r)
  BY <1>1 DEF TurnStep, Sending, SendPhases, Request, past
<1>3. RequestOK(r)'
  BY <1>1 DEF RequestOK, TurnOK, PendingOK, CollectedAll, UndecidedOK, Question, Sending, Creating,
              SendPhases, Request, tables, past
<1> QED
  BY <1>1, <1>2, <1>3, OwnHistoryKept, TurnStepKeeps DEF Request

LEMMA StreamCutKeeps ==
    ASSUME IInv, TypeOK', NEW r \in Requests, StreamCut(r)
    PROVE  IInv'
<1>1. /\ request'[r] = [request[r] EXCEPT !.phase = "answer"]
      /\ request[r] \in Request /\ request[r].phase = "stream"
      /\ request[r].collected < request[r].whole
      /\ \A q \in Requests \ {r} : request'[q] = request[q]
      /\ UNCHANGED <<tables, clock, drawn, asker>>
      /\ RequestOK(r) /\ request[r].started \in Turns
  BY GotoEffect, InRange DEF StreamCut, IInv, At, Phases, SendPhases, Sending
<1>2. /\ fate'[request[r].started] = fate[request[r].started] \cup {"cut"}
      /\ \A t \in Turns : t # request[r].started => fate'[t] = fate[t]
  BY <1>1, NoteEffect DEF StreamCut, IInv, Events
<1>3. TurnStep(r)
  BY <1>1, <1>2 DEF TurnStep, Sending, SendPhases, Request
<1>4. RequestOK(r)'
  BY <1>1, <1>2 DEF RequestOK, TurnOK, PendingOK, CollectedAll, UndecidedOK, Question, Sending,
                    Creating,
                    SendPhases, Request, tables
<1> QED
  BY <1>1, <1>3, <1>4, OwnHistoryKept, TurnStepKeeps DEF Request

LEMMA AddAnswerKeeps ==
    ASSUME IInv, TypeOK', NEW r \in Requests, AddAnswer(r)
    PROVE  IInv'
<1>1. /\ request[r] \in Request /\ request[r].phase = "answer" /\ Sending(r)
      /\ request[r].session \in Sessions /\ request[r].started \in Turns
      /\ UNCHANGED <<tables, clock, drawn, asker>>
      /\ RequestOK(r) /\ CollectedAll(r)
  BY InRange DEF AddAnswer, At, Sending, SendPhases, RequestOK, PendingOK
<1>2. /\ request'[r] = [request[r] EXCEPT !.phase = "commit_turn", !.pending = @ \cup {Answer(r)}]
      /\ \A q \in Requests \ {r} : request'[q] = request[q]
  <2>1. "commit_turn" \in Phases /\ "assistant" \in Roles /\ request[r].collected \in 0 .. MaxTokens
    BY <1>1 DEF Phases, SendPhases, Roles, Request
  <2>2. Flush(r, "assistant", request[r].collected, "commit_turn")
    BY DEF AddAnswer
  <2>3. /\ request'[r] = Flushed(r, "assistant", request[r].collected, "commit_turn")
        /\ \A q \in Requests \ {r} : request'[q] = request[q]
    BY <1>1, <2>1, <2>2, FlushEffect DEF IInv
  <2> QED
    BY <1>1, <2>3 DEF Flushed, Answer
<1>3. /\ fate'[request[r].started] = fate[request[r].started] \cup {"delivered"}
      /\ \A t \in Turns : t # request[r].started => fate'[t] = fate[t]
  BY <1>1, NoteEffect DEF AddAnswer, IInv, Events
<1>4. TurnStep(r)
  BY <1>1, <1>2, <1>3 DEF TurnStep, Sending, SendPhases, Request
<1>5. request[r].pending \cup {Answer(r)} = {Question(r), Answer(r)}
  BY <1>1 DEF RequestOK, PendingOK
<1>6. RequestOK(r)'
  BY <1>1, <1>2, <1>3, <1>5
     DEF RequestOK, TurnOK, PendingOK, CollectedAll, UndecidedOK, Question, Answer, Sending,
         Creating, SendPhases,
         Request, tables
<1> QED
  BY <1>1, <1>2, <1>4, <1>6, OwnHistoryKept, TurnStepKeeps DEF Request

(* A request that gives up its turn leaves nothing but the note of it.     *)
LEMMA AbandonKeeps ==
    ASSUME IInv, TypeOK', NEW r \in Requests, Sending(r), NEW events \in SUBSET Events,
           Note(r, events), EndRequest(r), UNCHANGED <<tables, clock, drawn, asker>>
    PROVE  IInv'
<1>1. TurnStep(r)
  BY NoteEffect, EndEffect DEF TurnStep, IInv
<1>2. request'[r] = Idle
  BY EndEffect DEF IInv
<1>3. RequestOK(r)'
  BY <1>2 DEF RequestOK, Sending, Creating, SendPhases, Idle
<1>4. HistoryOK(r)'
  BY <1>2 DEF HistoryOK, Idle
<1> QED
  BY <1>1, <1>3, <1>4, TurnStepKeeps

LEMMA DisconnectKeeps ==
    ASSUME IInv, TypeOK', NEW r \in Requests, Disconnect(r)
    PROVE  IInv'
<1>1. /\ request'[r] = [request[r] EXCEPT !.phase = "commit_turn"]
      /\ request[r] \in Request /\ request[r].phase = "stream"
      /\ \A q \in Requests \ {r} : request'[q] = request[q]
      /\ UNCHANGED <<tables, clock, drawn, asker>>
      /\ RequestOK(r) /\ request[r].started \in Turns
  BY GotoEffect, InRange DEF Disconnect, IInv, At, Phases, SendPhases, Sending
<1>2. /\ fate'[request[r].started] = fate[request[r].started] \cup {"disconnected"}
      /\ \A t \in Turns : t # request[r].started => fate'[t] = fate[t]
  BY <1>1, NoteEffect DEF Disconnect, IInv, Events
<1>3. TurnStep(r)
  BY <1>1, <1>2 DEF TurnStep, Sending, SendPhases, Request
<1>4. RequestOK(r)'
  BY <1>1, <1>2 DEF RequestOK, TurnOK, PendingOK, CollectedAll, UndecidedOK, Question, Sending,
                    Creating, SendPhases,
                    Request, tables
<1> QED
  BY <1>1, <1>3, <1>4, OwnHistoryKept, TurnStepKeeps DEF Request

(* The messages of a turn are committed together, and are then whole.      *)
LEMMA CommitTurnKeeps ==
    ASSUME IInv, TypeOK', NEW r \in Requests, CommitTurn(r)
    PROVE  IInv'
<1> DEFINE t == request[r].started
<1>1. /\ request'[r] = Idle /\ Sending(r) /\ request[r].phase = "commit_turn"
      /\ RequestOK(r) /\ t \in Turns /\ t \in 1 .. clock
      /\ request[r].user \in Users /\ asker[t] = request[r].user
      /\ request[r].session \in Sessions /\ sessions[request[r].session] = request[r].user
      /\ fate[t] \cap {"failed", "lost"} = {}
      /\ messages' = messages \cup request[r].pending
      /\ \A q \in Requests \ {r} : request'[q] = request[q]
      /\ UNCHANGED <<sessions, clock, drawn, asker, fate>>
  BY InRange, EndEffect
     DEF CommitTurn, IInv, At, past, Sending, SendPhases, RequestOK, TurnOK, UndecidedOK
<1>2. \/ request[r].pending = {Question(r), Answer(r)} /\ CollectedAll(r)
      \/ request[r].pending = {Question(r)} /\ "disconnected" \in fate[t]
  BY <1>1 DEF RequestOK, PendingOK
<1>3. \A m \in request[r].pending : m.turn = t /\ m.created_at = t /\ m.session = request[r].session
  BY <1>2 DEF Question, Answer
<1>4. FutureOK'
  BY <1>1 DEF IInv, FutureOK
<1>5. MessagesOK'
  <2>1. ASSUME NEW m \in messages
        PROVE  (MessageOK(m) /\ WholeIn(m, messages))'
    BY <1>1, <2>1 DEF IInv, MessagesOK, MessageOK, WholeIn
  <2>2. ASSUME NEW m \in request[r].pending
        PROVE  MessageOK(m)'
    BY <1>1, <1>3, <2>2 DEF MessageOK
  <2>3. ASSUME NEW m \in request[r].pending
        PROVE  WholeIn(m, messages)'
    <3>1. Question(r) \in messages'
      BY <1>1, <1>2
    <3>2. CASE m = Question(r)
      <4>1. Answer(r) \in messages' \/ "disconnected" \in fate'[t]
        BY <1>1, <1>2
      <4> QED
        BY <3>2, <4>1 DEF WholeIn, Question, Answer
    <3>3. CASE m = Answer(r) /\ CollectedAll(r)
      <4>1. /\ m.role = "assistant" /\ m.turn = t /\ m.session = request[r].session
            /\ m.tokens = request[r].collected /\ m.whole = request[r].whole
        BY <3>3 DEF Answer
      <4>2. m.tokens = m.whole \/ ("cut" \in fate'[m.turn] /\ m.tokens < m.whole)
        BY <1>1, <3>3, <4>1 DEF CollectedAll
      <4>3. \E q \in messages' : q.role = "user" /\ q.turn = m.turn /\ q.session = m.session
        BY <3>1, <4>1 DEF Question
      <4> QED
        BY <4>1, <4>2, <4>3 DEF WholeIn
    <3> QED
      BY <1>2, <2>3, <3>2, <3>3
  <2> QED
    BY <1>1, <2>1, <2>2, <2>3 DEF MessagesOK
<1>6. ASSUME NEW q \in Requests, q # r
      PROVE  RequestOK(q)' /\ HistoryOK(q)'
  <2>1. request'[q] = request[q] /\ RequestOK(q)
    BY <1>1, <1>6, InRange
  <2>2. CASE Sending(q)
    <3>1. request[q].started # t
      BY <1>1, <1>6, <2>2 DEF IInv, Distinct
    <3>2. UndecidedOK(q)'
      BY <1>1, <1>3, <2>1, <2>2, <3>1 DEF RequestOK, UndecidedOK
    <3>3. TurnOK(q)' /\ PendingOK(q)'
      BY <1>1, <2>1, <2>2 DEF RequestOK, TurnOK, PendingOK, CollectedAll, Question, Answer
    <3> QED
      BY <1>1, <2>1, <2>2, <3>2, <3>3, HistoryStays DEF RequestOK, Sending, Creating, SendPhases
  <2>3. CASE ~Sending(q)
    BY <1>1, <2>1, <2>3, HistoryStays DEF RequestOK, CreateOK, Sending, Creating
  <2> QED
    BY <2>2, <2>3
<1>7. RequestOK(r)' /\ HistoryOK(r)'
  BY <1>1 DEF RequestOK, HistoryOK, Sending, Creating, SendPhases, Idle
<1>8. Distinct'
  BY <1>1, DistinctKept DEF Sending, Creating, SendPhases, Idle
<1> QED
  BY <1>4, <1>5, <1>6, <1>7, <1>8 DEF IInv, RequestsOK, HistoriesOK

(* A creation that is lost leaves nothing.                                 *)
LEMMA LoseKeeps ==
    ASSUME IInv, TypeOK', NEW r \in Requests, Lose(r)
    PROVE  IInv'
<1>1. CASE Sending(r)
  BY <1>1, AbandonKeeps DEF Lose, Sending, Events
<1>2. CASE ~Sending(r)
  <2>1. /\ request'[r] = Idle
        /\ \A q \in Requests \ {r} : request'[q] = request[q]
        /\ UNCHANGED <<sessions, messages, clock, drawn, asker, fate>>
    BY <1>2, EndEffect DEF Lose, IInv, Sending, tables
  <2>2. FutureOK' /\ MessagesOK'
    BY <2>1 DEF IInv, FutureOK, MessagesOK, MessageOK, WholeIn
  <2>3. ASSUME NEW q \in Requests, q # r
        PROVE  RequestOK(q)' /\ HistoryOK(q)'
    <3>1. request'[q] = request[q] /\ RequestOK(q)
      BY <2>1, <2>3, InRange
    <3> QED
      BY <2>1, <3>1, HistoryStays
         DEF RequestOK, CreateOK, TurnOK, PendingOK, CollectedAll, UndecidedOK, Question, Answer,
             Sending, Creating
  <2>4. RequestOK(r)' /\ HistoryOK(r)'
    BY <2>1 DEF RequestOK, HistoryOK, Sending, Creating, SendPhases, Idle
  <2>5. Distinct'
    BY <2>1, DistinctKept DEF Sending, Creating, SendPhases, Idle
  <2> QED
    BY <2>2, <2>3, <2>4, <2>5 DEF IInv, RequestsOK, HistoriesOK
<1> QED
  BY <1>1, <1>2

LEMMA StutterKeeps ==
    ASSUME IInv, UNCHANGED vars
    PROVE  IInv'
<1> USE DEF vars, tables, past
<1>1. TypeOK' /\ FutureOK' /\ MessagesOK'
  BY DEF IInv, TypeOK, FutureOK, MessagesOK, MessageOK, WholeIn
<1>2. RequestsOK'
  BY DEF IInv, RequestsOK, RequestOK, CreateOK, TurnOK, PendingOK, CollectedAll, UndecidedOK,
         Question, Answer,
         Sending, Creating
<1>3. Distinct' /\ HistoriesOK'
  BY DEF IInv, Distinct, HistoriesOK, HistoryOK, WholeIn, Sending, Creating
<1> QED
  BY <1>1, <1>2, <1>3 DEF IInv

LEMMA NextKeeps ==
    ASSUME IInv, [Next]_vars
    PROVE  IInv'
<1>1. TypeOK'
  BY NextTypes
<1>2. ASSUME NEW r \in Requests, Start(r)
      PROVE  IInv'
  BY <1>1, <1>2, CreateSessionKeeps, SendMessageKeeps, StutterKeeps DEF Start, SessionNotFound
<1>3. ASSUME NEW r \in Requests, Raise(r) \/ DisconnectInFlush(r)
      PROVE  IInv'
  <2>1. Sending(r)
    BY <1>3 DEF Raise, DisconnectInFlush, Sending, At, Fallible, SendPhases
  <2> QED
    BY <1>1, <1>3, <2>1, AbandonKeeps DEF Raise, DisconnectInFlush, Events
<1>4. ASSUME NEW r \in Requests, Continue(r)
      PROVE  IInv'
  BY <1>1, <1>3, <1>4, AnswerCreateKeeps, CommitSessionKeeps, ReadHistoryKeeps, AddQuestionKeeps,
     RetrieveKeeps, StreamTokenKeeps, StreamEndsKeeps, AddAnswerKeeps, CommitTurnKeeps DEF Continue
<1>5. ASSUME NEW r \in Requests, Fault(r)
      PROVE  IInv'
  BY <1>1, <1>3, <1>5, StreamCutKeeps, DisconnectKeeps, LoseKeeps DEF Fault
<1> QED
  BY <1>2, <1>4, <1>5, StutterKeeps DEF Next

LEMMA InitKeeps ==
    ASSUME Init
    PROVE  IInv
<1>1. TypeOK
  <2>1. Idle \in Request
    BY ChatAssumption DEF Idle, Request, Phases
  <2> QED
    BY <2>1, ChatAssumption DEF Init, TypeOK
<1>2. \A r \in Requests : request[r] = Idle
  BY DEF Init
<1>3. RequestsOK /\ Distinct /\ HistoriesOK
  BY <1>2 DEF RequestsOK, RequestOK, Distinct, HistoriesOK, HistoryOK, Sending, Creating, SendPhases,
              Idle
<1>4. FutureOK /\ MessagesOK
  BY DEF Init, FutureOK, MessagesOK
<1> QED
  BY <1>1, <1>3, <1>4 DEF IInv

-----------------------------------------------------------------------------
(***************************************************************************)
(* The theorems.                                                           *)
(***************************************************************************)

(* The life of every turn: what is pending, committed and lost fits        *)
(* together in every state the requests, the faults and the commits of     *)
(* get_db_session can reach.                                               *)
THEOREM Invariance == Spec => []IInv
<1>1. Init => IInv
  BY InitKeeps
<1>2. IInv /\ [Next]_vars => IInv'
  BY NextKeeps
<1> QED
  BY <1>1, <1>2, PTL DEF Spec

LEMMA AlwaysTypes == IInv => TypeOK
BY DEF IInv

LEMMA WholeAnswers == IInv => AnswersAreWhole
BY DEF IInv, MessagesOK, WholeIn, AnswersAreWhole, Answers, Questions

LEMMA ExplainedQuestions == IInv => DanglingQuestionsExplained
BY DEF IInv, MessagesOK, WholeIn, DanglingQuestionsExplained, Answers, Questions

LEMMA CleanFailures == IInv => FailedTurnsLeaveNothing
BY DEF IInv, MessagesOK, MessageOK, FailedTurnsLeaveNothing

(* Only a request that sends has read a history.                           *)
LEMMA HistoryOfSender ==
    ASSUME IInv, NEW r \in Requests, NEW m \in request[r].history
    PROVE  Sending(r) /\ TurnOK(r) /\ UndecidedOK(r) /\ m \in Message
<1>1. Sending(r)
  BY InRange DEF RequestOK, CreateOK, Sending, Creating, Request, Phases, Idle
<1> QED
  BY <1>1, InRange DEF RequestOK, Request

LEMMA WholePrompts == IInv => PromptsHoldWholeTurns
<1> SUFFICES ASSUME IInv, NEW r \in Requests, NEW m \in request[r].history
             PROVE  /\ m.session = request[r].session
                    /\ m.turn # request[r].started
                    /\ \/ \E n \in request[r].history : n.turn = m.turn /\ n.role # m.role
                       \/ m.role = "user" /\ "disconnected" \in fate[m.turn]
  BY DEF PromptsHoldWholeTurns
<1>1. m \in messages /\ m.session = request[r].session /\ WholeIn(m, request[r].history)
  BY DEF IInv, HistoriesOK, HistoryOK
<1>2. m.role \in {"user", "assistant"} /\ m.turn # request[r].started
  BY <1>1, HistoryOfSender DEF UndecidedOK, Message, Roles
<1> QED
  BY <1>1, <1>2 DEF WholeIn

LEMMA PrivateSessions == IInv => SessionsArePrivate
<1> SUFFICES ASSUME IInv
             PROVE  SessionsArePrivate
  OBVIOUS
<1>1. \A m \in messages : sessions[m.session] = asker[m.turn]
  BY DEF IInv, MessagesOK, MessageOK
<1>2. ASSUME NEW r \in Requests, NEW m \in request[r].history
      PROVE  asker[m.turn] = request[r].user
  <2>1. m \in messages /\ m.session = request[r].session
    BY DEF IInv, HistoriesOK, HistoryOK
  <2>2. sessions[request[r].session] = request[r].user
    BY HistoryOfSender DEF TurnOK
  <2> QED
    BY <1>1, <2>1, <2>2
<1> QED
  BY <1>1, <1>2 DEF SessionsArePrivate

LEMMA UnseparatedTurns == IInv => TurnsStayTogether
<1> SUFFICES ASSUME IInv, NEW q \in Questions, NEW a \in Answers, NEW m \in messages,
                    q.turn = a.turn, m.turn # q.turn
             PROVE  \/ m.created_at < q.created_at /\ m.created_at < a.created_at
                    \/ m.created_at > q.created_at /\ m.created_at > a.created_at
  BY DEF TurnsStayTogether
<1>1. \A n \in messages : n.created_at = n.turn /\ n.turn \in 1 .. clock
  BY DEF IInv, MessagesOK, MessageOK
<1>2. q.created_at = q.turn /\ a.created_at = q.turn /\ m.created_at = m.turn
  BY <1>1 DEF Questions, Answers
<1>3. q.turn \in Nat /\ m.turn \in Nat
  BY ChatAssumption DEF Questions, IInv, TypeOK, Message, Turns
<1> QED
  BY <1>2, <1>3

(* Requests, messages and the record of the turns keep their types, whatever*)
(* is sent, lost or cancelled (routes_chat.py send_message, models.py).    *)
THEOREM ChatTypes == Spec => []TypeOK
BY Invariance, AlwaysTypes, PTL

(* Whatever breaks off a stream but an error that Ollama reports within it,*)
(* a stored answer is the model's whole answer, and always is stored with  *)
(* its question (routes_chat.py event_stream, llm.py stream_completion).   *)
THEOREM AnswersAreAlwaysWhole == Spec => []AnswersAreWhole
BY Invariance, WholeAnswers, PTL

(* A question without an answer is one whose client left during the stream,*)
(* never one that failed (routes_chat.py send_message, db.py               *)
(* get_db_session).                                                        *)
THEOREM DanglingAlwaysExplained == Spec => []DanglingQuestionsExplained
BY Invariance, ExplainedQuestions, PTL

(* A turn whose request raised, or whose commit was lost, has no message in*)
(* any session (db.py get_db_session).                                     *)
THEOREM FailuresLeaveNothing == Spec => []FailedTurnsLeaveNothing
BY Invariance, CleanFailures, PTL

(* However many requests of a session overlap, the history read for a prompt*)
(* has whole turns of that session, and not the turn it is read for        *)
(* (routes_chat.py send_message, rag.py answer).                           *)
THEOREM PromptsAreWhole == Spec => []PromptsHoldWholeTurns
BY Invariance, WholePrompts, PTL

(* No message of another user enters a session or a prompt                 *)
(* (repositories.py get_session).                                          *)
THEOREM SessionsStayPrivate == Spec => []SessionsArePrivate
BY Invariance, PrivateSessions, PTL

(* A listing by created_at never puts a message of another turn between a  *)
(* question and its answer (repositories.py list_messages).                *)
THEOREM TurnsAreUnseparated == Spec => []TurnsStayTogether
BY Invariance, UnseparatedTurns, PTL

=============================================================================
