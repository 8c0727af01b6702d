-------------------------------- MODULE Chat --------------------------------
(***************************************************************************)
(* Chat sessions and their messages (app/api/routes_chat.py), with the     *)
(* repository, the RAG service and the request-scoped transaction of       *)
(* app/db.py.                                                              *)
(*                                                                         *)
(* send_message is one database transaction that stays open while the      *)
(* language model streams its answer: the question is flushed before the   *)
(* first token, the answer after the last, and get_db_session commits when *)
(* FastAPI closes the dependency, after the client has seen the end of the *)
(* stream.  Requests of the same session may overlap.                      *)
(*                                                                         *)
(* created_at is server_default now(), which in Postgres is the time the   *)
(* transaction began.  It begins with the first statement of its request,  *)
(* and no two begin in the same microsecond: a turn of the conversation is *)
(* identified by that time.                                                *)
(***************************************************************************)
EXTENDS Naturals

CONSTANTS
    Users,      \* users.id of the accounts
    Requests,   \* slots for the requests that are served at the same time
    MaxSessions,\* bound: how many session ids are drawn
    MaxTurns,   \* bound: how many turns are begun
    MaxTokens,  \* num_predict, max_tokens: the most tokens the model streams
    None        \* no owner, no session

(* A session id is named by when uuid4 drew it: ids do not repeat.         *)
Sessions == 1 .. MaxSessions
Turns    == 1 .. MaxTurns
Roles    == {"user", "assistant"}

ASSUME ChatAssumption ==
    /\ MaxSessions \in Nat
    /\ MaxTurns \in Nat
    /\ MaxTokens \in Nat
    /\ None \notin Users \cup Sessions

(* Two fields are no columns: turn names the request that wrote the        *)
(* message, whole is how many tokens the model's answer has (0 before the  *)
(* model is asked), where tokens is how many were stored.                  *)
Message == [session : Sessions, role : Roles, tokens : 0 .. MaxTokens,
            created_at : Turns, turn : Turns, whole : 0 .. MaxTokens]

(* Where a request stands, named for what it waits for.                    *)
SendPhases == {"history", "question", "retrieve", "stream", "answer", "commit_turn"}
Phases     == {"idle", "answer_create", "commit_create"} \cup SendPhases

(***************************************************************************)
(* A request: current_user.id, the chat session it creates or writes to,   *)
(* now() of its transaction, history_messages, the messages it has flushed *)
(* and the number of tokens collected.  How many tokens the model's answer *)
(* has is not for the request to know.                                     *)
(***************************************************************************)
Request ==
    [phase : Phases, user : Users \cup {None}, session : Sessions \cup {None},
     started : 0 .. MaxTurns, history : SUBSET Message, pending : SUBSET Message,
     collected : 0 .. MaxTokens, whole : 0 .. MaxTokens]

Idle ==
    [phase |-> "idle", user |-> None, session |-> None, started |-> 0,
     history |-> {}, pending |-> {}, collected |-> 0, whole |-> 0]

(***************************************************************************)
(* What has become of a turn; no part of the code.                         *)
(*   delivered     the client read the stream to its end                   *)
(*   cut           Ollama reported an error within its stream, which ended *)
(*   disconnected  the client left while tokens were streamed              *)
(*   failed        an exception reached get_db_session                     *)
(*   lost          the commit failed, or the process died                  *)
(***************************************************************************)
Events == {"delivered", "cut", "disconnected", "failed", "lost"}

VARIABLES
    sessions,   \* committed owner of each chat session
    messages,   \* committed chat messages
    clock,      \* when the last turn began
    request,    \* per slot: the request it serves
    drawn,      \* how many session ids were drawn
    asker,      \* per turn: who asked
    fate        \* per turn: the events so far

tables == <<sessions, messages>>
past   == <<drawn, asker, fate>>
vars   == <<tables, clock, request, past>>

-----------------------------------------------------------------------------

TypeOK ==
    /\ sessions \in [Sessions -> Users \cup {None}]
    /\ messages \in SUBSET Message
    /\ clock \in 0 .. MaxTurns
    /\ request \in [Requests -> Request]
    /\ drawn \in 0 .. MaxSessions
    /\ asker \in [Turns -> Users \cup {None}]
    /\ fate \in [Turns -> SUBSET Events]

Init ==
    /\ sessions = [s \in Sessions |-> None]
    /\ messages = {}
    /\ clock = 0
    /\ request = [r \in Requests |-> Idle]
    /\ drawn = 0
    /\ asker = [t \in Turns |-> None]
    /\ fate = [t \in Turns |-> {}]

-----------------------------------------------------------------------------

At(r, p) == request[r].phase = p

Goto(r, p) == request' = [request EXCEPT ![r].phase = p]

Note(r, events) == fate' = [fate EXCEPT ![request[r].started] = @ \cup events]

(* The request is over: its session is closed and what it held is gone.    *)
EndRequest(r) == request' = [request EXCEPT ![r] = Idle]

(* ChatRepository.list_messages sees what is committed, and what its own   *)
(* transaction has flushed.                                                *)
ListMessages(r) ==
    {m \in messages \cup request[r].pending : m.session = request[r].session}

(* ChatRepository.add_message, on the way to phase p.                      *)
FlushAt(time, r, role, n, p) ==
    request' = [request EXCEPT ![r].phase = p, ![r].pending = @ \cup
        {[session |-> request[r].session, role |-> role, tokens |-> n,
          created_at |-> time, turn |-> request[r].started, whole |-> request[r].whole]}]

(* Mutated form of Flush: created_at is the time of the INSERT.            *)
FlushNow(r, role, n, p) == FlushAt(clock, r, role, n, p)

(* created_at is now() of the transaction.                                 *)
Flush(r, role, n, p) == FlushAt(request[r].started, r, role, n, p)

-----------------------------------------------------------------------------
(***************************************************************************)
(* POST /chat/sessions                                                     *)
(***************************************************************************)

(* The row is flushed: only the request's own transaction sees it.         *)
CreateSession(r, u) ==
    /\ At(r, "idle")
    /\ drawn < MaxSessions
    /\ drawn' = drawn + 1
    /\ request' = [request EXCEPT ![r].phase = "answer_create", ![r].user = u,
                                  ![r].session = drawn + 1]
    /\ UNCHANGED <<tables, clock, asker, fate>>

AnswerCreate(r) ==
    /\ At(r, "answer_create")
    /\ Goto(r, "commit_create")
    /\ UNCHANGED <<tables, clock, past>>

CommitSession(r) ==
    /\ At(r, "commit_create")
    /\ sessions' = [sessions EXCEPT ![request[r].session] = request[r].user]
    /\ EndRequest(r)
    /\ UNCHANGED <<messages, clock, past>>

-----------------------------------------------------------------------------
(***************************************************************************)
(* POST /chat/sessions/{session_id}/messages                               *)
(***************************************************************************)

(* Mutated form of GetSession: the lookup forgets the owner.               *)
GetAnySession(s, u) == sessions[s] # None

(* ChatRepository.get_session finds committed sessions of their owner.     *)
GetSession(s, u) == sessions[s] = u

(* The transaction begins, and get_session finds the session.              *)
SendMessage(r, u, s) ==
    /\ At(r, "idle")
    /\ GetSession(s, u)
    /\ clock < MaxTurns
    /\ clock' = clock + 1
    /\ request' = [request EXCEPT ![r].phase = "history", ![r].user = u, ![r].session = s,
                                  ![r].started = clock + 1]
    /\ asker' = [asker EXCEPT ![clock + 1] = u]
    /\ UNCHANGED <<tables, drawn, fate>>

(* 404: no such session, or not this user's; it may be committed later.    *)
SessionNotFound(r, u, s) ==
    /\ At(r, "idle")
    /\ ~GetSession(s, u)
    /\ UNCHANGED vars

(* Mutated form of ReadHistory: the question is flushed before it.         *)
ReadHistoryLate(r) ==
    /\ At(r, "history")
    /\ request' = [request EXCEPT ![r].phase = "question", ![r].history = ListMessages(r) \cup
          {[session |-> request[r].session, role |-> "user", tokens |-> 0,
            created_at |-> request[r].started, turn |-> request[r].started, whole |-> 0]}]
    /\ UNCHANGED <<tables, clock, past>>

ReadHistory(r) ==
    /\ At(r, "history")
    /\ request' = [request EXCEPT ![r].phase = "question", ![r].history = ListMessages(r)]
    /\ UNCHANGED <<tables, clock, past>>

AddQuestion(r) ==
    /\ At(r, "question")
    /\ Flush(r, "user", 0, "retrieve")
    /\ UNCHANGED <<tables, clock, past>>

(* rag.answer: the chunks are retrieved and the stream is created.  How    *)
(* long an answer the model has for this prompt is its own affair.         *)
Retrieve(r) ==
    /\ At(r, "retrieve")
    /\ \E n \in 0 .. MaxTokens :
          request' = [request EXCEPT ![r].phase = "stream", ![r].whole = n]
    /\ UNCHANGED <<tables, clock, past>>

(* Mutated form of StreamToken: the token limit is not sent.               *)
StreamForever(r) ==
    /\ At(r, "stream")
    /\ request' = [request EXCEPT ![r].collected = @ + 1]
    /\ UNCHANGED <<tables, clock, past>>

(* event_stream: one token is collected and sent.                          *)
StreamToken(r) ==
    /\ At(r, "stream")
    /\ request[r].collected < request[r].whole
    /\ request' = [request EXCEPT ![r].collected = @ + 1]
    /\ UNCHANGED <<tables, clock, past>>

(* The model has said what it had to say.                                  *)
StreamEnds(r) ==
    /\ At(r, "stream")
    /\ request[r].collected = request[r].whole
    /\ Goto(r, "answer")
    /\ UNCHANGED <<tables, clock, past>>

(* Ollama fails within its stream and says so in a line that has no        *)
(* content: the line is skipped and the stream ends as if all were said.   *)
StreamCut(r) ==
    /\ At(r, "stream")
    /\ request[r].collected < request[r].whole
    /\ Note(r, {"cut"})
    /\ Goto(r, "answer")
    /\ UNCHANGED <<tables, clock, drawn, asker>>

(* The answer is flushed, then the client is sent the end of the stream.   *)
AddAnswer(r) ==
    /\ At(r, "answer")
    /\ Flush(r, "assistant", request[r].collected, "commit_turn")
    /\ Note(r, {"delivered"})
    /\ UNCHANGED <<tables, clock, drawn, asker>>

CommitTurn(r) ==
    /\ At(r, "commit_turn")
    /\ messages' = messages \cup request[r].pending
    /\ EndRequest(r)
    /\ UNCHANGED <<sessions, clock, past>>

-----------------------------------------------------------------------------
(***************************************************************************)
(* Faults.                                                                 *)
(***************************************************************************)

Fallible == SendPhases \ {"commit_turn"}

(* Mutated forms of Raise: the error is handled in event_stream, so that   *)
(* get_db_session sees no exception; the stream is begun again, and again. *)
RaiseHandled(r) ==
    /\ request[r].phase \in Fallible
    /\ Note(r, {"failed"})
    /\ IF At(r, "stream") THEN Goto(r, "commit_turn") ELSE EndRequest(r)
    /\ UNCHANGED <<tables, clock, drawn, asker>>

RaiseRetries(r) ==
    /\ request[r].phase \in Fallible
    /\ IF At(r, "stream")
       THEN Goto(r, "retrieve") /\ UNCHANGED fate
       ELSE EndRequest(r) /\ Note(r, {"failed"})
    /\ UNCHANGED <<tables, clock, drawn, asker>>

(* A statement, the retrieval or the model raises; once the stream has     *)
(* begun, the client sees it break off.  get_db_session rolls back.        *)
Raise(r) ==
    /\ request[r].phase \in Fallible
    /\ Note(r, {"failed"})
    /\ EndRequest(r)
    /\ UNCHANGED <<tables, clock, drawn, asker>>

(* Mutated form of Disconnect: event_stream saves what it has in a finally *)
(* clause.                                                                 *)
DisconnectSaves(r) ==
    /\ At(r, "stream")
    /\ Flush(r, "assistant", request[r].collected, "commit_turn")
    /\ Note(r, {"disconnected"})
    /\ UNCHANGED <<tables, clock, drawn, asker>>

(* The client leaves during the stream: Starlette cancels event_stream and *)
(* returns normally, so get_db_session commits what was flushed.           *)
Disconnect(r) ==
    /\ At(r, "stream")
    /\ Note(r, {"disconnected"})
    /\ Goto(r, "commit_turn")
    /\ UNCHANGED <<tables, clock, drawn, asker>>

(* The client leaves while the answer is flushed: the interrupted flush    *)
(* leaves a session whose commit raises.                                   *)
DisconnectInFlush(r) ==
    /\ At(r, "answer")
    /\ Note(r, {"disconnected", "lost"})
    /\ EndRequest(r)
    /\ UNCHANGED <<tables, clock, drawn, asker>>

(* The commit fails, or the process dies.                                  *)
Lose(r) ==
    /\ ~At(r, "idle")
    /\ IF request[r].phase \in SendPhases THEN Note(r, {"lost"}) ELSE UNCHANGED fate
    /\ EndRequest(r)
    /\ UNCHANGED <<tables, clock, drawn, asker>>

-----------------------------------------------------------------------------

Start(r) ==
    \E u \in Users :
        \/ CreateSession(r, u)
        \/ \E s \in Sessions : SendMessage(r, u, s) \/ SessionNotFound(r, u, s)

(* What a request does by itself once it was accepted.                     *)
Continue(r) ==
    \/ AnswerCreate(r) \/ CommitSession(r)
    \/ ReadHistory(r) \/ AddQuestion(r) \/ Retrieve(r)
    \/ StreamToken(r) \/ StreamEnds(r) \/ AddAnswer(r) \/ CommitTurn(r)
    \/ Raise(r)

Fault(r) == StreamCut(r) \/ Disconnect(r) \/ DisconnectInFlush(r) \/ Lose(r)

Next == \E r \in Requests : Start(r) \/ Continue(r) \/ Fault(r)

Spec == Init /\ [][Next]_vars

(* Every await of a handler returns or raises.  The clients of Qdrant and  *)
(* of the models have timeouts, and the model says at most num_predict or  *)
(* max_tokens tokens with at most 300 seconds between two.  The database   *)
(* client has none: that Postgres answers is assumed of the environment.   *)
FairSpec == Spec /\ \A r \in Requests : WF_vars(Continue(r))

-----------------------------------------------------------------------------
(***************************************************************************)
(* Properties.                                                             *)
(***************************************************************************)

Questions == {m \in messages : m.role = "user"}
Answers   == {m \in messages : m.role = "assistant"}

(* A stored answer is the whole answer the model gave, and the question it *)
(* answers is stored with it, in the session it was asked in.  Only an     *)
(* error that Ollama reports within its stream leaves a truncated answer:  *)
(* no exception, no client that leaves and no lost commit does             *)
(* (routes_chat.py event_stream, llm.py stream_completion, db.py           *)
(* get_db_session).                                                        *)
AnswersAreWhole ==
    \A a \in Answers :
        /\ \/ a.tokens = a.whole
           \/ "cut" \in fate[a.turn] /\ a.tokens < a.whole
        /\ \E q \in Questions : q.turn = a.turn /\ q.session = a.session

(* A question stays without an answer only when its client left during the *)
(* stream: a failure of the model, of retrieval or of a statement takes    *)
(* the question back (routes_chat.py send_message, db.py get_db_session).  *)
DanglingQuestionsExplained ==
    \A q \in Questions :
        \/ \E a \in Answers : a.turn = q.turn
        \/ "disconnected" \in fate[q.turn]

(* A turn that failed leaves no trace in the session: the client that was  *)
(* told so can ask again without the model reading the question twice      *)
(* (db.py get_db_session).                                                 *)
FailedTurnsLeaveNothing ==
    \A m \in messages : fate[m.turn] \cap {"failed", "lost"} = {}

(* The history a prompt is built from holds whole turns of its own session *)
(* only, and not the question itself, which rag.answer appends: overlapping*)
(* requests never show the model half a turn (routes_chat.py send_message, *)
(* rag.py answer).                                                         *)
PromptsHoldWholeTurns ==
    \A r \in Requests : \A m \in request[r].history :
        /\ m.session = request[r].session
        /\ m.turn # request[r].started
        /\ \/ \E n \in request[r].history : n.turn = m.turn /\ n.role # m.role
           \/ m.role = "user" /\ "disconnected" \in fate[m.turn]

(* What is in a session, and what a prompt tells the model of it, was      *)
(* asked by the owner of the session (repositories.py get_session).        *)
SessionsArePrivate ==
    /\ \A m \in messages : sessions[m.session] = asker[m.turn]
    /\ \A r \in Requests : \A m \in request[r].history : asker[m.turn] = request[r].user

(* No listing separates a question from its answer, however requests of    *)
(* one session overlap: ORDER BY created_at lists both at the time their   *)
(* transaction began (repositories.py list_messages, models.py             *)
(* ChatMessage.created_at).                                                *)
TurnsStayTogether ==
    \A q \in Questions, a \in Answers, m \in messages :
        (q.turn = a.turn /\ m.session = q.session /\ m.turn # q.turn) =>
            \/ m.created_at < q.created_at /\ m.created_at < a.created_at
            \/ m.created_at > q.created_at /\ m.created_at > a.created_at

(* A message that is sent is answered, fails or is lost: no handler keeps  *)
(* its transaction, and its database connection, for ever (routes_chat.py  *)
(* send_message, under the fairness of FairSpec).                          *)
EverySendEnds == \A r \in Requests : At(r, "history") ~> At(r, "idle")

(* The UI's "Reload from the server so the assistant message picks up its  *)
(* citations" (index.html:499): a client that read its stream to the end   *)
(* finds the answer when it loads the messages of the session.             *)
ReloadShowsAnswer ==
    \A t \in Turns : "delivered" \in fate[t] => \E a \in Answers : a.turn = t

(* The README's "multi-turn chat sessions" (README.md:15): the messages of *)
(* a session, ordered by created_at, have the question before its answer.  *)
QuestionsListedFirst ==
    \A q \in Questions, a \in Answers : q.turn = a.turn => q.created_at < a.created_at
=============================================================================
