------------------------------ MODULE Frontend ------------------------------
(***************************************************************************)
(* The chat panel of the web page (app/static/index.html) before a server  *)
(* that commits after it has answered.                                     *)
(*                                                                         *)
(* The page runs one callback at a time; what makes it hard is what other  *)
(* callbacks do to the shared state and to the panel while one awaits an   *)
(* answer.  A task is one event handler from its event to its end; its     *)
(* phase names the fetch it awaits.  The account stays the same.           *)
(***************************************************************************)
EXTENDS Naturals, Sequences, FiniteSets

CONSTANTS
    Tasks,       \* slots for event handlers that are under way
    MaxSessions, \* bounds the sessions that are ever created
    MaxTurns,    \* bounds the messages that are ever sent
    None         \* no session is active

ASSUME FrontendAssumption ==
    /\ IsFiniteSet(Tasks) /\ MaxSessions \in Nat /\ MaxTurns \in Nat
    /\ None \notin 1 .. MaxSessions

VARIABLES
    chats,    \* server: what became of each session, in the order of creation
    turns,    \* server: session and fate of each message, in the order of sending
    active,   \* state.activeSessionId
    sidebar,  \* state.sessions, as rendered
    view,     \* how often the panel shows each turn, as bubbles or as listed
    disabled, \* sendBtn.disabled
    task,     \* per slot: the handler under way
    crossed,  \* history: another load or send met the load of the panel
    due       \* history: what the last load of the panel had to find

server == <<chats, turns>>
page   == <<active, sidebar, view, disabled, task, crossed, due>>
vars   == <<server, page>>

Sessions == 1 .. MaxSessions
Turns    == 1 .. MaxTurns

(* answered, and then stored or lost by the commit (Chat.CommitTurn).      *)
ChatFates == {"answered", "stored", "lost"}
TurnFates == {"open", "failed"} \cup ChatFates

(*   create  newChatBtn awaits POST /chat/sessions                         *)
(*   stream  sendMessage awaits the answer to its message                  *)
(*   load    loadMessages awaits the messages of a session; loaded: and    *)
(*           has been answered by the server                               *)
(*   list    refreshSessions awaits the sessions; listed: likewise         *)
Kinds  == {"none", "boot", "new", "select", "send"}
Phases == {"idle", "create", "stream", "load", "loaded", "list", "listed"}

Task == [kind : Kinds, phase : Phases, session : Sessions \cup {None},
         turn : Turns \cup {None}, got : SUBSET (Turns \cup Sessions)]

Idle == [kind |-> "none", phase |-> "idle", session |-> None, turn |-> None, got |-> {}]

Empty == [t \in Turns |-> 0]

TypeOK ==
    /\ Len(chats) <= MaxSessions /\ \A s \in DOMAIN chats : chats[s] \in ChatFates
    /\ Len(turns) <= MaxTurns
    /\ \A t \in DOMAIN turns : turns[t] \in [room : DOMAIN chats, fate : TurnFates]
    /\ active \in DOMAIN chats \cup {None}
    /\ sidebar \subseteq DOMAIN chats
    /\ view \in [Turns -> 0 .. (Cardinality(Tasks) + 1)]
    /\ disabled \in BOOLEAN /\ crossed \in BOOLEAN
    /\ task \in [Tasks -> Task]
    /\ due \subseteq DOMAIN turns

Init ==
    /\ chats = <<>> /\ turns = <<>>
    /\ active = None /\ sidebar = {} /\ view = Empty /\ disabled = FALSE
    /\ task = [r \in Tasks |-> Idle]
    /\ crossed = FALSE /\ due = {}

-----------------------------------------------------------------------------

At(r, p) == task[r].phase = p

Stored(t) == turns[t].fate = "stored"

(* list_messages: the turns of a session that are committed.               *)
Listing(s) == {t \in DOMAIN turns : turns[t].room = s /\ Stored(t)}

(* Does a task other than r load the panel?                                *)
OthersLoad(r) == \E q \in Tasks \ {r} : task[q].phase \in {"load", "loaded"}

(* loadMessages up to its await: the panel is cleared.                     *)
LoadMessages(r, kind, s) ==
    /\ view' = Empty
    /\ task' = [task EXCEPT ![r] = [Idle EXCEPT !.kind = kind, !.phase = "load", !.session = s]]
    /\ crossed' = OthersLoad(r)
    /\ due' = Listing(s)

(* refreshSessions up to its await.                                        *)
RefreshSessions(r, kind) ==
    task' = [task EXCEPT ![r].kind = kind, ![r].phase = "list", ![r].got = {}]

(* Mutated form of EndTask: sendMessage enables the button only in the end *)
(* of its try block, not in a finally clause.                              *)
EndTaskUnlessFailed(r) ==
    /\ task' = [task EXCEPT ![r] = Idle]
    /\ disabled' = (disabled /\ (task[r].kind = "send" => task[r].phase # "listed"))

(* A handler ends, by its return or by an exception; sendMessage enables   *)
(* its button in both cases.                                               *)
EndTask(r) ==
    /\ task' = [task EXCEPT ![r] = Idle]
    /\ disabled' = (disabled /\ task[r].kind # "send")

-----------------------------------------------------------------------------
(***************************************************************************)
(* What the user does.                                                     *)
(***************************************************************************)

(* The server notices that the page is gone, or the connection: the turn   *)
(* it streams is cancelled, and its question committed or lost.            *)
Cancelled(gone) ==
    \E kept \in SUBSET gone :
        turns' = [t \in DOMAIN turns |->
                    IF t \notin gone THEN turns[t]
                    ELSE [turns[t] EXCEPT !.fate = IF t \in kept THEN "answered" ELSE "failed"]]

(* The page is opened, or loaded anew in the middle of anything.           *)
OpenPage(r) ==
    /\ Cancelled({t \in DOMAIN turns : turns[t].fate = "open"})
    /\ active' = None /\ sidebar' = {} /\ view' = Empty /\ disabled' = FALSE
    /\ task' = [[q \in Tasks |-> Idle] EXCEPT ![r].kind = "boot", ![r].phase = "list"]
    /\ crossed' = FALSE /\ due' = {}
    /\ UNCHANGED chats

(* MaxSessions is a bound of the model, not of the code.                   *)
NewChat(r) ==
    /\ At(r, "idle")
    /\ Len(chats) + Cardinality({q \in Tasks : At(q, "create")}) < MaxSessions
    /\ task' = [task EXCEPT ![r].kind = "new", ![r].phase = "create"]
    /\ UNCHANGED <<server, active, sidebar, view, disabled, crossed, due>>

(* A session is chosen in the sidebar or, by a question of it, in the      *)
(* history, which is read anew whenever its tab is opened.                 *)
SelectSession(r, s) ==
    /\ At(r, "idle")
    /\ s \in sidebar \/ Listing(s) # {}
    /\ active' = s
    /\ LoadMessages(r, "select", s)
    /\ UNCHANGED <<server, sidebar, disabled>>

(* sendMessage.  The bubbles are shown, and the message is sent, at once.   *)
PostMessage(r) ==
    /\ At(r, "idle") /\ Len(turns) < MaxTurns
    /\ LET t == Len(turns) + 1 IN
       /\ turns' = Append(turns, [room |-> active, fate |-> "open"])
       /\ view' = [view EXCEPT ![t] = 1]
       /\ task' = [task EXCEPT ![r] = [Idle EXCEPT !.kind = "send", !.phase = "stream", !.turn = t]]
    /\ disabled' = TRUE
    /\ crossed' = (crossed \/ OthersLoad(r))
    /\ UNCHANGED <<chats, active, sidebar, due>>

(* Mutated form of SendMessage: without the check of activeSessionId.      *)
SendAnyway(r) == PostMessage(r)

(* By the button or, be it disabled or not, by the Enter key.              *)
SendMessage(r) == active # None /\ PostMessage(r)

-----------------------------------------------------------------------------
(***************************************************************************)
(* What the server does (Chat has the whole of it).                        *)
(***************************************************************************)

(* The answer is streamed to its end, or an error: also a 404, if the      *)
(* session is not committed.                                               *)
AnswerEnds(t) ==
    /\ t \in DOMAIN turns /\ turns[t].fate = "open"
    /\ \/ chats[turns[t].room] = "stored" /\ turns' = [turns EXCEPT ![t].fate = "answered"]
       \/ turns' = [turns EXCEPT ![t].fate = "failed"]
    /\ UNCHANGED <<chats, page>>

CommitTurn(t) ==
    /\ t \in DOMAIN turns /\ turns[t].fate = "answered"
    /\ \E fate \in {"stored", "lost"} : turns' = [turns EXCEPT ![t].fate = fate]
    /\ UNCHANGED <<chats, page>>

CommitSession(s) ==
    /\ s \in DOMAIN chats /\ chats[s] = "answered"
    /\ \E fate \in {"stored", "lost"} : chats' = [chats EXCEPT ![s] = fate]
    /\ UNCHANGED <<turns, page>>

LoadAnswered(r) ==
    /\ At(r, "load") /\ chats[task[r].session] = "stored"
    /\ task' = [task EXCEPT ![r].phase = "loaded", ![r].got = Listing(task[r].session)]
    /\ UNCHANGED <<server, active, sidebar, view, disabled, crossed, due>>

ListAnswered(r) ==
    /\ At(r, "list")
    /\ task' = [task EXCEPT ![r].phase = "listed",
                            ![r].got = {s \in DOMAIN chats : chats[s] = "stored"}]
    /\ UNCHANGED <<server, active, sidebar, view, disabled, crossed, due>>

-----------------------------------------------------------------------------
(***************************************************************************)
(* What the page makes of an answer.                                       *)
(***************************************************************************)

(* A session is created as its answer is sent; whether a page that is gone *)
(* hears of it makes no difference.                                        *)
Created(r) ==
    /\ At(r, "create")
    /\ chats' = Append(chats, "answered")
    /\ task' = [task EXCEPT ![r].phase = "list", ![r].session = Len(chats)']
    /\ UNCHANGED <<turns, active, sidebar, view, disabled, crossed, due>>

(* Mutated form of StreamRead: the session the message was sent to is      *)
(* loaded, active or not.                                                  *)
StreamReadReloadsSent(r) ==
    /\ At(r, "stream") /\ turns[task[r].turn].fate \in ChatFates
    /\ LoadMessages(r, "send", turns[task[r].turn].room)
    /\ UNCHANGED <<server, active, sidebar, disabled>>

(* The stream has been read to its end; the session that is active now is  *)
(* loaded.                                                                 *)
StreamRead(r) ==
    /\ At(r, "stream") /\ turns[task[r].turn].fate \in ChatFates
    /\ LoadMessages(r, "send", active)
    /\ UNCHANGED <<server, active, sidebar, disabled>>

(* loadMessages appends what it got to whatever the panel shows by now.    *)
AppendMessages(r) ==
    /\ At(r, "loaded")
    /\ view' = [t \in Turns |-> view[t] + (IF t \in task[r].got THEN 1 ELSE 0)]
    /\ \/ task[r].kind = "send" /\ RefreshSessions(r, "send") /\ UNCHANGED disabled
       \/ task[r].kind # "send" /\ EndTask(r)
    /\ UNCHANGED <<server, active, sidebar, crossed, due>>

(* renderSessions; newChatBtn then selects the session it created.  The    *)
(* refreshHistory of sendMessage catches its errors and changes neither    *)
(* the panel nor the sidebar.                                              *)
RenderSessions(r) ==
    /\ At(r, "listed")
    /\ sidebar' = task[r].got
    /\ \/ /\ task[r].kind = "new"
          /\ active' = task[r].session
          /\ LoadMessages(r, "select", task[r].session)
          /\ UNCHANGED disabled
       \/ /\ task[r].kind # "new"
          /\ EndTask(r)
          /\ UNCHANGED <<active, view, crossed, due>>
    /\ UNCHANGED server

(* An exception ends the handler; the text of the error goes to a bubble   *)
(* or to the console.  A panel that was being loaded stays as it is.       *)
Throw(r) ==
    /\ EndTask(r)
    /\ due' = IF task[r].phase \in {"load", "loaded"} THEN {} ELSE due
    /\ UNCHANGED <<active, sidebar, view, crossed>>

Refusing(r) ==
    \/ At(r, "stream") /\ turns[task[r].turn].fate = "failed"
    \/ At(r, "load") /\ chats[task[r].session] # "stored"

(* The answer is an error.                                                 *)
Refused(r) ==
    /\ Refusing(r)
    /\ Throw(r)
    /\ UNCHANGED server

(* The connection breaks, or the server cannot answer.                     *)
Broken(r) ==
    /\ ~At(r, "idle") /\ ~Refusing(r)
    /\ Cancelled({t \in DOMAIN turns : t = task[r].turn /\ turns[t].fate = "open"})
    /\ Throw(r)
    /\ UNCHANGED chats

-----------------------------------------------------------------------------

(* A task gets, and uses, the answer it awaits.                            *)
Continue(r) ==
    \/ Created(r) \/ StreamRead(r) \/ Refused(r)
    \/ LoadAnswered(r) \/ AppendMessages(r)
    \/ ListAnswered(r) \/ RenderSessions(r)

Next ==
    \/ \E r \in Tasks : OpenPage(r) \/ NewChat(r) \/ SendMessage(r)
    \/ \E r \in Tasks, s \in Sessions : SelectSession(r, s)
    \/ \E t \in Turns : AnswerEnds(t) \/ CommitTurn(t)
    \/ \E s \in Sessions : CommitSession(s)
    \/ \E r \in Tasks : Continue(r) \/ Broken(r)

Spec == Init /\ [][Next]_vars

(* Streams end (Chat.EverySendEnds), other requests are answered, and the  *)
(* browser runs the callbacks that are due.  Nothing is assumed of commits *)
(* and of the user.                                                        *)
FairSpec ==
    /\ Spec
    /\ \A r \in Tasks : WF_vars(Continue(r))
    /\ \A t \in Turns : WF_vars(AnswerEnds(t))

-----------------------------------------------------------------------------

(* When no handler is under way, the panel shows the session that is       *)
(* highlighted: nothing of another session, nothing twice, and at least    *)
(* what was stored when it was loaded, unless that load failed.  Sessions  *)
(* switched, messages sent while others stream and pages left in between   *)
(* do no harm; only a load that meets another load, or a message sent      *)
(* while the panel loads, may (crossed): loadMessages clears the panel     *)
(* before its await and appends after it (index.html loadMessages,         *)
(* selectSession, sendMessage).                                            *)
ScreenAgrees ==
    (~crossed /\ \A r \in Tasks : At(r, "idle"))
        => /\ \A t \in Turns : view[t] > 0 => turns[t].room = active /\ view[t] = 1
           /\ \A t \in due : view[t] = 1

(* The send button does not stay disabled, whatever a message ran into and *)
(* however sends overlap (index.html sendMessage, its finally clause).     *)
SendButtonReturns == disabled ~> ~disabled
=============================================================================
