--------------------------- MODULE FrontendProofs ---------------------------
(***************************************************************************)
(* Proofs about Frontend: every variable keeps its type, and the panel     *)
(* agrees with the session that is highlighted, for any number of handlers *)
(* under way, sessions and messages.                                       *)
(*                                                                         *)
(* ScreenAgrees speaks of the moments at which no handler is under way.    *)
(* What carries it there is ScreenOK, on what the panel, the one handler   *)
(* that loads it and the listing on its way have to do with each other     *)
(* while everything else goes on.                                          *)
(***************************************************************************)
EXTENDS Frontend, FiniteSetTheorems, TLAPS

Loading(r) == task[r].phase \in {"load", "loaded"}

Loaders  == {q \in Tasks : Loading(q)}
Creators == {q \in Tasks : At(q, "create")}

Turn == [room : Sessions, fate : TurnFates]

(* What TypeOK says, and that the server's lists are sequences.            *)
TypesOK ==
    /\ TypeOK
    /\ chats \in Seq(ChatFates)
    /\ turns \in Seq(Turn)

(* Every session that is being created has its place.                      *)
RoomLeft == Len(chats) + Cardinality(Creators) <= MaxSessions

(* Each handler that loads the panel adds a turn to it once at most.       *)
ViewBounded ==
    \A t \in Turns : view[t] + Cardinality(Loaders) <= Cardinality(Tasks) + 1

(* A handler only names sessions the server has, and no message is sent    *)
(* when no session is active.                                              *)
TaskOK(r) ==
    /\ At(r, "stream") => active # None
    /\ Loading(r) => task[r].session \in DOMAIN chats
    /\ At(r, "listed") => task[r].got \subseteq DOMAIN chats
    /\ task[r].kind = "new" /\ task[r].phase \in {"list", "listed"}
           => task[r].session \in DOMAIN chats

TasksOK == \A r \in Tasks : TaskOK(r)

(* The panel shows the turns of the active session, each once, and all     *)
(* that were due.                                                          *)
Shown ==
    /\ \A t \in Turns : view[t] > 0 => /\ t \in DOMAIN turns
                                       /\ turns[t].room = active
                                       /\ view[t] = 1
    /\ \A t \in due : view[t] = 1

(* The panel is clear, and r is about to fill it: what r gets is of the    *)
(* active session and holds all that is due.                               *)
Filling(r) ==
    /\ task[r].session = active
    /\ view = Empty
    /\ due \subseteq Listing(active)
    /\ At(r, "loaded") => /\ due \subseteq task[r].got
                          /\ task[r].got \subseteq Listing(active)

(* Without a crossing, one handler at most loads the panel.                *)
ScreenOK ==
    ~crossed => /\ \A r \in Loaders : Loaders = {r} /\ Filling(r)
                /\ Loaders = {} => Shown

(* The inductive invariant.                                                *)
IInv == TypesOK /\ RoomLeft /\ ViewBounded /\ TasksOK /\ ScreenOK

-----------------------------------------------------------------------------
(***************************************************************************)
(* Counting handlers.                                                      *)
(***************************************************************************)

LEMMA Counting ==
    ASSUME NEW S \in SUBSET Tasks, NEW T \in SUBSET Tasks
    PROVE  /\ Cardinality(Tasks) \in Nat
           /\ Cardinality(S) \in 0 .. Cardinality(Tasks)
           /\ S \subseteq T => Cardinality(S) <= Cardinality(T)
           /\ \A r : S \subseteq T \cup {r} => Cardinality(S) <= Cardinality(T) + 1
           /\ \A r \in T : S \subseteq T \ {r} => Cardinality(S) + 1 <= Cardinality(T)
<1>1. IsFiniteSet(Tasks) /\ IsFiniteSet(S) /\ IsFiniteSet(T)
  BY FS_Subset, FrontendAssumption
<1>2. /\ Cardinality(Tasks) \in Nat /\ Cardinality(S) \in Nat /\ Cardinality(T) \in Nat
      /\ Cardinality(S) <= Cardinality(Tasks)
  BY <1>1, FS_CardinalityType, FS_Subset
<1>3. S \subseteq T => Cardinality(S) <= Cardinality(T)
  BY <1>1, FS_Subset
<1>4. ASSUME NEW r, S \subseteq T \cup {r}
      PROVE  Cardinality(S) <= Cardinality(T) + 1
  <2>1. IsFiniteSet(T \cup {r}) /\ Cardinality(T \cup {r}) <= Cardinality(T) + 1
    BY <1>1, <1>2, FS_AddElement
  <2>2. Cardinality(S) <= Cardinality(T \cup {r}) /\ Cardinality(T \cup {r}) \in Nat
    BY <1>4, <2>1, FS_Subset, FS_CardinalityType
  <2> QED
    BY <1>2, <2>1, <2>2
<1>5. ASSUME NEW r \in T, S \subseteq T \ {r}
      PROVE  Cardinality(S) + 1 <= Cardinality(T)
  <2>1. IsFiniteSet(T \ {r}) /\ Cardinality(T \ {r}) = Cardinality(T) - 1
    BY <1>1, FS_RemoveElement
  <2>2. Cardinality(S) <= Cardinality(T \ {r})
    BY <1>5, <2>1, FS_Subset
  <2> QED
    BY <1>2, <2>1, <2>2
<1>6. Cardinality(S) \in 0 .. Cardinality(Tasks)
  BY <1>2
<1>7. \A r : S \subseteq T \cup {r} => Cardinality(S) <= Cardinality(T) + 1
  BY <1>4
<1>8. \A r \in T : S \subseteq T \ {r} => Cardinality(S) + 1 <= Cardinality(T)
  BY <1>5
<1> QED
  BY <1>2, <1>3, <1>6, <1>7, <1>8

(* A session under creation may be given up at any time.                   *)
LEMMA RoomKept ==
    ASSUME TypesOK, RoomLeft, chats' \in Seq(ChatFates), Len(chats') = Len(chats),
           Creators' \subseteq Creators
    PROVE  RoomLeft'
<1>1. Creators' \in SUBSET Tasks /\ Creators \in SUBSET Tasks
  BY DEF Creators
<1>2. Cardinality(Creators') <= Cardinality(Creators) /\ Cardinality(Creators') \in Nat
      /\ Cardinality(Creators) \in Nat
  BY <1>1, Counting
<1>3. Len(chats) \in Nat /\ MaxSessions \in Nat
  BY FrontendAssumption DEF TypesOK
<1> QED
  BY <1>2, <1>3 DEF RoomLeft

(* A panel that is left alone keeps its bound while loads end.             *)
LEMMA ViewKept ==
    ASSUME TypesOK, ViewBounded, view' = view, Loaders' \subseteq Loaders
    PROVE  ViewBounded'
<1>1. Loaders' \in SUBSET Tasks /\ Loaders \in SUBSET Tasks
  BY DEF Loaders
<1>2. /\ Cardinality(Loaders') <= Cardinality(Loaders) /\ Cardinality(Loaders') \in Nat
      /\ Cardinality(Loaders) \in Nat /\ Cardinality(Tasks) \in Nat
  BY <1>1, Counting
<1>3. ASSUME NEW t \in Turns
      PROVE  view'[t] + Cardinality(Loaders') <= Cardinality(Tasks) + 1
  <2>1. view[t] \in Nat /\ view'[t] = view[t]
    BY <1>2 DEF TypesOK, TypeOK
  <2>2. view[t] + Cardinality(Loaders) <= Cardinality(Tasks) + 1
    BY DEF ViewBounded
  <2> QED
    BY <1>2, <2>1, <2>2
<1> QED
  BY <1>3 DEF ViewBounded

(* A clear panel is within it whatever is under way.                       *)
LEMMA EmptyBounded ==
    /\ Empty \in [Turns -> 0 .. (Cardinality(Tasks) + 1)]
    /\ view' = Empty => ViewBounded'
<1>1. Loaders' \in SUBSET Tasks
  BY DEF Loaders
<1>2. Cardinality(Tasks) \in Nat /\ Cardinality(Loaders') \in 0 .. Cardinality(Tasks)
  BY <1>1, Counting
<1>3. \A t \in Turns : Empty[t] = 0
  BY DEF Empty
<1> QED
  BY <1>2, <1>3 DEF Empty, ViewBounded

-----------------------------------------------------------------------------
(***************************************************************************)
(* What a step leaves as it was.                                           *)
(***************************************************************************)

(* The server forgets nothing: sessions and turns stay, a turn stays in    *)
(* its session, and what is stored stays stored.                           *)
ServerGrows ==
    /\ chats' \in Seq(ChatFates) /\ Len(chats') <= MaxSessions
    /\ DOMAIN chats \subseteq DOMAIN chats'
    /\ turns' \in Seq(Turn) /\ Len(turns') <= MaxTurns
    /\ DOMAIN turns \subseteq DOMAIN turns'
    /\ \A t \in DOMAIN turns : /\ turns'[t].room = turns[t].room
                               /\ Stored(t) => turns'[t].fate = "stored"
    /\ \A t \in DOMAIN turns' : turns'[t].room \in DOMAIN chats'

Others(r) == \A q \in Tasks \ {r} : task'[q] = task[q]

LEMMA SeqFacts ==
    ASSUME TypesOK
    PROVE  /\ Len(chats) \in Nat /\ DOMAIN chats = 1 .. Len(chats)
           /\ Len(turns) \in Nat /\ DOMAIN turns = 1 .. Len(turns)
           /\ DOMAIN chats \subseteq Sessions /\ DOMAIN turns \subseteq Turns
           /\ None \notin DOMAIN chats
           /\ \A s \in DOMAIN chats : chats[s] \in ChatFates
           /\ \A t \in DOMAIN turns : turns[t] \in Turn /\ turns[t].room \in DOMAIN chats
<1>1. /\ chats \in Seq(ChatFates) /\ Len(chats) <= MaxSessions /\ MaxSessions \in Nat
      /\ turns \in Seq(Turn) /\ Len(turns) <= MaxTurns /\ MaxTurns \in Nat
      /\ None \notin Sessions
  BY FrontendAssumption DEF TypesOK, TypeOK, Sessions
<1>2. \A t \in DOMAIN turns : turns[t].room \in DOMAIN chats
  BY DEF TypesOK, TypeOK
<1>3. /\ Len(chats) \in Nat /\ DOMAIN chats = 1 .. Len(chats)
      /\ Len(turns) \in Nat /\ DOMAIN turns = 1 .. Len(turns)
  BY <1>1
<1>4. DOMAIN chats \subseteq Sessions /\ DOMAIN turns \subseteq Turns
  BY <1>1, <1>3 DEF Sessions, Turns
<1>5. /\ \A s \in DOMAIN chats : chats[s] \in ChatFates
      /\ \A t \in DOMAIN turns : turns[t] \in Turn
  BY <1>1
<1> QED
  BY <1>1, <1>2, <1>3, <1>4, <1>5

LEMMA ServerStays ==
    ASSUME TypesOK, UNCHANGED server
    PROVE  ServerGrows
<1> QED
  BY SeqFacts DEF ServerGrows, server, TypesOK, TypeOK, Stored

(* A step that leaves the types of the page's own state alone.             *)
LEMMA TypesStep ==
    ASSUME TypesOK, ServerGrows, task' \in [Tasks -> Task],
           active' \in DOMAIN chats' \cup {None}, sidebar' \subseteq DOMAIN chats',
           view' \in [Turns -> 0 .. (Cardinality(Tasks) + 1)],
           disabled' \in BOOLEAN, crossed' \in BOOLEAN, due' \subseteq DOMAIN turns'
    PROVE  TypesOK'
<1>1. \A s \in DOMAIN chats' : chats'[s] \in ChatFates
  BY DEF ServerGrows
<1>2. \A t \in DOMAIN turns' : turns'[t] \in [room : DOMAIN chats', fate : TurnFates]
  <2>1. ASSUME NEW t \in DOMAIN turns'
        PROVE  turns'[t] \in [room : DOMAIN chats', fate : TurnFates]
    <3>1. turns'[t] \in Turn /\ turns'[t].room \in DOMAIN chats'
      BY <2>1 DEF ServerGrows
    <3> QED
      BY <3>1 DEF Turn
  <2> QED
    BY <2>1
<1> QED
  BY <1>1, <1>2 DEF TypesOK, TypeOK, ServerGrows

(* The handlers that do not move stay as good as they were.                *)
LEMMA TasksStep ==
    ASSUME TasksOK, DOMAIN chats \subseteq DOMAIN chats', active # None => active' # None,
           \A q \in Tasks : task'[q] = task[q] \/ TaskOK(q)'
    PROVE  TasksOK'
<1>1. ASSUME NEW q \in Tasks, task'[q] = task[q]
      PROVE  TaskOK(q)'
  <2>1. TaskOK(q)
    BY DEF TasksOK
  <2> QED
    BY <1>1, <2>1 DEF TaskOK, Loading, At
<1> QED
  BY <1>1 DEF TasksOK

(* The handlers that load the panel are the same, and have not moved.      *)
LoadersStay ==
    \A q \in Tasks : /\ Loading(q)' <=> Loading(q)
                     /\ Loading(q) => task'[q] = task[q]

(* A step of anyone else that leaves the panel alone.                      *)
LEMMA ScreenStep ==
    ASSUME ScreenOK, ServerGrows, LoadersStay, UNCHANGED <<active, view, crossed, due>>
    PROVE  ScreenOK'
<1>1. Loaders' = Loaders
  BY DEF Loaders, LoadersStay
<1>2. Listing(active) \subseteq Listing(active)'
  BY DEF ServerGrows, Listing, Stored
<1>3. ASSUME NEW q \in Loaders, Filling(q)
      PROVE  Filling(q)'
  <2>1. task'[q] = task[q]
    BY DEF Loaders, LoadersStay
  <2> QED
    BY <1>2, <1>3, <2>1 DEF Filling, At
<1>4. Shown => Shown'
  BY DEF Shown, ServerGrows
<1> QED
  BY <1>1, <1>3, <1>4 DEF ScreenOK

(* All of the above in one step.                                           *)
LEMMA QuietStep ==
    ASSUME IInv, ServerGrows, LoadersStay, RoomLeft', UNCHANGED <<active, view, crossed, due>>,
           task' \in [Tasks -> Task], sidebar' \subseteq DOMAIN chats', disabled' \in BOOLEAN,
           \A q \in Tasks : task'[q] = task[q] \/ TaskOK(q)'
    PROVE  IInv'
<1>1. TypesOK'
  <2>1. active' \in DOMAIN chats' \cup {None} /\ due' \subseteq DOMAIN turns'
    BY DEF IInv, TypesOK, TypeOK, ServerGrows
  <2>2. view' \in [Turns -> 0 .. (Cardinality(Tasks) + 1)] /\ crossed' \in BOOLEAN
    BY DEF IInv, TypesOK, TypeOK
  <2> QED
    BY <2>1, <2>2, TypesStep DEF IInv
<1>2. ViewBounded'
  <2>1. Loaders' = Loaders
    BY DEF Loaders, LoadersStay
  <2> QED
    BY <2>1, ViewKept DEF IInv
<1>3. TasksOK' /\ ScreenOK'
  BY TasksStep, ScreenStep DEF IInv, ServerGrows
<1> QED
  BY <1>1, <1>2, <1>3 DEF IInv

-----------------------------------------------------------------------------
(***************************************************************************)
(* The server's steps.                                                     *)
(***************************************************************************)

(* A step of the server alone that creates no session.                     *)
LEMMA ServerStep ==
    ASSUME IInv, ServerGrows, Len(chats') = Len(chats), UNCHANGED page
    PROVE  IInv'
<1>1. LoadersStay
  BY DEF LoadersStay, Loading, page
<1>2. RoomLeft'
  <2>1. Creators' = Creators
    BY DEF Creators, At, page
  <2> QED
    BY <2>1, RoomKept DEF IInv, ServerGrows
<1>3. sidebar' \subseteq DOMAIN chats' /\ task' \in [Tasks -> Task] /\ disabled' \in BOOLEAN
  BY DEF IInv, TypesOK, TypeOK, ServerGrows, page
<1> QED
  BY <1>1, <1>2, <1>3, QuietStep DEF page

(* The fates of some turns change, of none that is stored.                 *)
LEMMA FatesGrow ==
    ASSUME TypesOK, turns' \in Seq(Turn), DOMAIN turns' = DOMAIN turns, UNCHANGED chats,
           \A t \in DOMAIN turns : /\ turns'[t].room = turns[t].room
                                   /\ Stored(t) => turns'[t].fate = "stored"
    PROVE  ServerGrows
<1>1. Len(turns') = Len(turns)
  BY DEF TypesOK
<1> QED
  BY <1>1, SeqFacts DEF ServerGrows, TypesOK, TypeOK

LEMMA OneFate ==
    ASSUME TypesOK, NEW t \in DOMAIN turns, ~Stored(t), NEW fate \in TurnFates,
           turns' = [turns EXCEPT ![t].fate = fate], UNCHANGED chats
    PROVE  ServerGrows
<1>1. turns \in Seq(Turn) /\ turns[t] \in Turn
  BY SeqFacts DEF TypesOK
<1>2. [turns[t] EXCEPT !.fate = fate] \in Turn
  BY <1>1 DEF Turn
<1>3. turns' = [turns EXCEPT ![t] = [turns[t] EXCEPT !.fate = fate]]
  OBVIOUS
<1>4. turns' \in Seq(Turn) /\ DOMAIN turns' = DOMAIN turns
  BY <1>1, <1>2, <1>3
<1>5. \A u \in DOMAIN turns : /\ turns'[u].room = turns[u].room
                              /\ Stored(u) => turns'[u].fate = "stored"
  BY <1>1, <1>3 DEF Turn, Stored
<1> QED
  BY <1>4, <1>5, FatesGrow

LEMMA CancelledGrows ==
    ASSUME TypesOK, NEW gone \in SUBSET DOMAIN turns, \A t \in gone : turns[t].fate = "open",
           Cancelled(gone), UNCHANGED chats
    PROVE  ServerGrows
<1>1. PICK kept \in SUBSET gone :
        turns' = [t \in DOMAIN turns |->
                    IF t \notin gone THEN turns[t]
                    ELSE [turns[t] EXCEPT !.fate = IF t \in kept THEN "answered" ELSE "failed"]]
  BY DEF Cancelled
<1>2. /\ Len(turns) \in Nat /\ DOMAIN turns = 1 .. Len(turns)
      /\ \A t \in DOMAIN turns : turns[t] \in Turn
  BY SeqFacts
<1>3. ASSUME NEW t \in DOMAIN turns
      PROVE  /\ turns'[t] \in Turn
             /\ turns'[t].room = turns[t].room
             /\ Stored(t) => turns'[t].fate = "stored"
  <2>1. CASE t \notin gone
    BY <1>1, <1>2, <2>1 DEF Stored
  <2>2. CASE t \in gone
    <3>1. turns[t] \in Turn /\ turns[t].fate = "open"
      BY <1>2, <2>2
    <3>2. \/ turns'[t] = [turns[t] EXCEPT !.fate = "answered"]
          \/ turns'[t] = [turns[t] EXCEPT !.fate = "failed"]
      BY <1>1, <2>2
    <3> QED
      BY <3>1, <3>2 DEF Turn, TurnFates, ChatFates, Stored
  <2> QED
    BY <2>1, <2>2
<1>4. turns' \in Seq(Turn) /\ DOMAIN turns' = DOMAIN turns
  BY <1>1, <1>2, <1>3
<1> QED
  BY <1>3, <1>4, FatesGrow

LEMMA AnswerEndsKeeps ==
    ASSUME IInv, NEW t \in Turns, AnswerEnds(t)
    PROVE  IInv'
<1>1. t \in DOMAIN turns /\ ~Stored(t) /\ UNCHANGED <<chats, page>>
  BY DEF AnswerEnds, Stored
<1>2. PICK fate \in TurnFates : turns' = [turns EXCEPT ![t].fate = fate]
  BY DEF AnswerEnds, TurnFates, ChatFates
<1>3. ServerGrows
  BY <1>1, <1>2, OneFate DEF IInv
<1> QED
  BY <1>1, <1>3, ServerStep

LEMMA CommitTurnKeeps ==
    ASSUME IInv, NEW t \in Turns, CommitTurn(t)
    PROVE  IInv'
<1>1. t \in DOMAIN turns /\ ~Stored(t) /\ UNCHANGED <<chats, page>>
  BY DEF CommitTurn, Stored
<1>2. PICK fate \in TurnFates : turns' = [turns EXCEPT ![t].fate = fate]
  BY DEF CommitTurn, TurnFates, ChatFates
<1>3. ServerGrows
  BY <1>1, <1>2, OneFate DEF IInv
<1> QED
  BY <1>1, <1>3, ServerStep

LEMMA CommitSessionKeeps ==
    ASSUME IInv, NEW s \in Sessions, CommitSession(s)
    PROVE  IInv'
<1>1. s \in DOMAIN chats /\ UNCHANGED <<turns, page>>
  BY DEF CommitSession
<1>2. PICK fate \in ChatFates : chats' = [chats EXCEPT ![s] = fate]
  BY DEF CommitSession, ChatFates
<1>3. chats' \in Seq(ChatFates) /\ Len(chats') = Len(chats) /\ DOMAIN chats' = DOMAIN chats
  BY <1>1, <1>2 DEF IInv, TypesOK
<1>4. ServerGrows
  BY <1>1, <1>3, SeqFacts DEF IInv, ServerGrows, TypesOK, TypeOK, Stored
<1> QED
  BY <1>1, <1>3, <1>4, ServerStep

-----------------------------------------------------------------------------
(***************************************************************************)
(* Handlers that do not load the panel.                                    *)
(***************************************************************************)

(* Handler r moves on, and no load of the panel is concerned.              *)
LEMMA HandlerStep ==
    ASSUME IInv, ServerGrows, NEW r \in Tasks, NEW x \in Task,
           task' = [task EXCEPT ![r] = x],
           ~Loading(r), x.phase \notin {"load", "loaded"}, TaskOK(r)', RoomLeft',
           UNCHANGED <<active, view, crossed, due>>,
           sidebar' \subseteq DOMAIN chats', disabled' \in BOOLEAN
    PROVE  IInv'
<1>1. task \in [Tasks -> Task]
  BY DEF IInv, TypesOK, TypeOK
<1>2. /\ task' \in [Tasks -> Task] /\ task'[r] = x
      /\ \A q \in Tasks : q # r => task'[q] = task[q]
  BY <1>1
<1>3. LoadersStay
  BY <1>2 DEF LoadersStay, Loading
<1>4. \A q \in Tasks : task'[q] = task[q] \/ TaskOK(q)'
  BY <1>2
<1> QED
  BY <1>2, <1>3, <1>4, QuietStep

(* Room is left if the handler that moves does not begin to create.        *)
LEMMA RoomStays ==
    ASSUME IInv, NEW r \in Tasks, NEW x \in Task, task' = [task EXCEPT ![r] = x],
           x.phase # "create", UNCHANGED chats
    PROVE  RoomLeft'
<1>1. Creators' \subseteq Creators
  BY DEF Creators, At, IInv, TypesOK, TypeOK
<1> QED
  BY <1>1, RoomKept DEF IInv, TypesOK

LEMMA IdleIsTask ==
    /\ Idle \in Task
    /\ \A kind \in Kinds, s \in Sessions \cup {None} :
          [Idle EXCEPT !.kind = kind, !.phase = "load", !.session = s] \in Task
    /\ \A t \in Turns : [Idle EXCEPT !.kind = "send", !.phase = "stream", !.turn = t] \in Task
    /\ [Idle EXCEPT !.kind = "boot", !.phase = "list"] \in Task
<1> QED
  BY DEF Idle, Task, Kinds, Phases

LEMMA NewChatKeeps ==
    ASSUME IInv, NEW r \in Tasks, NewChat(r)
    PROVE  IInv'
<1> DEFINE x == [task[r] EXCEPT !.kind = "new", !.phase = "create"]
<1>1. /\ task' = [task EXCEPT ![r] = x] /\ At(r, "idle")
      /\ UNCHANGED <<server, active, sidebar, view, disabled, crossed, due>>
      /\ Len(chats) + Cardinality(Creators) < MaxSessions
  BY DEF NewChat, Creators
<1>2. task \in [Tasks -> Task] /\ task[r] \in Task
  BY DEF IInv, TypesOK, TypeOK
<1>3. x \in Task /\ x.phase = "create" /\ x.kind = "new"
  BY <1>2 DEF Task, Kinds, Phases
<1>4. ServerGrows
  BY <1>1, ServerStays DEF IInv
<1>5. RoomLeft'
  <2>1. Creators' \subseteq Creators \cup {r}
    BY <1>1, <1>2 DEF Creators, At
  <2>2. Creators' \in SUBSET Tasks /\ Creators \in SUBSET Tasks
    BY DEF Creators
  <2>3. Cardinality(Creators') <= Cardinality(Creators) + 1 /\ Cardinality(Creators') \in Nat
        /\ Cardinality(Creators) \in Nat
    BY <2>1, <2>2, Counting
  <2>4. Len(chats) \in Nat /\ MaxSessions \in Nat /\ chats' = chats
    BY <1>1, SeqFacts, FrontendAssumption DEF IInv, server
  <2> QED
    BY <1>1, <2>3, <2>4 DEF RoomLeft
<1>6. ~Loading(r)
  BY <1>1 DEF Loading, At
<1>7. TaskOK(r)'
  <2>1. task'[r] = x
    BY <1>1, <1>2
  <2> QED
    BY <1>3, <2>1 DEF TaskOK, Loading, At
<1>8. sidebar' \subseteq DOMAIN chats' /\ disabled' \in BOOLEAN
  BY <1>1 DEF IInv, TypesOK, TypeOK, server
<1> QED
  BY <1>1, <1>3, <1>4, <1>5, <1>6, <1>7, <1>8, HandlerStep

LEMMA CreatedKeeps ==
    ASSUME IInv, NEW r \in Tasks, Created(r)
    PROVE  IInv'
<1> DEFINE x == [task[r] EXCEPT !.phase = "list", !.session = Len(chats')]
<1>1. /\ task' = [task EXCEPT ![r] = x] /\ At(r, "create") /\ chats' = Append(chats, "answered")
      /\ UNCHANGED <<turns, active, sidebar, view, disabled, crossed, due>>
  BY DEF Created
<1>2. task \in [Tasks -> Task] /\ task[r] \in Task /\ chats \in Seq(ChatFates)
  BY DEF IInv, TypesOK, TypeOK
<1>3. /\ chats' \in Seq(ChatFates) /\ Len(chats') = Len(chats) + 1 /\ Len(chats) \in Nat
      /\ DOMAIN chats = 1 .. Len(chats) /\ DOMAIN chats' = 1 .. Len(chats')
  BY <1>1, <1>2 DEF ChatFates
<1>4. /\ Len(chats) + 1 + Cardinality(Creators') <= MaxSessions
      /\ Cardinality(Creators') \in Nat
  <2>1. Creators' \subseteq Creators \ {r}
    <3>1. x.phase = "list"
      BY <1>2 DEF Task
    <3> QED
      BY <1>1, <1>2, <3>1 DEF Creators, At
  <2>2. Creators' \in SUBSET Tasks /\ Creators \in SUBSET Tasks /\ r \in Creators
    BY <1>1 DEF Creators
  <2>3. Cardinality(Creators') + 1 <= Cardinality(Creators) /\ Cardinality(Creators') \in Nat
        /\ Cardinality(Creators) \in Nat
    BY <2>1, <2>2, Counting
  <2> QED
    BY <1>3, <2>3, FrontendAssumption DEF IInv, RoomLeft
<1>5. RoomLeft' /\ Len(chats') \in Sessions
  BY <1>3, <1>4, FrontendAssumption DEF RoomLeft, Sessions
<1>6. x \in Task /\ x.phase = "list" /\ x.session \in DOMAIN chats'
  <2>1. PICK n \in Sessions : n = Len(chats')
    BY <1>5
  <2>2. [task[r] EXCEPT !.phase = "list", !.session = n] \in Task
    BY <1>2 DEF Task, Phases
  <2>3. x.phase = "list" /\ x.session = Len(chats')
    BY <1>2 DEF Task
  <2>4. Len(chats') \in DOMAIN chats'
    BY <1>3
  <2> QED
    BY <2>1, <2>2, <2>3, <2>4
<1>7. ServerGrows
  <2>1. \A t \in DOMAIN turns' : turns'[t].room \in DOMAIN chats'
    BY <1>1, <1>3, SeqFacts DEF IInv
  <2>2. Len(chats') <= MaxSessions
    BY <1>3, <1>4, FrontendAssumption
  <2> QED
    BY <1>1, <1>3, <2>1, <2>2 DEF ServerGrows, IInv, TypesOK, TypeOK, Stored
<1>8. ~Loading(r)
  BY <1>1 DEF Loading, At
<1>9. TaskOK(r)'
  <2>1. task'[r] = x
    BY <1>1, <1>2
  <2> QED
    BY <1>6, <2>1 DEF TaskOK, Loading, At
<1>10. sidebar' \subseteq DOMAIN chats' /\ disabled' \in BOOLEAN
  BY <1>1, <1>3 DEF IInv, TypesOK, TypeOK
<1> HIDE DEF x
<1> QED
  BY <1>1, <1>5, <1>6, <1>7, <1>8, <1>9, <1>10, HandlerStep

LEMMA ListAnsweredKeeps ==
    ASSUME IInv, NEW r \in Tasks, ListAnswered(r)
    PROVE  IInv'
<1> DEFINE committed == {s \in DOMAIN chats : chats[s] = "stored"}
           x == [task[r] EXCEPT !.phase = "listed", !.got = committed]
<1>1. /\ task' = [task EXCEPT ![r] = x] /\ At(r, "list")
      /\ UNCHANGED <<server, active, sidebar, view, disabled, crossed, due>>
  BY DEF ListAnswered
<1>2. task \in [Tasks -> Task] /\ task[r] \in Task
  BY DEF IInv, TypesOK, TypeOK
<1>3. committed \subseteq DOMAIN chats /\ DOMAIN chats \subseteq Sessions
  BY SeqFacts DEF IInv
<1> HIDE DEF committed
<1>4. x \in Task /\ x.phase = "listed" /\ x.got = committed
      /\ x.kind = task[r].kind /\ x.session = task[r].session
  BY <1>2, <1>3 DEF Task, Phases
<1>5. ServerGrows
  BY <1>1, ServerStays DEF IInv
<1>6. ~Loading(r)
  BY <1>1 DEF Loading, At
<1>7. TaskOK(r)'
  <2>1. task'[r] = x /\ chats' = chats
    BY <1>1, <1>2 DEF server
  <2>2. TaskOK(r)
    BY DEF IInv, TasksOK
  <2> QED
    BY <1>1, <1>3, <1>4, <2>1, <2>2 DEF TaskOK, Loading, At
<1>8. sidebar' \subseteq DOMAIN chats' /\ disabled' \in BOOLEAN /\ UNCHANGED chats
  BY <1>1 DEF IInv, TypesOK, TypeOK, server
<1> HIDE DEF x
<1>9. RoomLeft'
  BY <1>1, <1>4, <1>8, RoomStays
<1> QED
  BY <1>1, <1>4, <1>5, <1>6, <1>7, <1>8, <1>9, HandlerStep

(* A handler that does not load the panel ends.                            *)
LEMMA EndStep ==
    ASSUME IInv, ServerGrows, NEW r \in Tasks, ~Loading(r), EndTask(r),
           UNCHANGED <<chats, active, view, crossed, due>>, sidebar' \subseteq DOMAIN chats'
    PROVE  IInv'
<1>1. task' = [task EXCEPT ![r] = Idle] /\ disabled' \in BOOLEAN
  BY DEF EndTask, IInv, TypesOK, TypeOK
<1>2. Idle \in Task /\ Idle.phase = "idle" /\ Idle.kind = "none"
  BY IdleIsTask DEF Idle
<1>3. TaskOK(r)'
  <2>1. task'[r] = Idle
    BY <1>1 DEF IInv, TypesOK, TypeOK
  <2> QED
    BY <1>2, <2>1 DEF TaskOK, Loading, At
<1>4. RoomLeft'
  BY <1>1, <1>2, RoomStays
<1> QED
  BY <1>1, <1>2, <1>3, <1>4, HandlerStep

-----------------------------------------------------------------------------
(***************************************************************************)
(* Loading the panel.                                                      *)
(***************************************************************************)

(* loadMessages up to its await: what was on the panel does not matter.    *)
LEMMA LoadStep ==
    ASSUME IInv, NEW r \in Tasks, NEW kind \in Kinds \ {"new"}, NEW s \in DOMAIN chats,
           ~Loading(r), LoadMessages(r, kind, s), active' = s,
           UNCHANGED <<server, disabled>>, sidebar' \subseteq DOMAIN chats
    PROVE  IInv'
<1> DEFINE x == [Idle EXCEPT !.kind = kind, !.phase = "load", !.session = s]
<1>1. /\ task' = [task EXCEPT ![r] = x] /\ view' = Empty /\ crossed' = OthersLoad(r)
      /\ due' = Listing(s) /\ chats' = chats /\ turns' = turns
  BY DEF LoadMessages, server
<1>2. task \in [Tasks -> Task] /\ s \in Sessions /\ s # None
  BY SeqFacts DEF IInv, TypesOK, TypeOK
<1>3. x \in Task
  BY <1>2, IdleIsTask
<1>4. x.phase = "load" /\ x.session = s /\ x.kind = kind
  BY DEF Idle
<1> HIDE DEF x
<1>5. /\ task' \in [Tasks -> Task] /\ task'[r] = x
      /\ \A q \in Tasks : q # r => task'[q] = task[q]
  BY <1>1, <1>2, <1>3
<1>6. ServerGrows
  BY ServerStays DEF IInv
<1>7. TypesOK'
  <2>1. crossed' \in BOOLEAN /\ due' \subseteq DOMAIN turns'
    BY <1>1 DEF OthersLoad, Listing
  <2>2. /\ view' \in [Turns -> 0 .. (Cardinality(Tasks) + 1)]
        /\ active' \in DOMAIN chats' \cup {None} /\ sidebar' \subseteq DOMAIN chats'
        /\ disabled' \in BOOLEAN
    BY <1>1, EmptyBounded DEF IInv, TypesOK, TypeOK
  <2> QED
    BY <1>5, <1>6, <2>1, <2>2, TypesStep DEF IInv
<1>8. RoomLeft' /\ ViewBounded'
  BY <1>1, <1>3, <1>4, RoomStays, EmptyBounded
<1>9. TasksOK'
  <2>1. TaskOK(r)'
    BY <1>1, <1>4, <1>5 DEF TaskOK, Loading, At
  <2>2. \A q \in Tasks : task'[q] = task[q] \/ TaskOK(q)'
    BY <1>5, <2>1
  <2> QED
    BY <1>2, <1>6, <2>2, TasksStep DEF IInv, ServerGrows
<1>10. ScreenOK'
  <2> SUFFICES ASSUME ~crossed'
               PROVE  Loaders' = {r} /\ Filling(r)'
    BY DEF ScreenOK
  <2>1. \A q \in Tasks : q # r => ~Loading(q)'
    BY <1>1, <1>5 DEF OthersLoad, Loading
  <2>2. Loading(r)'
    BY <1>4, <1>5 DEF Loading
  <2>3. Loaders' = {r}
    BY <2>1, <2>2 DEF Loaders
  <2>4. Listing(active)' = Listing(s)
    BY <1>1 DEF Listing, Stored
  <2>5. Filling(r)'
    BY <1>1, <1>4, <1>5, <2>4 DEF Filling, At
  <2> QED
    BY <2>3, <2>5
<1> QED
  BY <1>7, <1>8, <1>9, <1>10 DEF IInv

LEMMA SelectSessionKeeps ==
    ASSUME IInv, NEW r \in Tasks, NEW s \in Sessions, SelectSession(r, s)
    PROVE  IInv'
<1>1. s \in DOMAIN chats
  BY SeqFacts DEF SelectSession, Listing, IInv, TypesOK, TypeOK
<1>2. ~Loading(r) /\ "select" \in Kinds \ {"new"}
  BY DEF SelectSession, Loading, At, Kinds
<1>3. /\ LoadMessages(r, "select", s) /\ active' = s /\ UNCHANGED <<server, disabled>>
      /\ sidebar' \subseteq DOMAIN chats
  BY DEF SelectSession, IInv, TypesOK, TypeOK
<1> QED
  BY <1>1, <1>2, <1>3, LoadStep

LEMMA StreamReadKeeps ==
    ASSUME IInv, NEW r \in Tasks, StreamRead(r)
    PROVE  IInv'
<1>1. At(r, "stream") /\ LoadMessages(r, "send", active) /\ UNCHANGED <<server, active, sidebar, disabled>>
  BY DEF StreamRead
<1>2. active \in DOMAIN chats
  BY <1>1 DEF IInv, TypesOK, TypeOK, TasksOK, TaskOK
<1>3. PICK s \in DOMAIN chats : s = active
  BY <1>2
<1>4. LoadMessages(r, "send", s) /\ active' = s
  BY <1>1, <1>3 DEF LoadMessages, Listing
<1>5. ~Loading(r) /\ "send" \in Kinds \ {"new"} /\ sidebar' \subseteq DOMAIN chats
  BY <1>1 DEF Loading, At, Kinds, IInv, TypesOK, TypeOK
<1> QED
  BY <1>1, <1>4, <1>5, LoadStep

LEMMA RenderSessionsKeeps ==
    ASSUME IInv, NEW r \in Tasks, RenderSessions(r)
    PROVE  IInv'
<1>1. At(r, "listed") /\ sidebar' = task[r].got /\ UNCHANGED server
  BY DEF RenderSessions
<1>2. TaskOK(r)
  BY DEF IInv, TasksOK
<1>3. ~Loading(r) /\ sidebar' \subseteq DOMAIN chats
  BY <1>1, <1>2 DEF Loading, At, TaskOK
<1>4. CASE /\ task[r].kind = "new"
           /\ active' = task[r].session
           /\ LoadMessages(r, "select", task[r].session)
           /\ UNCHANGED disabled
  <2>1. task[r].session \in DOMAIN chats
    BY <1>1, <1>2, <1>4 DEF TaskOK, At
  <2>2. PICK s \in DOMAIN chats : s = task[r].session
    BY <2>1
  <2>3. LoadMessages(r, "select", s) /\ active' = s
    BY <1>4, <2>2 DEF LoadMessages, Listing
  <2>4. "select" \in Kinds \ {"new"}
    BY DEF Kinds
  <2> QED
    BY <1>1, <1>3, <1>4, <2>3, <2>4, LoadStep
<1>5. CASE EndTask(r) /\ UNCHANGED <<active, view, crossed, due>>
  <2>1. ServerGrows /\ UNCHANGED chats
    BY <1>1, ServerStays DEF IInv, server
  <2> QED
    BY <1>1, <1>3, <1>5, <2>1, EndStep
<1> QED
  BY <1>4, <1>5 DEF RenderSessions

(* The listing the server answers with is the one that is due, or longer.  *)
LEMMA LoadAnsweredKeeps ==
    ASSUME IInv, NEW r \in Tasks, LoadAnswered(r)
    PROVE  IInv'
<1> DEFINE found == Listing(task[r].session)
           x == [task[r] EXCEPT !.phase = "loaded", !.got = found]
<1>1. /\ task' = [task EXCEPT ![r] = x] /\ At(r, "load")
      /\ UNCHANGED <<server, active, sidebar, view, disabled, crossed, due>>
  BY DEF LoadAnswered
<1>2. task \in [Tasks -> Task] /\ task[r] \in Task /\ TaskOK(r)
  BY DEF IInv, TypesOK, TypeOK, TasksOK
<1>3. found \subseteq Turns
  BY SeqFacts DEF IInv, Listing
<1> HIDE DEF found
<1>4. /\ x \in Task /\ x.phase = "loaded" /\ x.got = found
      /\ x.session = task[r].session /\ x.kind = task[r].kind
  BY <1>2, <1>3 DEF Task, Phases
<1> HIDE DEF x
<1>5. /\ task' \in [Tasks -> Task] /\ task'[r] = x
      /\ \A q \in Tasks : q # r => task'[q] = task[q]
  BY <1>1, <1>2, <1>4
<1>6. ServerGrows /\ chats' = chats /\ turns' = turns
  BY <1>1, ServerStays DEF IInv, server
<1>7. \A q \in Tasks : Loading(q)' <=> Loading(q)
  BY <1>1, <1>4, <1>5 DEF Loading, At
<1>8. Loaders' = Loaders
  BY <1>7 DEF Loaders
<1>9. TypesOK' /\ RoomLeft' /\ ViewBounded'
  <2>1. /\ active' \in DOMAIN chats' \cup {None} /\ sidebar' \subseteq DOMAIN chats'
        /\ view' \in [Turns -> 0 .. (Cardinality(Tasks) + 1)]
        /\ disabled' \in BOOLEAN /\ crossed' \in BOOLEAN /\ due' \subseteq DOMAIN turns'
    BY <1>1, <1>6 DEF IInv, TypesOK, TypeOK
  <2>2. RoomLeft' /\ ViewBounded'
    BY <1>1, <1>4, <1>6, <1>8, RoomStays, ViewKept DEF IInv
  <2> QED
    BY <1>5, <1>6, <2>1, <2>2, TypesStep DEF IInv
<1>10. TasksOK'
  <2>1. TaskOK(r)'
    BY <1>1, <1>2, <1>4, <1>5, <1>6 DEF TaskOK, Loading, At
  <2>2. \A q \in Tasks : task'[q] = task[q] \/ TaskOK(q)'
    BY <1>5, <2>1
  <2> QED
    BY <1>1, <1>6, <2>2, TasksStep DEF IInv
<1>11. ScreenOK'
  <2>1. ~crossed => Loaders = {r} /\ Filling(r)
    <3>1. r \in Loaders
      BY <1>1 DEF Loaders, Loading, At
    <3> QED
      BY <3>1 DEF IInv, ScreenOK
  <2>2. Filling(r) => Filling(r)'
    <3>1. found = Listing(task[r].session) /\ Listing(active)' = Listing(active)
      BY <1>1, <1>6 DEF found, Listing, Stored
    <3> QED
      BY <1>1, <1>4, <1>5, <3>1 DEF Filling, At
  <2> QED
    BY <1>1, <1>8, <2>1, <2>2 DEF ScreenOK
<1> QED
  BY <1>9, <1>10, <1>11 DEF IInv

(* A handler that loads the panel leaves it, and shows each turn once more *)
(* at most.                                                                *)
LEMMA LeaveStep ==
    ASSUME IInv, ServerGrows, NEW r \in Tasks, NEW x \in Task,
           task' = [task EXCEPT ![r] = x], Loading(r),
           x.phase \notin {"load", "loaded", "create"}, TaskOK(r)',
           UNCHANGED <<chats, active, sidebar, crossed>>, disabled' \in BOOLEAN,
           view' \in [Turns -> Nat], \A t \in Turns : view'[t] <= view[t] + 1,
           due' \subseteq DOMAIN turns',
           ~crossed /\ Filling(r) => Shown'
    PROVE  IInv'
<1>1. task \in [Tasks -> Task] /\ view \in [Turns -> 0 .. (Cardinality(Tasks) + 1)]
  BY DEF IInv, TypesOK, TypeOK
<1>2. /\ task' \in [Tasks -> Task] /\ task'[r] = x
      /\ \A q \in Tasks : q # r => task'[q] = task[q]
  BY <1>1
<1>3. Loaders' = Loaders \ {r} /\ r \in Loaders
  BY <1>2 DEF Loaders, Loading
<1>4. /\ Cardinality(Loaders') + 1 <= Cardinality(Loaders) /\ Cardinality(Loaders') \in Nat
      /\ Cardinality(Loaders) \in Nat /\ Cardinality(Tasks) \in Nat
  <2>1. Loaders' \in SUBSET Tasks /\ Loaders \in SUBSET Tasks
    BY DEF Loaders
  <2> QED
    BY <1>3, <2>1, Counting
<1>5. ASSUME NEW t \in Turns
      PROVE  view'[t] \in Nat /\ view'[t] + Cardinality(Loaders') <= Cardinality(Tasks) + 1
  <2>1. view[t] \in Nat /\ view'[t] \in Nat /\ view'[t] <= view[t] + 1
    BY <1>1, <1>4
  <2>2. view[t] + Cardinality(Loaders) <= Cardinality(Tasks) + 1
    BY DEF IInv, ViewBounded
  <2> QED
    BY <1>4, <2>1, <2>2
<1>6. ViewBounded'
  BY <1>5 DEF ViewBounded
<1>7. view' \in [Turns -> 0 .. (Cardinality(Tasks) + 1)]
  <2>1. \A t \in Turns : view'[t] \in 0 .. (Cardinality(Tasks) + 1)
    BY <1>4, <1>5
  <2> QED
    BY <2>1
<1>8. TypesOK'
  <2>1. active' \in DOMAIN chats' \cup {None} /\ sidebar' \subseteq DOMAIN chats' /\ crossed' \in BOOLEAN
    BY DEF IInv, TypesOK, TypeOK
  <2> QED
    BY <1>2, <1>7, <2>1, TypesStep DEF IInv
<1>9. RoomLeft'
  BY RoomStays
<1>10. TasksOK'
  <2>1. \A q \in Tasks : task'[q] = task[q] \/ TaskOK(q)'
    BY <1>2
  <2> QED
    BY <2>1, TasksStep DEF IInv
<1>11. ScreenOK'
  <2> SUFFICES ASSUME ~crossed
               PROVE  Loaders' = {} /\ Shown'
    BY DEF ScreenOK
  <2>1. Loaders = {r} /\ Filling(r)
    BY <1>3 DEF IInv, ScreenOK
  <2> QED
    BY <1>3, <2>1
<1> QED
  BY <1>6, <1>8, <1>9, <1>10, <1>11 DEF IInv

LEMMA AppendMessagesKeeps ==
    ASSUME IInv, NEW r \in Tasks, AppendMessages(r)
    PROVE  IInv'
<1>1. /\ At(r, "loaded")
      /\ view' = [t \in Turns |-> view[t] + (IF t \in task[r].got THEN 1 ELSE 0)]
      /\ UNCHANGED <<server, active, sidebar, crossed, due>>
  BY DEF AppendMessages
<1>2. task \in [Tasks -> Task] /\ task[r] \in Task /\ TaskOK(r)
  BY DEF IInv, TypesOK, TypeOK, TasksOK
<1>3. ServerGrows /\ chats' = chats /\ turns' = turns
  BY <1>1, ServerStays DEF IInv, server
<1>4. view' \in [Turns -> Nat] /\ \A t \in Turns : view'[t] <= view[t] + 1
  <2>1. \A t \in Turns : view[t] \in Nat
    BY Counting DEF IInv, TypesOK, TypeOK
  <2> QED
    BY <1>1, <2>1
<1>5. due' \subseteq DOMAIN turns'
  BY <1>1, <1>3 DEF IInv, TypesOK, TypeOK
<1>6. Filling(r) => Shown'
  <2> SUFFICES ASSUME Filling(r)
               PROVE  Shown'
    OBVIOUS
  <2>1. /\ view = Empty /\ due \subseteq Listing(active)
        /\ due \subseteq task[r].got /\ task[r].got \subseteq Listing(active)
    BY <1>1 DEF Filling
  <2>2. \A t \in Turns : view'[t] = IF t \in task[r].got THEN 1 ELSE 0
    BY <1>1, <2>1 DEF Empty
  <2>3. \A t \in task[r].got : t \in DOMAIN turns /\ turns[t].room = active
    BY <2>1 DEF Listing
  <2>4. due \subseteq Turns
    BY SeqFacts DEF IInv, TypesOK, TypeOK
  <2> QED
    BY <1>1, <1>3, <2>1, <2>2, <2>3, <2>4 DEF Shown
<1>7. PICK x \in Task : /\ task' = [task EXCEPT ![r] = x]
                        /\ x.phase \in {"idle", "list"}
                        /\ x.kind # "new" /\ disabled' \in BOOLEAN
  <2>1. CASE task[r].kind = "send" /\ RefreshSessions(r, "send") /\ UNCHANGED disabled
    <3> DEFINE y == [task[r] EXCEPT !.kind = "send", !.phase = "list", !.got = {}]
    <3>1. task' = [task EXCEPT ![r] = y] /\ disabled' \in BOOLEAN
      BY <2>1 DEF RefreshSessions, IInv, TypesOK, TypeOK
    <3>2. y \in Task /\ y.phase = "list" /\ y.kind = "send"
      BY <1>2 DEF Task, Kinds, Phases
    <3> HIDE DEF y
    <3> QED
      BY <3>1, <3>2
  <2>2. CASE EndTask(r)
    <3>1. task' = [task EXCEPT ![r] = Idle] /\ disabled' \in BOOLEAN
      BY <2>2 DEF EndTask, IInv, TypesOK, TypeOK
    <3>2. Idle \in Task /\ Idle.phase = "idle" /\ Idle.kind = "none"
      BY IdleIsTask DEF Idle
    <3> QED
      BY <3>1, <3>2
  <2> QED
    BY <2>1, <2>2 DEF AppendMessages
<1>8. TaskOK(r)'
  <2>1. task'[r] = x
    BY <1>2, <1>7
  <2> QED
    BY <1>7, <2>1 DEF TaskOK, Loading, At
<1>9. Loading(r)
  BY <1>1 DEF Loading, At
<1> QED
  BY <1>1, <1>3, <1>4, <1>5, <1>6, <1>7, <1>8, <1>9, LeaveStep

(* An exception ends the handler.                                          *)
LEMMA ThrowKeeps ==
    ASSUME IInv, NEW r \in Tasks, ServerGrows, UNCHANGED chats, Throw(r)
    PROVE  IInv'
<1>1. /\ EndTask(r) /\ UNCHANGED <<active, sidebar, view, crossed>>
      /\ due' = IF Loading(r) THEN {} ELSE due
  BY DEF Throw, Loading
<1>2. CASE ~Loading(r)
  BY <1>1, <1>2, EndStep DEF IInv, TypesOK, TypeOK
<1>3. CASE Loading(r)
  <2>1. task' = [task EXCEPT ![r] = Idle] /\ disabled' \in BOOLEAN
    BY <1>1 DEF EndTask, IInv, TypesOK, TypeOK
  <2>2. Idle \in Task /\ Idle.phase = "idle" /\ Idle.kind = "none"
    BY IdleIsTask DEF Idle
  <2>3. TaskOK(r)'
    <3>1. task'[r] = Idle
      BY <2>1 DEF IInv, TypesOK, TypeOK
    <3> QED
      BY <2>2, <3>1 DEF TaskOK, Loading, At
  <2>4. view' \in [Turns -> Nat] /\ \A t \in Turns : view'[t] <= view[t] + 1
    <3>1. view \in [Turns -> Nat]
      BY Counting DEF IInv, TypesOK, TypeOK
    <3> QED
      BY <1>1, <3>1
  <2>5. Filling(r) => Shown'
    BY <1>1, <1>3 DEF Filling, Shown, Empty
  <2> QED
    BY <1>1, <1>3, <2>1, <2>2, <2>3, <2>4, <2>5, LeaveStep
<1> QED
  BY <1>2, <1>3

LEMMA RefusedKeeps ==
    ASSUME IInv, NEW r \in Tasks, Refused(r)
    PROVE  IInv'
<1>1. ServerGrows /\ UNCHANGED chats /\ Throw(r)
  BY ServerStays DEF Refused, IInv, server
<1> QED
  BY <1>1, ThrowKeeps

LEMMA BrokenKeeps ==
    ASSUME IInv, NEW r \in Tasks, Broken(r)
    PROVE  IInv'
<1> DEFINE gone == {t \in DOMAIN turns : t = task[r].turn /\ turns[t].fate = "open"}
<1>1. Cancelled(gone) /\ Throw(r) /\ UNCHANGED chats
  BY DEF Broken
<1>2. gone \in SUBSET DOMAIN turns /\ \A t \in gone : turns[t].fate = "open"
  OBVIOUS
<1> HIDE DEF gone
<1>3. ServerGrows
  BY <1>1, <1>2, CancelledGrows DEF IInv
<1> QED
  BY <1>1, <1>3, ThrowKeeps

LEMMA OpenPageKeeps ==
    ASSUME IInv, NEW r \in Tasks, OpenPage(r)
    PROVE  IInv'
<1> DEFINE gone == {t \in DOMAIN turns : turns[t].fate = "open"}
           x == [Idle EXCEPT !.kind = "boot", !.phase = "list"]
<1>1. /\ Cancelled(gone) /\ UNCHANGED chats
      /\ active' = None /\ sidebar' = {} /\ view' = Empty /\ disabled' = FALSE
      /\ task' = [[q \in Tasks |-> Idle] EXCEPT ![r] = x]
      /\ crossed' = FALSE /\ due' = {}
  BY DEF OpenPage
<1>2. gone \in SUBSET DOMAIN turns /\ \A t \in gone : turns[t].fate = "open"
  OBVIOUS
<1> HIDE DEF gone
<1>3. ServerGrows
  BY <1>1, <1>2, CancelledGrows DEF IInv
<1>4. Idle \in Task /\ x \in Task
  BY IdleIsTask
<1>5. x.phase = "list" /\ x.kind = "boot" /\ Idle.phase = "idle" /\ Idle.kind = "none"
  BY DEF Idle
<1> HIDE DEF x
<1>6. task' \in [Tasks -> Task] /\ \A q \in Tasks : task'[q] \in {Idle, x}
  BY <1>1, <1>4
<1>7. \A q \in Tasks : ~Loading(q)' /\ ~At(q, "create")' /\ TaskOK(q)'
  BY <1>5, <1>6 DEF Loading, At, TaskOK
<1>8. TypesOK'
  BY <1>1, <1>3, <1>6, EmptyBounded, TypesStep DEF IInv
<1>9. RoomLeft'
  <2>1. Creators' \subseteq Creators
    BY <1>7 DEF Creators
  <2> QED
    BY <1>1, <2>1, RoomKept DEF IInv, TypesOK
<1>10. ViewBounded' /\ TasksOK'
  BY <1>1, <1>7, EmptyBounded DEF TasksOK
<1>11. ScreenOK'
  <2>1. Loaders' = {}
    BY <1>7 DEF Loaders
  <2>2. Shown'
    BY <1>1 DEF Shown, Empty
  <2> QED
    BY <2>1, <2>2 DEF ScreenOK
<1> QED
  BY <1>8, <1>9, <1>10, <1>11 DEF IInv

(* The bubbles of a new message belong to the active session; that they    *)
(* meet no load of the panel is what crossed says.                         *)
LEMMA SendMessageKeeps ==
    ASSUME IInv, NEW r \in Tasks, SendMessage(r)
    PROVE  IInv'
<1> DEFINE t == Len(turns) + 1
           new == [room |-> active, fate |-> "open"]
           x == [Idle EXCEPT !.kind = "send", !.phase = "stream", !.turn = t]
<1>1. /\ active # None /\ At(r, "idle") /\ Len(turns) < MaxTurns
      /\ turns' = Append(turns, new)
      /\ view' = [view EXCEPT ![t] = 1]
      /\ task' = [task EXCEPT ![r] = x]
      /\ disabled' = TRUE
      /\ crossed' = (crossed \/ OthersLoad(r))
      /\ UNCHANGED <<chats, active, sidebar, due>>
  BY DEF SendMessage, PostMessage
<1>2. /\ active \in DOMAIN chats /\ active \in Sessions
      /\ Len(turns) \in Nat /\ DOMAIN turns = 1 .. Len(turns)
  BY <1>1, SeqFacts DEF IInv, TypesOK, TypeOK
<1>3. t \in Turns /\ t \notin DOMAIN turns
  BY <1>1, <1>2, FrontendAssumption DEF Turns
<1>4. new \in Turn /\ new.room = active
  BY <1>2 DEF Turn, TurnFates
<1>5. x \in Task
  BY <1>3, IdleIsTask
<1>6. x.phase = "stream" /\ x.kind = "send"
  BY DEF Idle
<1> HIDE DEF x, new
<1>7. /\ turns' \in Seq(Turn) /\ Len(turns') = t
      /\ DOMAIN turns' = DOMAIN turns \cup {t} /\ turns'[t] = new
      /\ \A u \in DOMAIN turns : turns'[u] = turns[u]
  BY <1>1, <1>2, <1>4 DEF IInv, TypesOK
<1> HIDE DEF t
<1>8. ServerGrows
  <2>1. Len(turns') <= MaxTurns
    BY <1>1, <1>2, <1>7, FrontendAssumption DEF t
  <2>2. \A u \in DOMAIN turns' : turns'[u].room \in DOMAIN chats'
    BY <1>1, <1>2, <1>4, <1>7, SeqFacts DEF IInv
  <2> QED
    BY <1>1, <1>7, <2>1, <2>2 DEF ServerGrows, IInv, TypesOK, TypeOK, Stored
<1>9. /\ task' \in [Tasks -> Task] /\ task'[r] = x
      /\ \A q \in Tasks : q # r => task'[q] = task[q]
  BY <1>1, <1>5 DEF IInv, TypesOK, TypeOK
<1>10. Loaders' = Loaders /\ r \notin Loaders
  BY <1>1, <1>6, <1>9 DEF Loaders, Loading, At
<1>11. /\ Cardinality(Loaders) \in 0 .. Cardinality(Tasks) /\ Cardinality(Tasks) \in Nat
  BY Counting DEF Loaders
<1>12. view \in [Turns -> 0 .. (Cardinality(Tasks) + 1)]
  BY DEF IInv, TypesOK, TypeOK
<1>13. /\ view' \in [Turns -> 0 .. (Cardinality(Tasks) + 1)]
       /\ view'[t] = 1 /\ \A u \in Turns : u # t => view'[u] = view[u]
  BY <1>1, <1>3, <1>11, <1>12
<1>14. TypesOK'
  <2>1. /\ active' \in DOMAIN chats' \cup {None} /\ sidebar' \subseteq DOMAIN chats'
        /\ disabled' \in BOOLEAN /\ crossed' \in BOOLEAN /\ due' \subseteq DOMAIN turns'
    BY <1>1, <1>7 DEF IInv, TypesOK, TypeOK, OthersLoad
  <2> QED
    BY <1>8, <1>9, <1>13, <2>1, TypesStep DEF IInv
<1>15. RoomLeft'
  BY <1>1, <1>5, <1>6, RoomStays
<1>16. ViewBounded'
  <2>1. \A u \in Turns : view[u] + Cardinality(Loaders) <= Cardinality(Tasks) + 1
    BY DEF IInv, ViewBounded
  <2>2. \A u \in Turns : view'[u] + Cardinality(Loaders') <= Cardinality(Tasks) + 1
    BY <1>10, <1>11, <1>13, <2>1
  <2> QED
    BY <2>2 DEF ViewBounded
<1>17. TasksOK'
  <2>1. TaskOK(r)'
    BY <1>1, <1>6, <1>9 DEF TaskOK, Loading, At
  <2>2. \A q \in Tasks : task'[q] = task[q] \/ TaskOK(q)'
    BY <1>9, <2>1
  <2> QED
    BY <1>1, <1>8, <2>2, TasksStep DEF IInv, ServerGrows
<1>18. ScreenOK'
  <2> SUFFICES ASSUME ~crossed, ~OthersLoad(r)
               PROVE  Loaders' = {} /\ Shown'
    BY <1>1 DEF ScreenOK
  <2>1. Loaders = {}
    BY <1>10 DEF OthersLoad, Loaders, Loading
  <2>2. Shown
    BY <2>1 DEF IInv, ScreenOK
  <2>3. \A u \in Turns : view'[u] > 0 => /\ u \in DOMAIN turns'
                                         /\ turns'[u].room = active'
                                         /\ view'[u] = 1
    BY <1>1, <1>4, <1>7, <1>13, <2>2 DEF Shown
  <2>4. \A u \in due' : view'[u] = 1
    <3>1. due \subseteq Turns /\ due \subseteq DOMAIN turns
      BY SeqFacts DEF IInv, TypesOK, TypeOK
    <3> QED
      BY <1>1, <1>3, <1>13, <2>2, <3>1 DEF Shown
  <2> QED
    BY <1>10, <2>1, <2>3, <2>4 DEF Shown
<1> QED
  BY <1>14, <1>15, <1>16, <1>17, <1>18 DEF IInv

-----------------------------------------------------------------------------

(* The page before it is opened, and a server without sessions.            *)
LEMMA InitHolds == Init => IInv
<1> SUFFICES ASSUME Init
             PROVE  IInv
  OBVIOUS
<1>1. /\ chats = <<>> /\ turns = <<>> /\ active = None /\ sidebar = {} /\ view = Empty
      /\ disabled = FALSE /\ task = [r \in Tasks |-> Idle] /\ crossed = FALSE /\ due = {}
  BY DEF Init
<1>2. Idle \in Task /\ Idle.phase = "idle" /\ Idle.kind = "none"
  BY IdleIsTask DEF Idle
<1>3. /\ chats \in Seq(ChatFates) /\ Len(chats) = 0 /\ DOMAIN chats = {}
      /\ turns \in Seq(Turn) /\ Len(turns) = 0 /\ DOMAIN turns = {}
  BY <1>1
<1>4. Loaders = {} /\ Creators = {}
  BY <1>1, <1>2 DEF Loaders, Creators, Loading, At
<1>5. /\ Cardinality(Loaders) = 0 /\ Cardinality(Creators) = 0 /\ Cardinality(Tasks) \in Nat
  BY <1>4, FS_EmptySet, FS_CardinalityType, FrontendAssumption
<1>6. TypesOK
  <2>1. task \in [Tasks -> Task] /\ disabled \in BOOLEAN /\ crossed \in BOOLEAN
    BY <1>1, <1>2
  <2>2. view \in [Turns -> 0 .. (Cardinality(Tasks) + 1)]
    BY <1>1, EmptyBounded
  <2>3. Len(chats) <= MaxSessions /\ Len(turns) <= MaxTurns
    BY <1>3, FrontendAssumption
  <2> QED
    BY <1>1, <1>3, <2>1, <2>2, <2>3 DEF TypesOK, TypeOK
<1>7. RoomLeft
  BY <1>3, <1>5, FrontendAssumption DEF RoomLeft
<1>8. ViewBounded
  BY <1>1, <1>5 DEF ViewBounded, Empty
<1>9. TasksOK
  BY <1>1, <1>2 DEF TasksOK, TaskOK, Loading, At
<1>10. ScreenOK
  BY <1>1, <1>4 DEF ScreenOK, Shown, Empty
<1> QED
  BY <1>6, <1>7, <1>8, <1>9, <1>10 DEF IInv

LEMMA NextKeeps == IInv /\ [Next]_vars => IInv'
<1> SUFFICES ASSUME IInv, [Next]_vars
             PROVE  IInv'
  OBVIOUS
<1>1. ASSUME NEW r \in Tasks, OpenPage(r) \/ NewChat(r) \/ SendMessage(r)
      PROVE  IInv'
  BY <1>1, OpenPageKeeps, NewChatKeeps, SendMessageKeeps
<1>2. ASSUME NEW r \in Tasks, NEW s \in Sessions, SelectSession(r, s)
      PROVE  IInv'
  BY <1>2, SelectSessionKeeps
<1>3. ASSUME NEW t \in Turns, AnswerEnds(t) \/ CommitTurn(t)
      PROVE  IInv'
  BY <1>3, AnswerEndsKeeps, CommitTurnKeeps
<1>4. ASSUME NEW s \in Sessions, CommitSession(s)
      PROVE  IInv'
  BY <1>4, CommitSessionKeeps
<1>5. ASSUME NEW r \in Tasks, Continue(r)
      PROVE  IInv'
  BY <1>5, CreatedKeeps, StreamReadKeeps, RefusedKeeps, LoadAnsweredKeeps,
     AppendMessagesKeeps, ListAnsweredKeeps, RenderSessionsKeeps DEF Continue
<1>6. ASSUME NEW r \in Tasks, Broken(r)
      PROVE  IInv'
  BY <1>6, BrokenKeeps
<1>7. CASE UNCHANGED vars
  <2>1. ServerGrows /\ Len(chats') = Len(chats) /\ UNCHANGED page
    BY <1>7, ServerStays DEF IInv, vars, server
  <2> QED
    BY <2>1, ServerStep
<1> QED
  BY <1>1, <1>2, <1>3, <1>4, <1>5, <1>6, <1>7 DEF Next

(* The inductive invariant holds in every state.                           *)
THEOREM Invariance == Spec => []IInv
<1> QED
  BY InitHolds, NextKeeps, PTL DEF Spec

(* Every variable keeps its type: no handler names a session the server    *)
(* does not have, and no turn is shown more often than handlers can show   *)
(* it (index.html state).                                                  *)
THEOREM FrontendTypes == Spec => []TypeOK
<1>1. IInv => TypeOK
  BY DEF IInv, TypesOK
<1> QED
  BY <1>1, Invariance, PTL

(* The panel agrees with the session that is highlighted whenever no       *)
(* handler is under way and no load of the panel was crossed, for any      *)
(* number of handlers, sessions and messages (index.html loadMessages,     *)
(* selectSession, sendMessage).                                            *)
THEOREM ScreenAlwaysAgrees == Spec => []ScreenAgrees
<1>1. IInv => ScreenAgrees
  <2> SUFFICES ASSUME IInv, ~crossed, \A r \in Tasks : At(r, "idle")
               PROVE  /\ \A t \in Turns : view[t] > 0 => turns[t].room = active /\ view[t] = 1
                      /\ \A t \in due : view[t] = 1
    BY DEF ScreenAgrees
  <2>1. Loaders = {}
    BY DEF Loaders, Loading, At
  <2>2. Shown
    BY <2>1 DEF IInv, ScreenOK
  <2> QED
    BY <2>2 DEF Shown
<1> QED
  BY <1>1, Invariance, PTL
=============================================================================
