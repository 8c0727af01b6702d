# A verification of LLM-RAG-Platform

TLA+ models of the platform's backend, the TLC runs that check them on small
instances, and TLAPS proofs for every size. Paths are relative to `src/`;
`PROJECT.json` maps each definition to the lines it models.

## 1. The system

The backend is one FastAPI process (or several replicas) on an event loop. A
request is a coroutine; between two awaits it runs alone, at each await any
other request may run, and the process may die.

| component | state it keeps | operations | talks to |
|---|---|---|---|
| documents API (`app/api/routes_documents.py`) | none of its own | upload, list, delete | repositories, ingestion, Qdrant |
| ingestion (`app/services/ingestion.py`) | none | extract, chunk, embed, index | embeddings, Qdrant |
| vector store (`app/vectorstore.py`) | Qdrant: the collection, its points, its payload indexes | ensure_collection, upsert, search, scroll, delete | Qdrant over HTTP |
| chat API (`app/api/routes_chat.py`) | none | create session, send message (streamed), listings | repositories, RAG service |
| RAG and LLM (`app/services/rag.py`, `llm.py`) | none | retrieve, build the prompt, stream | embeddings, Qdrant, Ollama or Anthropic |
| accounts (`app/api/routes_auth.py`, `app/services/auth.py`, `app/security.py`, `app/api/deps.py`) | none; tokens are stateless | register, login, refresh, get_current_user | user repository |
| repositories and models (`app/repositories.py`, `app/models.py`) | Postgres: users, documents, chat_sessions, chat_messages | one query or flush each | the request's session |
| transaction (`app/db.py`) | the connection pool; one session per request | commit, roll back, close | Postgres |
| frontend (`app/static/index.html`) | tokens, lists, active session, selection | one callback per click | the API |
| health, rate limiter, middleware (`app/main.py`, `app/api/routes_health.py`) | counters nobody uses | `/health`, `/ready` | the database |

Three facts shape everything.

* **The commit comes last.** `get_db_session` is a dependency with `yield`.
  With the locked FastAPI (0.139.0 in `uv.lock`) it is closed after the response
  was sent, so every handler answers first and commits second. The tests cannot
  see this: `tests/conftest.py` gives all requests one session that is not
  committed at all.
* **Two stores, no transaction across them.** A document is a row in Postgres
  and points in Qdrant. The points are visible when Qdrant applies the call, the
  row when the request ends.
* **Cancellation is not an `Exception`.** It passes `except Exception` in
  `upload_document` and in `get_db_session`; the session is closed and its
  transaction dropped.

What makes the behaviour hard is therefore interleaving of requests, state seen
before it is committed, faults between two stores, calls whose outcome is
unknown, a stream that breaks off, and tokens that outlive what they say. The
full list, with lines, is `hazards` in `PROJECT.json`.

What makes each component correct:

* documents: the list and the index agree, or the document says why not; nothing
  of a deleted document is retrievable; only its owner removes it;
* chat: only whole turns are stored and shown to the model, and no session
  leaks into another owner's;
* retrieval: an answer cites only the asker's documents, none that was gone when
  it was asked, and a summary that fits the limit quotes the whole selection;
* accounts: one account per email, access ends when it should;
* chunking: no text lost, no chunk too long or blank, and it ends;
* serving: no connection leaks or is given back twice, no request waits for one
  for ever, and a replica that was busy is put back into service;
* frontend: a panel at rest shows the session that is highlighted.

## 2. Modules

| module | models | checked by |
|---|---|---|
| `Documents` | upload and deletion, ingestion's calls, Qdrant, the transaction | `documents_*` |
| `DocumentLifecycle` | what the service promises of one document; no code | refined by `Documents` |
| `DocumentsProofs` | theorems about `Documents` | TLAPS |
| `RefinementProofs` | theorem: `Documents` implements `DocumentLifecycle` | TLAPS |
| `Chat` | create session, send message, the stream, the transaction | `chat*` |
| `ChatProofs` | theorems about `Chat` | TLAPS |
| `Retrieval` | `RagService.retrieve`, search and scroll; composes with `DocumentLifecycle` | `retrieval` |
| `RetrievalProofs` | theorems about `Retrieval` | TLAPS |
| `Auth` | registration, login, refresh, get_current_user | `auth*` |
| `AuthProofs` | theorems about `Auth` | TLAPS |
| `Chunking` | `_split_into_units`, `_hard_split`, `chunk_text` | `chunking` |
| `ChunkingProofs` | theorems about `Chunking` | TLAPS |
| `Serving` | one replica: connection pool, event loop, `/ready`, `/health`, the kubelet | `serving` |
| `ServingProofs` | theorems about `Serving` | TLAPS |
| `Frontend` | the chat panel of the web page, and what it sees of the server | `frontend` |
| `FrontendProofs` | theorems about `Frontend` | TLAPS |
| `MC*` | instances: symmetry sets, the texts and settings of `Chunking` | |

### Documents

`documents` is the committed table, `collection` and `points` are Qdrant.
`phase[r]` is the await request `r` stands at, `row[r]` the `Document` object in
its session, invisible to others until `CommitInsert`. An upload runs
`UploadDocument`, `ExtractAndChunk`, `EmbedChunks`, `CheckCollection`,
`CreateCollection`, `CreatePayloadIndexes`, `UpsertChunks`, `AnswerUpload`,
`CommitInsert`; any step of `ingest` may be replaced by `IngestRaises`, the
`except Exception` that marks the document FAILED. A deletion runs
`DeleteDocument`, `PurgeChunks` (or `PurgeRaises`), `AnswerDelete`,
`CommitDelete`.

Faults: `CommitFails`; `Abandon` is a crash or a cancellation at any await; a
call to Qdrant that raised, or whose caller died, was refused or is applied
later (`LateUpsert`, `LatePurge`). `past` records what happened to a document
id. It is no part of the code; the properties speak of it. The one event that
weakens them is `doubtful`: the upload stopped waiting for an upsert that Qdrant
may still apply. Nothing in the code can know better, so the promise ends there,
and the model says so instead of leaving the late call out. A deletion that Qdrant
applies late is remembered in `latePurges` with the user who asked; `LatePurge`, like
the filter Qdrant is sent, goes by the document alone.

`DocumentLifecycle` has no requests, phases or calls: a document is indexed,
accepted, refused, withdrawn, deleted or in doubt. `Documents!KeepsLifecycle`
is its specification under the mapping at the end of `Documents`.

### Chat

A request is one record, the fields of which are the locals of its coroutine.
`send_message` is one transaction: the question is flushed before the first
token, the answer after the last, both are committed together after the client
saw the end of the stream. `started` is `now()` of that transaction, which is
what `created_at` gets; it also names the turn. `history` is what the prompt
is built from. `whole`, the number of tokens of the model's true answer, is chosen when
the stream begins and no part of the code: `StreamEnds` is the end of the whole answer,
`StreamCut` an error line in Ollama's stream, which `stream_completion` skips, so that
what was collected is stored as if it were the answer. A session id is named by when it was drawn, so that equal states
are equal without a symmetry set. `Disconnect` is the client leaving in mid-stream: Starlette
cancels the generator and returns normally, so the question alone is committed.
`Raise` is an exception anywhere before the end: everything is rolled back.

### Retrieval

One question at a time, since questions only read: `Ask` decides between the two
reads, `EmbedQuery` and `Search` are two awaits, `Scroll` is one, `Cite` fixes
the citations that `AnswerEnds` stores after the stream. Between any two of them
`DocumentsMove` lets the documents take a step. It takes them from
`DocumentLifecycle`, not from `Documents`: the refinement checked in
`documents_safety` is what makes that sound, and keeps the composition small.
Orphans appear as documents that are never listed but retrievable, given-up
upserts as documents that drift: in doubt, they may be cited after their deletion.
`SearchMatches` and `ScrollMatches` are the filters the two reads build; which of the
matching chunks are near enough is a choice, since it depends on vectors. `ReadingOrder` is
the sequence of chunks that is sorted by `Before`: by document, then by index. `asked` is the
state of the documents when the question was asked and no part of the code.

### Auth

`users` is the committed table. `Locked` and `EmailTaken` are the unique index
on `users.email`: an INSERT waits for the transaction that holds the same email,
then fails or passes. `tokens` is every token issued; any of them may be
presented at any time. A login, a refresh or an authenticated request is a `call` in
three steps: `Present` decodes the token and checks its expiry (or
`Login` takes the credentials), `LookUp` loads the account as it is then, and
`GiveTokens`, `LetThrough` or `RefuseCall` decides on the loaded object. In between the
clock moves and the account may be disabled, so a call may be served after its token
expired, or after its account was disabled; the properties bound when it began. `age`
and `out` record that moment and are no part of the code. `Tick` moves the clock,
`Deactivate` is an operator's UPDATE: no endpoint does it, and none enables an account
again. Hashing and signing are abstract: the right
password is the same value, an issued token is in `tokens`.

### Serving

The other modules have a request hold a transaction for its whole length; here
this costs something. `CheckOut` takes one of `PoolLimit` connections: one at hand,
which `pool_pre_ping` tries (`ping`), or a new one (`open`). `Connected` and `Refused`
are Postgres' answer, `Release` gives the connection back however the request ends.
Two waits have a timeout: for the pool (`GiveUp`, 30 s, the library's default) and for
a new connection (`OpenTimesOut`). A ping, a statement and the COMMIT have none: while
`database` is silent, a request that awaits one hangs with its connection, and `Finish`
is disabled. `Parse` to `ParseEnds` is the part of an ingestion without an
await: nothing else runs meanwhile. The kubelet calls `/ready`, which needs the
loop, a connection and Postgres, and `/health`, which needs the loop alone;
`MissProbe` is a probe without an answer in a second, which leaves its handler
behind, still waiting for a connection. `missed` and `unhealthy` count towards
`FailureThreshold`. A refused `SELECT 1` is a 200, as in the code. What a request
does with its connection is in the other modules, so here it is only `work`.

### Frontend

A task is one event handler from its event to its end, and its phase the fetch
it awaits: the page runs one callback at a time, so everything between two awaits
is one action. `LoadMessages` clears the panel, `AppendMessages` adds what the
server answered to whatever the panel shows by then. `StreamRead` reloads the
session that is active now. `OpenPage` loads the page anew and drops every task.
The server keeps, of `Chat`, what the page can tell apart: a turn is open,
answered, then stored or lost, or failed; a session is answered before it is
stored, so that a page that opens it at once is told 404. `view` counts how often
each turn is shown; the order on the screen is the subject of `chat_order`.
`crossed` and `due` are no part of the code: whether the last load met another
one, or a message sent, and what it had to find.

### Chunking

The only module about data. A text is a sequence over four kinds of character:
the ones the two regular expressions, `split()` and `splitlines()` tell apart.
`AllSentences` is the line, glue, whitespace and sentence handling as a
function (`NotEmpty` is its `if s`); `HardSplit` and `MergeUnit` are one turn each of the two loops whose
arithmetic can go wrong. `Windows` is the reference definition of a long
sentence's pieces. `place` remembers the chunk each unit was put in.

## 3. Runs

| run | instance | what it shows |
|---|---|---|
| `documents_safety` | 2 users, 2 documents, 2 requests, at most 2 chunks | six invariants, `OnlyOwnerPurges`, and the refinement of `DocumentLifecycle` |
| `documents_liveness` | 1 user, 2 documents, 2 requests | every accepted upload settles |
| `documents_orphans` | 1 of each | violated: see Findings |
| `chat` | 2 users, 2 sessions, 2 requests, 2 turns, 2 tokens | six invariants beside the types; every message ends |
| `chat_reload`, `chat_order` | 1 session, 1 request | violated: see Findings |
| `retrieval` | 2 users, 2 documents of at most 2 chunks, `TopK` 2, `SummaryMax` 3 | whose and which chunks are cited, before, during and after deletions |
| `auth` | 2 emails, 2 accounts, 2 passwords, 2 registrations and 1 call at a time, lifetimes 0 and 1, time 0..2 | uniqueness, freshness, deactivation, termination |
| `auth_duplicate` | 1 email, 2 requests | violated: see Findings |
| `chunking` | all texts up to 6 characters, 6 settings | chunks, units, termination |
| `serving` | 3 requests, 2 probes, 2 connections, threshold 2 | connections accounted for, requests end unless Postgres stays silent, the replica comes back |
| `frontend` | 2 handlers, 2 sessions, 2 messages | the panel at rest agrees with the active session; the button returns |

**Why the bounds are enough.** A property of `Documents` relates a document with
the request that uploads it and one that deletes it, so two requests show every
pair, with a second document for what one does to another (the collection race,
the filter of a deletion). The proofs below
lift this, and every other safety property, to any number.
Two chunks tell "all", "some" and "none" apart. In `Chat` a
turn reads a session in which the other was committed, broken off or is still open,
and two tokens tell an empty, a truncated and a whole answer apart. In `Retrieval` the four chunks exceed `SummaryMax`,
three meet it and `TopK` is less, so both limits bite and differ. In `Auth` the time bound lies past the longest token
lifetime, so every token is also presented expired, and expires between check and use; an access
token of lifetime 0 is good in its own instant, a refresh token in the next one too. One call
shows what falls between its steps, as calls do not touch each other but through the
tokens they issue. Six characters hold two
sentences, a sentence of several pieces, a blank at a cut, and an overlap that
does not fit. In `Serving` three requests exceed two connections, a second probe can
start while the first, given up, still waits, and a threshold of 2 tells one
missed probe from enough. In `Frontend` two handlers are a crossing, and two
messages in two sessions what a crossing can mix.

The bounds are constants of the modules: `MaxChunks`, `MaxTurns`, `MaxTokens`,
`MaxTime`, `MaxSessions`, and the sizes of the sets of ids, which `uuid4` never repeats.

**Symmetry** is used in safety runs only; users, documents, sessions and request
slots are interchangeable, and no definition names one. Only the `chunking` run
turns the deadlock check off: an algorithm ends.

**Fairness** is weak fairness of `Continue(r)`, what a request does by itself
once it was accepted. The event loop resumes a coroutine whose await is over, and
every await ends. Of the Qdrant and model clients the code justifies this: they have
timeouts, and the model's answer has a token limit. Of Postgres it does not:
`app/db.py` sets no timeout for statements, and the driver has none by default. That
Postgres answers a statement and a COMMIT is an assumption about the environment of
`Documents`, `Chat` and `Auth`, where it also has to wake one INSERT whose lock is gone;
`EveryUploadSettles`, `EverySendEnds` and `EveryRegistrationEnds` rest on it. `Serving`
does without: there Postgres falls silent at any time, and then nothing but the two
timeouts ends a wait. Nothing is assumed of clients, of faults or of late calls. In
`Serving` the kubelet keeps probing and gives up in time. `EveryRequestEnds` is stated
for behaviours in which Postgres is at last no longer silent, since otherwise requests
do hang for ever; `ReplicaComesBack` holds until Postgres falls silent, and again after
each silence. In `Frontend` streams end, since `EverySendEnds` holds in `Chat`; that a
connection breaks, that a commit happens and what the user does is not assumed.

## 4. Proofs

Every safety invariant, every action property and the refinement that the passing
runs check are theorems, for every value of the constants. Each proof goes the
same way: an inductive invariant `IInv`, of which the property is a part or a
consequence; one lemma per action that keeps it (per effect, where several
actions do the same to the state); one step that collects them; and a temporal
step at the end. Every `IInv` was checked with TLC first, on the instance of its
module's run.

The assumptions are those that the modules name: bounds are natural numbers,
`None` is no value of what it stands beside, and sets that are counted (the
slots of `Serving`, the handlers of `Frontend`, the documents that `Retrieval`
puts in order) are finite. What depends on a setting (`overlap >= chunk_size`, say) is
decided by the model, as in the code. One idealisation is built into a model: in `Chat`
no two transactions begin in the same microsecond, so that `now()` names the turn;
`TurnsStayTogether` would not hold of two that did. The environment the models assume
otherwise is in section 2, and what liveness assumes in section 3.

### Documents

`DocumentsProofs`, from `DocumentsAssumption`:

| theorem | property |
|---|---|
| `TypeCorrect` | `TypeOK` |
| `Invariance` | the inductive invariant `IInv`, with `OwnersOK` and `AskersOK` |
| `ReadyDocumentsIndexed` | `ReadyMeansIndexed` |
| `NoneStuck` | `NoRowStuckProcessing` |
| `FailedDocumentsEmpty` | `FailedNotRetrievable` |
| `DeletedDocumentsEmpty` | `DeletedNotRetrievable` |
| `OrphansAccountedFor` | `OrphansExplained` |
| `OnlyOwnersPurge` | `OnlyOwnerPurges` |

**Why an invariant is needed.** The properties speak of committed rows. That a
row fits its points is decided earlier, when it is an object in one request's
session: so `IInv` follows the document through that request. `UploadOK` says
that before the upsert there are no points, and from the answer on the row is
`Honest`; `SoleUploader` says no second request uploads the same id, so nobody
else changes these points; `DeleteOK` says whoever deletes found a published row
and, from its answer on, the points were purged; `DocumentOK` carries this over
to the committed row and what happened to the document; `Accounted` says every
point comes from an upload that is under way, published, lost or in doubt.
`OwnersOK` adds that points carry the owner of their row and of every request
that handles it, which is what `OnlyOwnersPurge` needs, since the filter sent to
Qdrant names the document alone; `AskersOK` says the same of whoever asked for a deletion
that is still to be applied: no chunk of the document can be new by then, because only a
committed row is found and deleted. There is a lemma per effect on the points
(`PointsUpserted`, `PointsPurged`, `PointsLate`).

`RefinementProofs` proves that the module implements its abstract specification:

| theorem | property |
|---|---|
| `LifecycleKept` | `KeepsLifecycle`, the specification of `DocumentLifecycle` |
| `ListingAlwaysAgrees` | `DocumentLifecycle`'s own invariant, under the mapping |

Each action is shown to be one lifecycle step of one document, and to leave every
other document as it was (`Same(d)`), or to be a stutter: most of an upload is, and
what shows is its upsert, its doubt and its commit. `IInv` was not enough. The
commit of a failed upload is a `Refuse`, which changes no size; so a row that
says FAILED must count no chunks, which is `FailedCountsNone`.

### Chat

`ChatProofs`, from `ChatAssumption`:

| theorem | property |
|---|---|
| `ChatTypes` | `TypeOK` |
| `Invariance` | the inductive invariant `IInv` |
| `AnswersAreAlwaysWhole` | `AnswersAreWhole` |
| `DanglingAlwaysExplained` | `DanglingQuestionsExplained` |
| `FailuresLeaveNothing` | `FailedTurnsLeaveNothing` |
| `PromptsAreWhole` | `PromptsHoldWholeTurns` |
| `SessionsStayPrivate` | `SessionsArePrivate` |
| `TurnsAreUnseparated` | `TurnsStayTogether` |

The properties speak of messages; a message gets there by the commit of a request
that drew its turn many steps before. `PendingOK` says what is flushed in each
phase (the question alone until the stream ends, then both, or the question alone
and the client gone); `TurnOK` that turn and session belong to the request's user;
`Distinct` that no two requests have the same turn or create the same session;
`UndecidedOK` that nothing of a living turn is committed or lost. From these,
`MessagesOK` survives a commit, and `HistoriesOK`, which is `MessagesOK` for what a
request read earlier, survives the commits of others. That a stored answer is whole
comes from the stream: `collected` never exceeds `whole`, `StreamEnds` needs all of it,
and the only other way to an answer, `StreamCut`, leaves its mark in `fate`.

### Retrieval

`RetrievalProofs`, from `RetrievalAssumption` (documents are numbers: their ids
have an order):

| theorem | property |
|---|---|
| `RetrievalTypes` | `TypeOK` |
| `ReadingOrderSorts` | the sort returns each chunk once, in order |
| `Invariance` | the inductive invariant `IInv` |
| `CitationsAlwaysOwn` | `CitationsAreOwn` |
| `CitationsAlwaysInScope` | `CitationsInScope` |
| `DeletedNeverCited` | `DeletedUncited` |
| `SummariesAreWhole` | `SummaryIsWhole` |

The invariant is the four properties with what they need of the documents:
`ListingAgrees` holds at any moment of the lifecycle, and `AskedOK` relates the
state when the question was asked with the present one: what was gone stays gone,
what was ready stays, is withdrawn or is deleted. `DocumentsMove` keeps both
because each lifecycle step does (`LifecycleSteps`). That `ReadingOrder`, a
`CHOOSE`, has something to choose is `Sorted`: the place of a chunk is the number
of chunks before it (`Rank`), ranks differ, so they fill `1 .. n`.

### Auth

`AuthProofs`, from `AuthAssumption`:

| theorem | property |
|---|---|
| `AuthTypes` | `TypeOK` |
| `Invariance` | the inductive invariant `IInv` |
| `EmailsAreUnique` | `OneAccountPerEmail` |
| `AccessIsAlwaysFresh` | `AccessIsFresh` |
| `DeactivatedAlwaysStaysOut` | `DeactivatedStaysOut` |

Two registrations may both have found the email free. What keeps them apart is the
index: from its INSERT to its commit, a registration's email is no committed
account's (`EmailKept`) and no other's that has inserted (`Distinct`). Tokens are
apart from this: `TokenOK` bounds an access token's expiry by the account's last
issue, which later issues only move on. Since checks and use are steps apart, `CallsInv`
carries what was checked to where it is used: the age of the user's last tokens when
the call began, which never exceeded the lifetime of the token it came with, and that
a call that began with a disabled account can only load a disabled one. The latter
rests on accounts never being enabled again.

### Chunking

`ChunkingProofs`, from `ChunkingAssumption` (texts are finite sequences, a chunk
has a positive size):

| theorem | property |
|---|---|
| `ChunkingTypes` | `TypeOK` |
| `Invariance` | the inductive invariant `IInv` |
| `ChunksAlwaysFit` | `ChunksFit` |
| `ChunksAreNeverBlank` | `NoBlankChunk` |
| `UnitsAreKept` | `UnitsKept` |
| `UnitsAlwaysMeetReference` | `UnitsMeetReference` |

Three layers. *Strings*: what `Strip`, `Within`, `SplitAt` and `FlattenSeq` do to
sequences of any length. *Sentences*: whatever the text, every sentence ends in a
character that is no blank (`AllSentencesInked`). *Loops*: `SplitOK` says
`_hard_split` is inside the sentence it cuts; `UnitsOK` that units fit and the last
one is blank only inside `_hard_split`; `MergeOK` that what is held fits and no
chunk is blank; `KeptOK` where each unit is; `PlacesInOrder` that they are in order.
A unit that is all blank, cut out of a long sentence, is why `NoBlankChunk` is no
local fact: a chunk it starts is not added before the next unit joined it, since the
candidate made of a blank chunk and a unit is no longer than the unit. `ReferenceOK`
relates the loop with the formula: the sentences still to take are the last ones
of the text, and of the one at hand `j` windows are cut (`CutSoFar`);
`WindowArithmetic` is that the loop stops after as many as the division says.

The library's induction theorems take an operator, which the provers here cannot
instantiate. Induction over numbers is done with a set in the operator's place
(`SetInduction`, from the least element of a set of naturals, `WFMin`), and
`Recursion` says that a recursive function over numbers is one that satisfies its
equations. That is how facts about `SplitAt` and `FlattenSeq`, which are folds,
are proved for every length.

### Serving

`ServingProofs`, from `ServingAssumption` (the pool and the threshold are positive):

| theorem | property |
|---|---|
| `PoolAccounted` | `ConnectionsAccounted` |
| `ServingTypes` | `TypeOK` |

The invariant is the conjunction of the two: that `free` never exceeds the pool is
no matter of types, but follows because a request that gives a connection back is
one of those counted. A lemma says what a step does to the number of holders
(`HoldersKept`, `HoldersGrow`, `HoldersShrink`), another that every way a request
ends keeps the pool (`EndKeepsPool`).

### Frontend

`FrontendProofs`, from `FrontendAssumption`:

| theorem | property |
|---|---|
| `FrontendTypes` | `TypeOK` |
| `Invariance` | the inductive invariant `IInv` |
| `ScreenAlwaysAgrees` | `ScreenAgrees` |

`ScreenAgrees` is about a panel at rest; the invariant must say what the panel is
while it is not. `ScreenOK`: without a crossing at most one handler loads the panel.
If one does, the panel is clear, the load is of the active session, and what it got
holds all that was due (`Filling`); if none does, the panel is right (`Shown`). The
rest is what the types need: `RoomLeft` and `ViewBounded` count sessions and
messages against their bounds, `TasksOK` says a handler's session and message exist.

### Only model-checked

Liveness (`EveryUploadSettles`, `EverySendEnds`, `EveryRegistrationEnds`,
`ChunkingEnds`, `EveryRequestEnds`, `ReplicaComesBack`, `SendButtonReturns`): it
rests on fairness, hence on ENABLED, which is outside the provers' reach. The runs
of section 5 are counterexamples and need no proof. That the bounds do not hide a
behaviour of the liveness properties is argued in section 3, not proved.

## 5. Findings

Each is a run that TLC finds violated; `PROJECT.json` quotes the text.

* `documents_orphans`: a crash, a cancellation or a failed commit after the
  upsert leaves chunks that retrieval returns, and cites, for a document that is
  not listed and that no endpoint can delete.
* `chat_reload`: the frontend reloads the messages when the stream ends; the
  answer is committed after that.
* `chat_order`: question and answer have the same `created_at`, so `ORDER BY
  created_at` leaves open which comes first, on the screen and in the next
  prompt.
* `auth_duplicate`: a registration of a confirmed email may be answered 500
  instead of 409.

Others were met while modelling and have no run of their own:

* the late commit of `chat_reload` also makes a login fail that follows the 201
  of a registration at once, as the frontend's does (db.py:31, index.html:211-223,
  against tests/integration/test_auth_api.py:6);
* an empty `document_ids` restricts nothing (rag.py:66, against schemas.py:85);
* a question before the first upload is answered with an error, not with the "No
  relevant documents" context (vectorstore.py:123, rag.py:43);
* `/ready` answers 200 when its statement failed (routes_health.py:25);
* rate limiting is a feature (README.md:18), and nothing applies the limiter
  (main.py:23, no middleware and no decorator);
* an error line in the middle of Ollama's stream is skipped, and the part streamed so
  far is stored as the answer (llm.py:109, `StreamCut`);
* a request whose lookup is under way is served although its token expires or its
  account is disabled meanwhile (deps.py:93, auth.py:37 and 53);
* while Postgres is silent, requests hang with a connection each: neither the ping nor
  the statements have a timeout (db.py:12-18);
* overlapping loads mix two sessions on the screen (index.html:427): `ScreenAgrees`
  holds only outside `crossed`, and fails when either kind of crossing is left
  out of it.

## 6. Not modelled

* Reads that change nothing (listings): what they return is the
  subject of properties, not of actions.
* Scores, embeddings and the prompt's wording: data no property tells apart.
  What a score decides is a choice in `Retrieval`.
* The retry decorators of `llm.py` wrap async generator functions, which cannot
  raise when called; they have no effect, and `Chat` has none.
* The rate limiter is created and never applied.
* Configuration, logging, schemas, migrations, container images: no state of the
  running program.
* Of the frontend: login and logout, the list of documents and the selection of
  documents for a question, the history tab, the rendering of citations.
* Several replicas behind the Service, the autoscaler, the order of callbacks on
  the event loop.

## 7. Plan

1. *(done)* The models: `Documents`, `DocumentLifecycle`, `Chat`, `Retrieval`,
   `Auth`, `Chunking`, `Serving`, `Frontend`, with their runs.
2. *(done)* The proofs: each safety invariant, action property and refinement that a
   passing run checks is a theorem.
3. Left: `ListingAgrees` as a theorem of `DocumentLifecycle` by itself, to be cited by
   `RetrievalProofs` and `RefinementProofs`, which each prove it for their own use;
   and the promise that, outside of doubt, a deleted document's index stays empty for
   good, stated and proved once for the lifecycle and inherited by `Documents`.
