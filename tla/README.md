# A verification of ChatBotPlatform

TLA+ specifications of the parts of ChatBotPlatform whose correctness depends
on the order in which things happen, TLC runs that check them on small
instances, and proofs, checked by TLAPS, that some of their properties hold for
every instance. Paths are relative to `src/`.

## 1. The system

A user puts documents into the knowledge base of an *assistant*; customers chat
with the assistant, by text or voice, on a page of the platform or one embedded
in another site. The answers come from a language model that is given the
passages of the knowledge base that fit the question.

| Component | Code | State it keeps | Operations | Talks to |
|---|---|---|---|---|
| Job queue of the embedding model | `backend/services/rag_queue.py` | `asyncio.Queue`, worker tasks, one future per call, a thread pool | start, stop, enqueue, worker loop | called by the knowledge base; runs its functions in threads |
| Job queue of the speech model | `backend/services/stt_queue.py` | the same | the same | the speech endpoint |
| Knowledge base | `backend/services/vector_service.py`, `routers/assistant.py` | table `knowledge_base`, FAISS store (two files), source files, one cached store per process, an asyncio write lock per assistant and process, a lock on disk | upload, update, delete, list, load for chat | job queue, database, disk, LLM (summaries) |
| Chat server | `backend/routers/websocket.py` | `active_connections`, one coroutine per connection, conversations and messages in the database | connect, one turn per text, send, disconnect | LLM answers, database, chat page |
| LLM answers and retrieval | `backend/services/llm_service.py` | a thread pool; the caches of the knowledge base | answer, hybrid retrieval, prompt assembly | knowledge base, vLLM, Jarvis |
| Speech correction rules | `backend/services/speech_correction_service.py` | table of rules | create, update, upsert group, delete, apply | administration pages, speech endpoint |
| Prompt storage | `backend/services/assistant_prompt_storage.py` | a file and a column per assistant | save, read, delete | assistants |
| Notebook bindings | `backend/services/assistant_notebook_service.py` | a table of bindings | replace, read | Jarvis |
| Conversations, integration API | `routers/conversation.py`, `routers/integration.py` | reads the chat's tables | list, latest question and answer | external programs |
| Accounts | `routers/auth.py`, `routers/mfa.py`, `services/auth_service.py` | user rows, tokens | login, refresh, second factor | HTTP client |
| Chat client connection | `frontend/chatbot_ui/src/services/ws/createWsClient.ts` | current socket, address, status, attempts, reconnect timers, one resolver | connect, disconnect, wait until connected, reconnect | chat server, chat page |
| HTTP client | `services/api/httpClient.js` | tokens, one refresh in progress, requests waiting for it | request, refresh | accounts |
| Chat page | `feature/chat/ChatInterface.jsx` | connection status, indicator, sending flag, recorder and stream, text to be read | send, record, reconnect | connection, microphone, speech output |
| Speech output | in `ChatInterface.jsx` and, written again, in `components/EmbeddableChatInterface.jsx`; `backend/routers/tts.py` | number of the newest text, audio element, timers | queue, speak, interrupt, silence | browser's audio and synthesizer |
| Embedded page | `components/EmbeddableChatInterface.jsx`, `pages/EmbedPage.jsx`, `public/embed.js` | the chat page's, recognition, idle video | the chat page's, start of the microphone by key or by the parent page | parent page |
| Frame and session | `components/AppLayout.jsx`, `context/AuthContext.jsx`, `context/AssistantContext.jsx`, `pages/LoginPage.jsx` | token, user's data, login stage, list and choice of assistants | log in with two factors, log out, choose, change profile | HTTP client, accounts |
| Administration pages | `feature/knowledge/*`, `feature/setting/*`, `queries/*` | dialogs, fields, cached answers | edit and add documents, edit and add assistants | knowledge base |
| Speech correction in the browser | `feature/speechCorrection/*`, `feature/chat/ConversationManagement.jsx`, `hook/useSpeechCorrection*`, `utils/speechCorrectionEngine.ts` | cached list of rules, modals | edit, create from a conversation, apply | rules on the server |
| Shell of the server | `main.py`, `models/*`, `middleware/*` | | start and stop hooks | all |

### What is hard, and what must hold

* **Job queues.** Callers time out while their jobs stay queued or run, and a
  running function cannot be stopped. A job must run at most once, no more
  functions may run than there are workers, a caller must get the outcome of
  its own job once, and an abandoned or failing job must not block the others.
* **Knowledge base.** One upload changes four places (row, store on disk, cached
  store, source file) in a request that waits for a lock, a database and a
  thread in between, while chat turns load the store without the lock. Every
  row must have its vectors and every vector its row; chat must read what was
  last written; what was deleted must be gone; nobody may wait for ever.
* **Chat server.** A handler finds out late that its client has gone; the client
  comes back on a new connection that shares the registry's entry with the
  old one; an LLM call takes long and may fail. Replies must reach the page that
  asked; a text must be answered or apologised for; the conversation in the
  database must read as it went.
* **Chat client.** Sockets end with an event that comes after they were replaced;
  timers fire after what they were set for is over. One socket at most may be
  live, "connected" must be true, and a lost connection must be made again,
  unless the page has let go of it.
* **HTTP client.** Requests that fail during a refresh wait for it: each must be
  repeated once, or rejected.
* **Pages.** A React callback sees the state of the render it was made in; a closed dialog
  stays mounted with its timers and the answers it waits for; a cache answers at once
  and is corrected later; audio elements, recorders and recognition report their ends
  late. What is shown and sent must belong to the text, document, assistant and
  user it is shown and sent for, and what was interrupted must not go on to its next part (that it is silent at once, the code does not achieve: section 5).
* **Speech rules, notebook bindings, prompts.** Check-then-act and delete-and-insert
  in concurrent transactions; a file and a row written without a common
  transaction; three programs that are to apply the same rules in the same order.
* **Latest question and answer.** Pairing must not attach an earlier answer to a
  question whose turn is in progress.

`PROJECT.json` lists every hazard at its line.

## 2. Modules

| Module | Stands for | Uses |
|---|---|---|
| `JobService` | what a job queue promises its callers | |
| `RagQueue`, `MCRagQueue`, `RagQueueProofs` | the queue; its run; its theorems | implements `JobService` |
| `KnowledgeBase` | what the knowledge base promises those who list its files | |
| `KnowledgeStore`, `MCKnowledgeStore`, `KnowledgeStoreProofs` | the knowledge base of one assistant; its runs; its theorems | the queue, as `JobService`; implements `KnowledgeBase` |
| `ChatLink` | what the connection of a chat page promises it | |
| `WsClient`, `MCWsClient`, `WsClientProofs` | the connection; its runs; its theorems | implements `ChatLink` |
| `ChatTurns` | what a chat page and the server promise each other about questions and turns | |
| `ChatSession`, `MCChatSession`, `ChatSessionProofs` | the server's side of one customer's chat; its runs; its theorems | implements `ChatTurns` |
| `HttpClient`, `MCHttpClient`, `HttpClientProofs` | requests, token refresh, login and logout on a page | |
| `ChatPage` | what a chat page may send, its indicator | `ChatLink`, `ChatTurns` |
| `SpeechOutput` | answers read aloud, in the chat page | |
| `EmbedSpeech` | the same in the embedded page | extends `SpeechOutput` |
| `ChatMic` | the chat page's microphone and its restart | what it sees of `ChatPage`, `SpeechOutput` |
| `EmbedChat` | the embedded page: recognition, idle video, parent page | extends `ChatPage` |
| `KnowledgePages` | the dialogs that edit and add documents | |
| `AssistantForm` | the form of an assistant and the queries that fill it | |
| `Shell` | page loads, login, whose data is shown, the chosen assistant | |
| `RulesPage` | the rules of speech correction in the browser and the two transactions that write them | |
| `SpeechEngine` | applying the rules, as each of three programs does it | |
| `MCPages` | the run of the pages | all of these |
| `VoiceProofs` | theorems about the chat pages | `EmbedSpeech`, `ChatMic`, `EmbedChat` |
| `AdminProofs` | theorems about the other pages | `KnowledgePages`, `AssistantForm`, `Shell`, `RulesPage` |
| `PagesProofs` | the theorem about the pages together | `MCPages`, `VoiceProofs`, `AdminProofs` |

## 3. Correspondence with the code

**`RagQueue`** (`rag_queue.py`). `stage` is the worker tasks' life; `queue` the
`asyncio.Queue`; `holds[w]` the job whose function worker `w` awaits; `thread[j]`
what the pool did with it; `future[j]`, `call[j]` the two ends of a call. The
code between two awaits is one action: `Enqueue` is `enqueue_rag` up to its
`wait_for` (workers started on demand, 429 when full), `Take` and `Settle` are
the worker loop before and after the executor, `Answer` and `Expire` the two
ends of `wait_for`, `Start` and `Stop` the hooks in `main.py`. uvicorn runs the
shutdown hook after the requests in flight, hence the guard of `Stop`.
`stt_queue.py` (40-134) is the same code under other names; whatever is proved for any
number of workers and any length holds for it.

**`KnowledgeStore`** (`vector_service.py`, `routers/assistant.py`). A request
`Arrive`s (the router's queries open its transaction), waits for the write lock of
its process, opens the store (`OpenUpload`, `ClearFiles` when the assistant has no
rows, `OpenItem` for update and deletion), and submits its job (`Submit`,
`Refused`) or removes the file (`Remove`). The job runs in a thread: `StartJob`,
`Store` or `StoreNotWritten`, `EndJob`. `Commit`, `JobError` and `Timeout` are the
three ways the request goes on. `ChatMiss` and `ChatLoad` are a chat turn that finds no cached
store and loads it in its own thread. A FAISS store in memory is an object of a
`heap`, because the code mutates it in place: the cache, a request and a job that hold
the same object see each other's changes. Vectors, texts and row
ids are the request that made them. `SnapshotReads` chooses between reads that see the last
commit and reads of a transaction's snapshot (MariaDB's REPEATABLE READ, which
`models/database.py:32` leaves in place).

**`KnowledgeBase`** is the same seen by those who list the files: `texts` the texts under a name, `wish` and
`answer` what each call asked and was told. `Put` and `Delete` are one step each; `Fail` changes nothing that is listed.
`KnowledgeStore!Atomic` maps the rows to `texts` (`listed`), a request's endpoint and file to its wish (`wished`), and how far
it is to its answer (`told`): a call takes effect in `Commit` or `Remove`.

**`WsClient`** (`createWsClient.ts`). A socket goes through connecting, open,
closing and closed; `sock` remembers every socket whose close event has not yet
been delivered, because the handlers of a replaced socket are still attached.
`timers` counts reconnect timers: the code never clears one. `TimerFiresOnNull`
is a timer that fires after `disconnect` (`connect(null)`). `resolver` is the one
registration of `waitUntilConntected`, `waiter` its callers.

**`ChatLink`** is the same seen by the page: one `socket`, the status `shown`, whether close events of replaced sockets
are to come (`lateClose`), and of those who wait whether one is `registered` and whether others are `orphaned`: a second
`waitUntilConntected` calls the first one's resolver with an error, and that resolver clears the registration, the
newcomer's included. `WsClient!Promise` maps the current socket, whatever identity it has, to `socket`, with "lost" for one that the
network is closing.

**`ChatSession`** (`websocket.py`). `active` is the registry's entry for the
customer, `pc` where each connection's handler stands, `link` what the server
knows of the connection and `client` whether the client is there; they differ
until `Detect`. An action takes a handler from one await to the next:
`Receive`, `SaveText`, `Reply` or `ReplyFails`, `Answer`, `Apology`. `Apologise` is the
`except Exception` of the loop, `End` its `except WebSocketDisconnect`. What
sending to a closed connection does is starlette's (0.40) and uvicorn's (0.32)
behaviour, stated in the module's head. `Say` has no guard for the indicator: what is
typed waits for it, what is spoken does not (`ChatPage`'s `SendSpoken`).

**`ChatTurns`** is the same seen over the connection a page is on: `asked` the texts sent over it whose turn has not ended, `inTurn` whether
an "@@@" was shown and its "###" not yet. `ChatSession!TurnsPromise` maps the connected client to `online`, what its handler has not read, plus the text of a
running turn, to `asked` (`Open`), and the page's indicator to `inTurn`; in `ChatPage` they are variables, and `online` is an open socket. `Begin` and `End` are the
server's, `Connect`, `Ask` and `Drop` the page's or the network's.

**`HttpClient`** (`httpClient.js`, with `storage.js` and `AuthContext.jsx`).
Each request's place stands for its promise: "sent" is on the wire, "waiting" is in
`failedQueue`, "refreshing" is the one whose handler awaits `/auth/refresh`.
`Move` is a change of place; a request that is sent takes its token from
`localStorage`, as the request interceptor does, repetitions included.
`SignOut` clears the storage and asks for a page load, which `Unload` performs:
until then the handlers of other requests still run. Logout and login change the route
without a page load, so `isRefreshing` and the queue live on. Tokens are
numbers and expire in the order in which they were issued. The real
application makes many requests; each one of the model is one call of
`httpClient` with its repetitions.

**The pages.** A module has one page, with the server and the browser around it: an
answer may come or fail at any time, a timer may fire whenever it is set. The state of
a React component is a variable; what a callback saw when it was made is carried with it.

**`ChatPage`** (`ChatInterface.jsx`, `wsChatUi.js`, `WsConnectionBar.jsx`). The connection is an instance of `ChatLink` with
an address throughout (`wanted <- TRUE`), each of whose steps is an action of the page together with what the page's effect makes of it. `shown` is
`ws.status`, `socket` the truth; the close event of a replaced socket (`lateClose`) sets the status too. A text that is sent while there is no
connection waits as the code has it: the first is registered and sent by `SocketOpens`, a second fails it and is left to `WaitFails`. `MaySubmit` is `canSubmitChatMessage`; `Submit` is the rest of `sendMessage`
with `waitUntilConntected`. `SendTyped` goes through the guard of the present render,
`SendSpoken` through that of an earlier one, so it has none here. `TurnBegins` and `TurnEnds` are the
server's "@@@" and "###", taken from `ChatTurns`. `misled` remembers that a late close event hid an open
connection.

**`SpeechOutput`** (`ChatInterface.jsx` 221-248, 493-897). A call of `speakText` is a
number; `phase` says where its promise, its element, its utterance or its timer stands, and
`Newest` is the comparison that every callback makes, or fails to make. A text is a sequence of words,
marks and what is not read; `SegmentCount` cleans and cuts it. `Stopped` is `stopCurrentAudio`
on whatever element is the current one. A newer text takes the element and the pause's timer from the older ones
(`InterruptedStays`); what these have begun may still sound, by `Play`, `Fallback` or an utterance that runs: `NewTextInterrupts`, which is what the comments at 732 and 741 say, is false (section 5). **`EmbedSpeech`** has the three places in which
`EmbeddableChatInterface.jsx` differs.

**`ChatMic`** (`ChatInterface.jsx` 250-390, 781-797). A *view* is what a callback sees of
"may send" and of `isListening`: `effect` is the view of the effect that subscribed to the server's
messages, `reader` of the speech it started, `restart` of the timer after that speech, `micReady` of each
recorder. `MicGranted`, `SilenceStops`, `TracksEnd`, `RecorderStops` are `getUserMedia`, the loop that
listens for silence, an unplugged device, and `onstop`. `MicFails` is an error after `getUserMedia` has given a stream
(no recorder for it, no audio context, `start` refused): what the refs were given stays in them, and `astray` remembers that this happened while another recorder was listened to.

**`EmbedChat`** (`EmbeddableChatInterface.jsx`). `hearing` is `isListening`, `seen` what the
effects have made of it (`EffectsRun`). `OnStart` to `OnError` are the callbacks of recognition, set once by
the first render's effect. `recent` says that the microphone was last
activated less than three minutes ago; `IdleTick` is the timer of each second. `unsent` remembers that a transcript was dropped
while the page could send.

**`KnowledgePages`** (`TextInputDialog.jsx`, `FileUploadDialog.jsx` and the two pages that
open them). A text is the document it came from, or one of `Entries`, which stand for what is typed and for files. `DropFile` is possible
during an upload, `SelectFile` is not; `dropped` remembers a file that took the place of the one that is sent. `closers` counts the timers
that close a dialog a second and a half after a success; `cut` remembers that it was closed
while something it awaited was still to come (by a timer or by the failure of another answer: the user cannot).

**`AssistantForm`** (`EditAIAssistantDialog.jsx`, `AIAssistantManagement.jsx`,
`queries/assistant.ts`). A field is the assistant it was filled from. `details` and
`bindings` are the cache, the variables ending in `Asked` the requests under way; an answer is applied
only to the form that shows its assistant, because the queries' key changes with the form.
`awaited` are files being read and the template, which fill whatever form is open.

**`Shell`** (`LoginPage.jsx`, `AuthContext.jsx`, `AssistantContext.jsx`, `AppLayout.jsx`).
Tokens, data, lists and choices are the users they belong to. `attempt` is the request of
the login page, `answers` the requests for a user's data. `late` remembers that such an answer came
to a session that was not its own; a logout or a page load ends that.

**`RulesPage`** (`SpeechCorrectionRulesPanel.jsx`, `ConversationManagement.jsx`, the hooks and
queries, `speech_correction_service.py` 116-166 and 250-377). `rules` is the server's table, `cached` the
query's list, `ruleFetch` the fetch under way and what it has read. `missed` remembers a write that is not, or
may not be, in the list that comes: its answer was lost, or the fetch had been read before it.

**`SpeechEngine`** (`speech_correction_service.py` 27-32 and 411-425, `speechCorrectionEngine.ts`,
`ChatInterface.jsx` 349-357): the same replacement under three orders of the rules.

**`MCPages`** puts the pages side by side: `chosen` says which is open, and only it moves. They
share no state but what `EmbedChat` and `EmbedSpeech` extend, so every behaviour of one page is
explored and no product of two.

### Mutants

Next to a definition `X` stand definitions `X_SomeSlip`: `X` as a plausible error
in the code would have it (a guard dropped, a reset forgotten, an order
swapped). No specification uses them. For each property of a passing run,
`PROJECT.json` names one with which TLC finds the property violated, so that a run
that passes says something about the code.

## 4. Runs

| Run | Instance | Shows |
|---|---|---|
| `rag_queue` | 4 calls, 2 workers, room for 2 | one place per job, bounded pool, final outcomes, every call answered, every accepted job started, `JobService` implemented |
| `knowledge_calm` | 4 requests, 2 files, 1 process, nothing fails, reads of the last commit | uploads, updates, deletions and chat in any interleaving leave rows, store, cache and source files in agreement, and deletions take effect |
| `knowledge_faults` | 2 requests, 2 files, 1 process, all faults | with timeouts, refusals, failures and crashes: `KnowledgeBase` implemented, so that for those who list the rows each call is one step or none and a file has one row; rows only from jobs that wrote the store; every request answered |
| `knowledge_snapshot` | 3 requests, snapshot reads | *violated*: a row loses its vectors (finding 1) |
| `knowledge_replace` | 3 requests, failing job | *violated*: a deleted file stays in the store (finding 2) |
| `ws_client` | 3 sockets, 2 addresses, 3 waiters, 2 attempts | one live socket, retries pending, every wait ends, `ChatLink` implemented (with it an honest "connected", and only the registered waiter told), no deadlock |
| `ws_client_disconnect` | the same | *violated*: a socket is made after `disconnect` (finding 3) |
| `chat_session` | 2 connections, 2 texts each, database and LLM errors, the next connection made after the last handler ended | registry without dead entries, ordered history, every text answered while the user stays, `ChatTurns` implemented (one turn at a time, for a question asked over this connection, and the indicator goes out) |
| `chat_session_reconnect` | the same, reconnecting early, no errors | *violated*: a live page that nothing is sent to (finding 4) |
| `http_client` | 3 requests, 5 tokens; application or embedded page | one refresh at a time, nobody left waiting for one that is over, no endless repetition, every request settled, with one named exception |
| `pages` | 3 texts read aloud, of no or two segments; 2 recorders; 1 request for the microphone; 3 documents, 2 texts or files to enter; 2 assistants; 2 users; 2 wrong texts and a keyword, 2 writes at a time | a text that is interrupted gets no further segment; a microphone shown as on is one; the idle video never covers a page that listens; the editor keeps to its document, and a dialog keeps what it sends unless the user drops another file; the form of an assistant sends its own; a session shows its own user; the list of rules follows the writes; the indicator goes out |
| `spoken` | the embedded page alone | *violated*: what is said is not sent although the page could (finding 5) |

**Why these bounds.** `rag_queue`: with two workers and two places, four calls fill
both and leave one that is refused, or one in the queue behind a job whose caller has gone.
`knowledge_calm`: a request is done once, and every property is about what one
request does to another's row; four requests are an upload, its replacement, a
deletion and one for the other file. A process may be restarted and chat
may load the store at any point. With faults two requests are
enough for one to fail in each of its steps while the other waits. `ws_client`: a
current socket and two replaced ones with their close events to come; a
registered waiter, the one that displaces it, and the one after. A closed socket's name is
used again, so a run is as long as one likes. `chat_session`: two connections
are a handler and its successor, two texts a turn and the one sent behind it,
before the indicator shows or, spoken, afterwards. `http_client`: one request
that refreshes, one that waits for it and one that comes back when it is over; five tokens are the
first and one more than there are requests to refresh it, so that a
request repeated without end would exceed its bound.

`pages`: three texts are one that is interrupted, the one that interrupts it, and one that
interrupts both; a text of two segments has a pause to be interrupted in, one of none ends at once. Two recorders are what
a restart beside a click can make. Three documents are the one edited, the one edited before,
and the one whose text is late; of two entries one is sent and one takes its place; two closing timers the most that successes in quick succession leave. A form needs
another assistant's and a new one's; a session another user's. With two wrong texts one may be
another group's; `RulesPage` has also been checked alone with two keywords (26 million states), which
takes too long for a run. Texts are no longer than three pieces in the queue; that both ways of cutting
count the same segments is evaluated for all texts of up to four pieces (`SameSegments`) and proved for every text (`SameCuts`). `EngineAgrees`,
`EngineDiffers`, `PageAgrees` and `PageDiffers` are evaluated for all pairs of rules over words of one or two
letters and all texts of up to three.

Deadlock is checked for `WsClient`, whose page never ends. Elsewhere a system that has
served every request of the instance rightly stops.

**Symmetry** is used only in runs without liveness properties.

### Fairness

* `RagQueue`: weak fairness of the workers' steps, of the end of every function
  (its LLM and HTTP calls have timeouts) and of the caller's end (`wait_for` has
  a timer). None for `Enqueue`, `Start`, `Stop`.
* `KnowledgeStore`: weak fairness of a request's and a job's steps; strong
  fairness of taking the write lock, because `asyncio.Lock` serves its waiters in
  order. None for failures, chat, restarts or new requests.
* `WsClient`: timers fire, and the browser ends every opening and closing with an event.
* `ChatSession`: the event loop resumes what is ready, the LLM call ends (its client
  has a timeout), uvicorn's pings find dead connections. Nobody has to connect, write or leave.
* `HttpClient`: the browser ends every call with an answer or an error and performs the
  page load it was told to. Nobody has to send, to log in or out; no token has to expire.

* `ChatPage`: the server ends a turn it began while the connection stands (`ChatTurns`' `TurnsEnd`, which `ChatSession`'s
  `TurnsPromise` has), and the browser ends every opening and closing with an event and delivers the late
  close events. Nobody has to reconnect, and no socket has to open. The other pages state no liveness: a server that never answers leaves their dialogs waiting, as it should.

## 5. Findings

1. *Knowledge base, snapshot reads.* The transaction's snapshot is taken before
   the write lock (`routers/assistant.py:118`, `vector_service.py:546`). A second
   first upload that waited for the lock counts no rows and clears the store the first has
   written. `docs/knowledge-base-access-control-todo.md:107` asks for the absence of
   such races.
2. *Knowledge base, failed replacement.* Old vectors are deleted in memory before the
   job that writes the store (`vector_service.py:576`). If it fails, a later deletion
   fails in FAISS, the exception is logged (816), and the files keep the vectors
   of a file that the user has deleted (790 says they are removed).
3. *Chat client.* A reconnect timer survives `disconnect()`
   (`createWsClient.ts:94`); the test `createWsClient.test.ts:165` says that
   disconnecting stops reconnection, and tries it with no timer pending.
4. *Chat server.* A lost connection's handler that ends after the page has
   reconnected deletes the new connection's registry entry (`websocket.py:137`);
   the page gets nothing more, its texts are answered into the void.
5. *Embedded page.* The callbacks of speech recognition are set by an effect of the first
   render (`EmbeddableChatInterface.jsx` 270-418); its `sendMessage` sees the connection as
   "disconnected" for ever and drops every transcript. The comments at 315 and 953 say that it is sent.

Against the code's own comments, without a run of its own: *speech output*. The comments at `ChatInterface.jsx:732` and 741 say that a new message interrupts the
old playback and that the new number makes the old sequence invalid. What is interrupted may sound all the same: a fetch that fails, or a pending
`play()` that the interruption itself aborts, is spoken by the synthesizer whatever its number (848-872), an utterance that runs is not silenced
(684-693), and an element that was made and not yet played is played (841-846). `SpeechOutput` states the claim as `NewTextInterrupts`; added to the invariants of
`MCPages.cfg` it is violated after three steps (a text is asked for, another without anything to read interrupts it, the first one's fetch fails and is spoken). What does
hold, checked and proved, is `InterruptedStays`: the older text gets no further segment.

Met while modelling, and without a run because no text of the repository promises
otherwise: in `ChatSession`, an error while apologising to a client that has gone
leaves a handler in a loop without an await (`LoopRuns` is false with the
faults of `chat_session`); in `KnowledgeStore`, a request timeout, or two processes,
break the agreement that `knowledge_calm` shows; in `WsClient`, a late close event
sets the status to "disconnected" while the new socket is open; in `HttpClient`, a 401
without a refresh token returns before the `finally` that resets `isRefreshing`
(`httpClient.js:92`), and on a page that is not left for it (embedded, or `/login` after a
logout) later requests that get a 401 wait for ever: `Settles` excepts this state
(`Abandoned`) and nothing else. A refresh that ends after a logout or a new login
writes to the storage of the other session. And read, not checked: the client posts
the refresh token in a JSON body (`httpClient.js:99`), the server takes a query
parameter (`routers/auth.py:110`), so this server answers every refresh with 422;
`HttpClient` models the client against any server.

Of the pages, likewise:

* The order in which rules are applied. `speechCorrectionEngine.ts:3` says that it agrees with the
  server's `_rule_sort_key`; of rules with equal priority and length the server takes the oldest first, the
  browser the newest (`EngineDiffers`). The chat page takes the list as it comes, by keyword, and sorts nothing
  (`PageDiffers`), although it imports the engine.
* `ChatInterface.jsx`: the end of an older audio element stops a newer one's (825, before the numbers
  are compared); leaving
  the page does not change the number, so what is being fetched is still played (884). The microphone that restarts after an
  answer sees no recorder, so a click may make two, of which the first runs unseen until the other ends;
  what it hears is dropped when the subscription's render could not send. A microphone whose recorder, audio context or start fails (267-379)
  is left on, and if another one was listened to, the page can no longer stop that one (`astray`).
* `KnowledgeExistingPage.jsx:309` calls `fetchKnowledgeItems`, which does not exist, in a dialog that page never opens. A dialog
  that was opened again within the second and a half after a success is closed by the timer (`TextInputDialog.jsx:115`), even
  while it saves. A file dropped during an upload (`FileUploadDialog.jsx:62`) takes the place of the one that is sent, so that a failed upload is repeated with another file.
* `EditAIAssistantDialog.jsx`: saving before the notebooks' bindings have come replaces them by none (498); a file chosen in one form and
  read late is sent with the next; an answer that comes behind the form overwrites what was typed;
  an update whose second call fails is reported as failed.
* `AuthContext.jsx:60`: an answer with a user's data that comes after a logout is written to the storage, and shown to the next
  user until the next page load or logout. If it fails, the frame stays without a user.
* Rules: a new rule for a keyword that exists deletes the keyword's other wrong texts
  (`SpeechCorrectionRulesPanel.jsx:63`, `speech_correction_service.py:334`); a list read before a write and arriving
  after it counts as fresh; `force` (`useSpeechCorrectionRules.ts:135`) is passed and never read.

## 6. Proofs

TLAPS checks these for every value of the constants, from the named assumptions
in the modules (for instance `None \notin Conns`, a queue length and a number of texts in `Nat`).

* **`RagQueueProofs`.** The invariant is `TypeOK`, `OneCopy`, `PoolBound` and
  `Agreement`; the last says which future, place and thread state go
  together, and without it neither of the others is inductive: that a job in
  the queue has not started follows from where jobs come from, and that
  a worker that settles frees a finished function from what it holds.
  `Invariance` is the safety invariants, `Finality` the action property
  `FutureIsFinal`, and `Refinement` says that the queue implements
  `JobService`: initial states map to initial states, and each action to a step or a
  stutter.
* **`WsClientProofs`.** `Connection`: the five invariants of the run are inductive
  together (`ConnectedIsReal`, `ResolverWaits` and `NoSocketNoStatus` beside those of the run). `OneSocket` carries the others: `onopen` runs on a live socket, so
  on the current one, and "connected" is said of it. `LinkPromised` is the refinement of `ChatLink`: an event of the current socket maps to
  `Opens`, `Lost` or `Closes`, the close of another to `LateCloses`, whichever replaced socket it is; that the close events
  to come are those of others, and that a registered waiter is one who waits, is what the invariant is for.
* **`ChatSessionProofs`.** `Session`: type correctness, `EntryAlive` and `HistoryOrdered`,
  for any faults and with pages that reconnect at any time. `HistoryOrdered` alone is
  not inductive: a handler between reading and saving, or between saving and
  replying, owes the database a text or a reply, and `Owed` counts it. A handler that
  hangs in a turn keeps its place without owing anything. That the counts stay
  within `MaxTexts` (`TypeOK`) depends on this argument. `TurnsPromised` is the refinement of `ChatTurns`, for any faults, under `~Overlap`: while a page
  is connected its entry is the registered one, the server takes the connection for alive, no other handler runs, and the indicator is on in exactly the awaits between
  "@@@" and "###" (`OneSession`); so a step of the handler is `Begin`, `End` or a stutter, and the steps of a handler whose page has gone are stutters. Without the hypothesis TLC
  finds it violated: a turn of the earlier connection shows its "@@@" on the new one, over which nothing was asked.
* **`HttpClientProofs`.** `Refreshing`: type correctness, `OneRefresh`,
  `NobodyLeftBehind` and `NoStorm`. `NoStorm` is inductive once only finished refreshes
  are counted (`Spent`): a refresh that succeeds is the only step that sends
  anything again, and it moves its own request into `Spent`, for good. The library's
  theorems about finite sets do the counting.

* **`KnowledgeStoreProofs`.** For any requests, files and objects; the invariant is built in four layers, and each theorem uses the layers
  its hypotheses allow.
  `Base` is `TypeOK` with `Locking` (a process's lock is held by exactly the request that runs under it), `Progress`
  (which stages of a request, its call and its job go together) and `RowsStored` (what a row points at has been written to the store). It is
  inductive under any faults, processes and snapshots, and needs `NewIsNew`: there are more objects than references, so the object a
  new store gets is nobody else's, which is a counting argument with the library's theorems about finite sets. From it follow `TypeCorrect` and the action property
  `RowsFollow`.
  `RowsInv` adds what holds of the rows with one process that reads the last commit (`OneProcess`, `~SnapshotReads`), whatever fails:
  ids, names and vectors are in one row each, and what the holder of the lock has found is still so when it commits. From it follow `OneRow` (a
  name has one row) and the refinement `CallsAreAtomic`: `Commit` maps to `Put`, `Remove` to `Delete`, what ends in an error to `Fail`, a
  crash to `Fail` of all the process had begun, and everything else to a stutter.
  `CopiesInv` relates the copies of the store: before its store step a request's object is the disk less what an upload
  took out of it (`Taken`), afterwards it is the disk, and the cached object is the disk outside the lock. It is inductive with one process and `Faults \subseteq {"crash"}`, with snapshots
  or without, and gives `ChatReadsDisk` and `DeletedStaysGone`.
  `ContentsInv` says what the disk holds at each point of a request (`DiskFollows`) and whose text the files hold (`TextFollows`). With
  one process, no snapshots and `Faults = {}` the four are inductive together (`Sound`), and `StoreBacksRows`, `StoreHasNoOrphans` and `TextIsEmbedded` follow.
  The hypotheses are what the code needs: TLC finds `RowsBacked`, `NoOrphans` and `SourceMatches` violated with each single fault; `ChatFresh` with each but a crash,
  `DeletedIsGone` with each but a crash and a job that fails late (this last case is checked and not proved); `RowsBacked` with snapshot reads; and `ChatFresh` with two processes.
* **`VoiceProofs`.** `Interruption` and `EmbedInterruption`: `InterruptedStays`, that an older call has neither the element nor a timer, needing of the types
  only that numbers and phases are what they are (not that it is silent, which is false: section 5); no step gives a timer or the element to a call that is not the newest, and a new text
  takes both away. `SpeechTyped` and `EmbedSpeechTyped` are the types themselves, which are not obvious: that the segment played is one of its
  text's needs what is known of a call before and after its text was counted (`Counted`, `Early`, `Late`). `SameCuts` is about the two operators that cut a text into segments: for
  every text they begin at the same places. The argument is about the last readable place before a place (`LastBefore`), not an induction over the text.
  `Listening`: `ListeningIsReal`, because only `MicGranted` begins to listen, with the recorder and
  the stream it sets, and every end of any recorder ends it, and a recorder that fails sets them only with `astray`; with the types, of which the views of earlier renders are the larger part (`MicViews`). `NeverCovered`: `ListeningShowsChat` is inductive
  with one more part: while the page listens and the effects have not seen it, the microphone's activation is recent,
  so the idle timer has nothing to do yet; with the types.
  `Indicator` and `EmbedIndicator` are what safety says of the indicator. `IndicatorClears` is liveness; its kernel is `ClearingAhead`: while the indicator is shown, a turn runs, or
  a close event is to come whose effect will not be skipped because the page is shown as disconnected already. It is inductive with `AskedOverOpen` (nothing is asked and no turn runs without a connection) and
  `OpenIsShown`; each of these has the exception `misled`, and no other. `SendingWaits` says that the input is blocked only by a text that is registered.
  `TurnsKept` and `EmbedTurnsKept`: what the pages do keeps to `ChatTurns`, whose server's part they take for granted and `TurnsPromised` proves.
* **`AdminProofs`.** `Editing`: type correctness and `EditorOwn`, with `Awaiting`: unless the editor was cut, the one text that is awaited
  is the open document's, and nothing is saved meanwhile; a dialog that saves is open, with what is sent or a file `dropped` since, unless it was cut. `Saving`: type correctness and `FormMatches`, with `Filled` (an open form is its assistant's, or the
  answer it waits for is) and `SentOwn`.
  `OwnSession`: type correctness and `SessionOwn`, with what the login page, a page load, a session and its absence each have
  (`LoginPage`, `LoadsOwn`, `LoggedIn`, `LoggedOut`). A request of the login page finds nobody logged in when it is answered, because nothing else logs in; that the
  chosen assistant is the user's depends on the list being emptied when the user's data changes. `Freshness`: type correctness and `RulesFresh`, with `ListTrue`: once every write that was made has been
  told, a list that counts as fresh is the server's, and so is one that has been read. That no more writes are under way than allowed is a count of a finite set.
* **`PagesProofs`.** `EveryPage`: the eight safety properties of the `pages` run for its own specification. A step of the whole is a step of the page that is open
  (`OnePageSteps`), to which the lemmas of the other two modules apply, and the rest keeps what it has because it stands still; the two pages that read aloud share their state, and so do the two that chat.

Every safety invariant, action property and refinement of a passing run is thus the statement of a theorem, but for the safety half of `TurnsPromise`, which `TurnsPromised` states
without the name. Only model-checked: all liveness (`Answered`, `AcceptedRuns`, `Served`, `WaitEnds`, `EveryTextAnswered`, `TurnsEnd` in
`TurnsPromise`, `Settles`, `IndicatorClears`), which the prover does not do under fairness; `DeletedIsGone` with jobs that fail late; and what
`SpeechEngine` computes (`EngineAgrees`, `PageAgrees`), which is recursion over data. The theorems
about `Promise` and `Atomic` concern safety, which is all `JobService`, `ChatLink` and `KnowledgeBase` state; that every call of the last is answered is `Served`. `StoreBacksRows`, `StoreHasNoOrphans`
and `TextIsEmbedded` hold where nothing fails, as the run that checks them has it, and `TurnsPromised` where no page reconnects early; a page that does is finding 4.

## 7. Not modelled

* The two files of a store and the lock on disk (`vector_service.py` 316-330): `KnowledgeStore` has one variable for
  them. What a pair of files from two writes does when it is loaded is FAISS's affair.
* Several server processes: `KnowledgeStore` allows them, its runs have one, which is what the server starts
  with unless told otherwise; two break the agreement of `knowledge_calm`.
* Races of two transactions on the rules of speech correction, single creation, update and deletion of rules,
  replacement of notebook bindings: one statement or two each, whose outcome the database's isolation decides, and `DATABASE_URL` leaves
  the database open.
* The files of prompts: one write of a file before one commit.
* Retrieval (`llm_service.py` 98-188): arithmetic on scores that are real numbers, without a state.
* Conversations and the integration API: queries, and a row written by one request.
* A composition of page and server in one state space. They meet in two contracts instead: the page's connection is `ChatLink`, which `WsClient` is proved to implement, and the turns are `ChatTurns`, which
  `ChatSession` is proved to implement and the page to respect. That a message takes time on its way is not in them: "@@@" reaches the page when it is sent.
* Of the pages: lists, search, filters, deletion from lists, cropping, layout, the menus of the frame, password change and registration, which
  keep one field each and wait for one answer.
* Parsing and splitting documents, embedding, summaries, speech recognition, the speech service, the language model and
  Jarvis (libraries and services; a call is an outcome or a failure); the database's
  internals (a transaction commits or raises, and reads the last commit or a snapshot); the server's side of
  login and second factor (one row per request, tokens of a library); logging, audit and formatting.
