# A TLA+ model of DocumentAI

DocumentAI is a question-answering service over a user's own documents: a Flask
backend (`src/backend`), a React client (`src/frontend`), MongoDB for accounts,
chats and documents, FAISS (or Qdrant) and BM25 indexes on disk, a cache in
memory or Redis, Celery for ingest, and Stripe for buying credits. This
directory holds TLA+ models of the parts whose correctness depends on the order
in which things happen, the TLC runs that check them on small instances, and
TLAPS proofs of the results that should hold for every instance.

Paths below are relative to `src/backend` unless they start with `frontend`.

## 1. The system

| Part | State it keeps | Operations |
|---|---|---|
| Credits and charging (`routes/v1/rag_chat.py`, `rag/database.py`) | `users.credits`, saved exchanges, `CREDIT_BURN` | `_check_credits`, `_persist_chat_messages`, charge at the end of `chat`, `chat_stream`, `chat_upload` |
| Billing webhook (`routes/v1/billing.py`) | `processed_events`, its unique and TTL indexes | verify, create indexes, insert event, read balance, grant |
| Corpus and ingest (`routes/v1/rag_chat.py`, `documents.py`, `tasks/ingest_tasks.py`, `rag/ingest.py`, `storage.py`, `rag/user_store.py`) | rows of `db.documents`, raw files, `storage.json`, job records | upload, delete, re-ingest |
| Index files and their caches (`rag/vector_store.py`, `rag/hybrid.py`) | `faiss.index`, `metadata.json`, `bm25.pkl`; one cached copy of each per web process | upsert, delete, load, search |
| Job queue (`tasks/celery_app.py`, `ingest_tasks.py`) | messages, job records | enqueue, run, dead letter, poll |
| Answer cache (`cache.py`) | LRU or Redis: answers, semantic entries, semantic index | exact and semantic get and set, `invalidate_user` |
| Chunking (`rag/chunking.py`) | none | recursive split, `_merge` |
| Retrieval (`rag/retrieve.py`, `hybrid.py`, `rerank.py`) | the caches above | vector and BM25 search, rank fusion, rerank |
| Generation (`rag/generate.py`, `resilience.py`) | none | model call with three attempts |
| Accounts (`rag/auth.py`, `routes/v1/auth.py`) | `users` | register, log in, Google sign-in |
| Chats and feedback (`routes/v1/chats.py`, `feedback.py`) | `chats`, `feedback` | create, list, append, delete, upsert |
| Client (`frontend/src/context`, `frontend/src/components`) | token, user, chats, selected chat | verify, fetch, create, delete, submit, stream |
| Wiring (`app.py`, `settings.py`, `extensions.py`, metrics, logging) | configuration | start-up |

How they meet. A chat request reads the balance, asks the answer cache, on a miss
retrieves from the indexes and generates, stores the answer in the cache, saves
the exchange and writes the balance. The Stripe webhook writes the same balance.
An upload or a deletion changes rows and raw files and then has the whole corpus
re-ingested: chunks, embeddings, index files, cached copies dropped. All of it
runs on gunicorn threads of several processes (`gunicorn.conf.py`: at least two
`gthread` workers of four threads), against stores without transactions, so that
everything between two store accesses can interleave. No request is cut off as a
whole; what it waits for has timeouts (MongoDB 5 and 10 s, Redis 0.5 s, the model
30 s for each of three attempts).

Hard behaviours, and what being correct means:

* *Balance.* Several handlers read a balance and later store an absolute number.
  No event is credited twice; no purchase is lost; nobody holds more than was paid
  for; each saved exchange is charged.
* *Webhook.* Stripe delivers at least once, also concurrently, until it gets a 2xx;
  a handler may die between any two steps; creating the indexes may fail; records
  expire.
* *Corpus.* Rows, raw files and three index files are written one after another;
  readers load the files while they change; each process has cached copies; two
  writers of one user may overlap. What succeeded can be found, what was deleted
  cannot, other documents stay.
* *Answer cache.* Entries expire, are evicted, refer to documents that have been
  replaced, and are found through an index with a lifetime of its own; Redis may
  fail inside a compound update. What is served is close to the question and of
  bounded age.
* *Retrieval.* Two searches, their fusion and a reranker, each of which may be
  missing or fail. Agreement of the searches decides the order; a failure costs
  order, not chunks.
* *Generation.* The model fails before or while words arrive, clients leave a
  stream, processes die. What is kept is whole or marked as cut, and is what the
  client has seen; every request ends.
* *Accounts.* Lookups and inserts of several processes race, with or without a
  unique index, over e-mails in two spellings. Who registered can log in; one
  address leads to one account.
* *Chunking.* Nothing is lost, chunks are bounded, overlap is bounded, no chunk is
  needlessly short.

The full list, each at its line, is under `hazards` in `PROJECT.json`.

## 2. Modules

| Module | Models | Composition |
|---|---|---|
| `Ledger` | what a user is promised about credits: one credit per purchase, one charge per answer | abstract specification |
| `Credits` | the chat routes' charging and the webhook | implements `Ledger` (`ImplementsLedger`) |
| `Corpus` | uploads, deletions, ingest, questions, index files and caches, the queue | composes storage, both indexes, both caches and the queue |
| `AnswerCache` | `cache.py` as the chat routes use it | |
| `Retrieval` | `retrieve.py`, the searches of both stores and of `hybrid.py`, `rrf_fuse`, `rerank.py` | composes searches, fusion and reranker |
| `ChatStream` | the chat routes from the cache look-up to the last frame, `generate.py`, `resilience.py` | composes routes, model call and retry |
| `Accounts` | `auth.py`, `routes/v1/auth.py`, the users collection | |
| `Packer` | `_merge` of `chunking.py` | |
| `Session` | one browser page, its requests in flight, and the chats collection | composes `AppContext`, `ChatBox`, `Sidebar` and the chat routes |
| `MC*` | the instances for TLC | extend the module of that name |
| `CreditsProofs`, `PackerProofs`, `AccountsProofs`, `RetrievalProofs`, `ChatStreamProofs`, `CorpusProofs`, `AnswerCacheProofs`, `SessionProofs` | TLAPS proofs | extend the module of that name |

Definitions called "Variant of X" are X with a plausible bug. They are in no
specification; replacing X by one must break the property it is listed with in
`PROJECT.json` (`mutants`), which shows that the property can see that bug.

### Credits

A handler is a gunicorn thread with a program counter (`task[h]`). Every MongoDB
call is a step: `CheckCredits` (`_check_credits`), `PersistAnswer`, `Charge`
(`update_user_credits` with the number read at the start minus one), and for the
webhook `Deliver`, `EnsureIndex`, `InsertEvent` or `RejectDuplicate`,
`ReadBalance`, `GrantCredits`. `LeaveUncharged` covers the exits without an
exchange. Stripe is `Pay`, `Deliver` and the window in which an event without a
2xx is delivered again; MongoDB is the unique index (`Buildable`, `Duplicate`) and
the TTL monitor (`Expire`). `Crash` kills a handler between two steps;
`get_user_by_id` may swallow an exception and return nothing; either
`create_index` may fail. `Tick` is a calendar day; a handler does not live to see
two ticks, as every call it makes to MongoDB ends after seconds (`database.py:26`).

`burned`, `exchanges` and `applied` count what the code writes and are used by the
properties only, except that `exchanges` bounds the instance.

### Corpus

Documents are their own content. `storage` says whether raw files are on disk or in
S3, `mode` whether an upload leaves its ingest to Celery; `Deployments` are the
combinations of an instance. A thread works on an upload, a deletion or a question, for
one of the processes (`Procs`, gunicorn's workers), each of which has its own cached
copies (`vecCache`, `bmCache`); a step is one access to MongoDB, the disk or a cache. The
writing of one file is atomic, but a question may find any file unreadable, as one that is being
written is. `WipeIndex` is the reset in `_FaissStore.upsert`, which empties the namespace,
`storage.json` included. `Locked` is the store's lock, which a load holds from the look-up to the
filling of the cache. An upload carries one file, and each document is uploaded once: a
retry is another document of that name. In mode celery the job goes to the queue, whose
worker discards it (`DiscardMessage`), as nothing in the worker registers the task; with
Celery not installed or without a broker, the code ingests inline (`RunInline`).

Failures. Any call may fail that leaves something behind: `insert_one`, which leaves the
file without a row (`InsertDocument`); `delete_one`, which `delete_document` turns into a
False nobody looks at, so that the file goes and the row stays (`DeleteDocument`); a
look-up in S3, which counts as a free name (`PickKey`); a removal (`RemoveRaw`); a listing in
S3, which gives the pages before it (`ListRaw`); a fetch, which passes the file over
(`Materialize`); `build_bm25`, which writes nothing when `rank_bm25` is not installed
(`BuildBm25`) and raises when no chunk has a word (`MayRaise`). `failed` remembers them, for the
properties and for the bound. An ingest may raise at any of its writes (`FailIngest`), also
after the wipe, and then neither its process's copies are dropped nor the index completed.
`indexer` is the process that last completed the FAISS files, and nobody while they are not complete. A
store that fails is taken to leave nothing behind (`CopyRaw`).

### AnswerCache

A request is `_retrieve_with_cache` and the stores at the end of the route; each
backend call is a step. `backend` is chosen once, as by `_select_backend`. In
memory, `kv` and `order` are the `OrderedDict`: what is kept under each key, and the
keys, least recently used first; expired entries stay until read. In Redis they are
dropped as time passes. `Sim` gives the cosine of
two questions in steps; `Threshold` is 0.93 in these steps. Answers are known by
the question and by the version of the documents they were generated from;
`Ingest` replaces the documents and, as `invalidate_user` only logs, leaves the
cache alone. It leaves the FAISS and BM25 copies of other processes alone, too, and a
failed ingest leaves the old index: `copies` are the replaced versions still to be
retrieved from, so `Retrieve` may generate from any of them as from the documents there
are, for as long as no `Forget` (the same index written again, a process that ends) has
taken the copy away. `retired[v]` is when the last copy of version `v` went. Redis calls
may raise, a bounded number of times.

### Retrieval

One question after another in one process. A chunk is its position in the index.
`FaissSearch` or `QdrantSearch` and `Bm25Search` return any list the code could, for
any scores and any index, also none. Nobody catches what loading the FAISS files raises, so
`FaissRaises` ends the question in an error, and what BM25 would have found is lost with
it. `Fuse` is `rrf_fuse`, with the scores
`1 / (K + rank)` added up as exact fractions and the stable sort as the relation
`Before` (sums that are equal but of different ranks may fall either way as
floating-point numbers, and do here); `Rerank` loads the model lazily, sorts by its
scores, or falls back to `Keep`.

### ChatStream

A request (`pc[r]`) finds a cached answer, documents, only a history, or nothing
(`Begin`: these four come from outside, as far as cache and chat allow them), and then
produces words. `CallModel` is one call under `with_retry`; `Read` the loop over the
events of a stream; `Apologize` the `except` clauses; `Store`, `Persist`, `Reply` the
end of both routes. `/chat/upload` produces its answer as the blocking route does, but
never from a history alone. A generator stands still at each `yield`: `AtYield` lists them, and `Close` is
`GeneratorExit` there. `Break` is an exception or the death of the process anywhere.
Answers are sequences of words, each known by the request it was generated for and
its place, so that a repeated, missing or foreign word shows.

### Accounts

A thread's step is one MongoDB call: the lookup, the insert, the link of a Google
account. `EnsureIndexes` runs on the first access of each process, after `_db` is
set (`Begin`), so that other threads go on without it; it may fail, and is not tried
again by that process. An e-mail is an address in one of two spellings, since
`register_user` looks up what was typed and inserts the lower case, `login_user` takes
the lower case, and `google_auth` takes what Google gives for both. `issued` records the
tokens given out and is used by the properties only.

### Packer

Pieces are consecutive, so the buffer is an interval `first..next-1` and a chunk is
an interval too. A piece is where it starts in the joined pieces and whether it
is blank. The loop over `reversed(buf)` that collects the tail is `TailStart`: the
longest run of last pieces that fits the overlap.

### Session

The state of `AppContextProvider` (`stored`, `token`, `user`, `chats`, `selected`), of
`ChatBox` (`shown`, `current`, `busy`), the route (`page`: the chat or another) and the
chats collection (`owner`, `logs`, `recent`). A token stands for its user. A request in
`net` holds what its closure captured; it is served in one step (`Serve*`) and handled
in a later one (`Arrive*`), in any order. React runs effects before the next event, so
`SetAccount` contains the effect on `[user, token]` and `Render` the one on
`[selectedChat]` and the mounting and unmounting of `ChatBox`, whose pending questions
then change no state (`Detached`). The user waits for nothing: `Login`, `Logout`, `NewChat`,
`OpenChat`, `DeleteChat`, `Submit`, `Visit` and `Reload` have the guards of the page alone
(what it displays, and a send button that is off while its own `ChatBox` waits), beside `Room`, the
bound on requests in flight. `mishaps` counts, for the bound and for `SidebarCurrent` and
`SelectionListed`, requests that failed and what was done beside requests in flight, except
opening chats beside reads; `crossed` names the account requests beside which somebody
signed in or out, for `OneAccount`. `Reload` drops the requests of the old page: they have been
served by then or never are. A question with files is one without, in synchronous mode; in mode
celery its reply carries no answer, which is left out.

## 3. Runs

| Run | Instance | What it shows |
|---|---|---|
| `credits_concurrent` | one user, three threads, one purchase delivered up to three times over four days, one fault of each kind | types; `CreditedAtMostOnce`; `RecordOutlivesRetries`; `BalanceBacked`; `ExchangesAccounted` |
| `credits_serial` | two users, three events, one request per user at a time, no fault, weak and strong fairness | `BalanceSettled`; `ImplementsLedger`; `PurchasesCredited` |
| `credits_lost_grant` | one chat and one delivery overlap | counterexample to `GrantsKept` |
| `corpus` | two documents of the same file name; one thread that uploads and deletes on either of two processes, one that asks on the first; raw files in S3 with the ingest inline, or on disk with Celery; one failing call, ingests that raise anywhere | rows and files agree, what succeeded is indexed once an ingest is complete, the process that completed it has no other copy of it, other documents are kept, started ingests end |
| `corpus_deleted` | one thread | counterexample to `DeletedForgotten` |
| `corpus_overlap` | two uploads | counterexample to `SucceededFindable` |
| `answer_cache` | two threads, three questions of which two pairs are close, LRU of three entries, TTLs 3 and 2, six time units, two versions of the documents, of which the processes keep or forget their copies, one Redis failure | what is served is close, and of bounded age once no process has its documents any more; live entries are indexed |
| `session` | two accounts, two chats, two questions, the user acts beside at most one other request, one request that fails or one act done beside another request, weak fairness of the network | once all replies are in, sidebar and selection agree with the server, if the user was patient and nothing failed; token and user stay those of one account; the next question goes to the chat of the last answer displayed, whatever was done meanwhile; the spinner is on exactly while a question is pending; a page left alone comes to rest |
| `retrieval` | four chunks, three retrieved, two shown, `K = 2`, scores 0 to 2, threshold 1; both stores, reranker disabled or loaded when first used | chunks both searches found come first, and a chunk no worse in either before the other; as many chunks are shown as were found and fit, unless FAISS files that cannot be read failed the question |
| `chat_stream` | two requests, blocking or streaming, in one chat or two, three attempts, two words | what is kept is whole or marked, and is what was sent; every request ends |
| `accounts` | three threads of two processes, two addresses of which Google spells one with capitals, two passwords, three requests, one failed index build | with the index there, registered users can log in, and an address Google spells in lower case has one account |
| `packer` | every text of up to eight characters cut anywhere, any pieces blank | coverage, bounds, progress, density |

Why the bounds are enough. Lost updates and double grants need two handlers, and a
third can overlap both. One purchase per user is enough since events of
different users touch nothing in common but the indexes, and `credits_serial` has
three events of two users. Four days with `RetryDays = 1`, `TtlDays = 3` reach both
the end of redelivery and the expiry of a record. Two documents of one name need
every branch of the free-name loop; a re-ingest needs one other document to keep or
lose. Questions only read, and a load of FAISS holds a lock, so one question beside a
writer shows every torn load: a second one fills the same caches with what the first
could have read a step later. It asks one process, as copies of different processes never meet, and
the writer works for that process, for the other one, or for each in turn. One failing call is
enough since the properties name the calls each excuses, and hold for all others. The
two deployments contain both modes and both stores; the proofs are for all four.
The answer cache needs three questions to chain closeness and three requests to store,
reuse and reuse again; six units pass both TTLs twice; three entries are fewer than
two answers store, so that the LRU evicts. A chunk of four characters with an
overlap of two, from eight, is emitted up to several times, with pieces larger than
a chunk, tails of zero, one and two pieces, and blank stretches.

Four chunks, three retrieved and two shown make fusion, retrieval and reranker each
cut something off; with `K = 2` and three retrieved, `Wide = K + 1`, the largest for
which agreement always wins (the code has 50 and 60). Two requests show everything
that goes through the cache or a chat; three attempts are the code's own number; two
words let a stream break before, between and after them. Two first sign-ins race in
two processes, and the third thread shares a process with one of them, whose
indexes it does not wait for; three requests let a sign-in follow a race.

Two chats let one be deleted while another stays, two questions give one to each chat
or both to one. A request of the user beside one other is all it takes to overtake it, and
after an answer up to three reads are in flight together without any act of the user; one
mishap shows each kind of haste, and each kind of failure, at any point. The proofs are for any
number of either. What the properties of `session` except is what the code does not get
right: see the list below.

Deadlock is not checked in `answer_cache`, `accounts`, `chat_stream` and `packer`: the
first three stop when their requests are used up, the last when the text is packed.

Findings. The three violations are bugs of the code; each is described, with the lines
it contradicts, under `findings` in `PROJECT.json`.

What the code does not keep, and no run states. These are steps of the models, so the
properties above hold beside them or name them as exceptions:

* A webhook handler that dies after `insert_one` (`billing.py:174`) leaves a purchase
  uncredited for good: the redelivery is a duplicate. `PurchasesCredited` is
  therefore checked without crashes.
* Nothing registers the ingest task in a Celery worker (`ingest_tasks.py:202`): its
  messages are discarded (`DiscardMessage`) and the jobs stay pending.
* `FAISS` upserts delete `storage.json`, so the recorded usage is that of the last upload,
  and the quota limits little (`WipeIndex`, `BeginUpload`).
* A failed S3 listing is taken for an empty one (`ListRaw`): deleting one document may
  clear the index of the others (`documents.py:61`); they stay in S3.
* `Close` and `Break` end a stream without the `error` frame its docstring names
  (`rag_chat.py:168`), and the notice of a failed model is cached like an answer (`Store`).
* A process whose index build failed does not build them on a later call, whatever the
  comment at `database.py:55` says (`EnsureIndexes`); until one does, an address may
  get two accounts, and then the index can never be built.
* Google's e-mail is stored as given (`GoogleInsert`): with capitals in it, the address
  can get a second account by registration.
* An account refresh that arrives after a logout, or after a sign-in as another user, sets the
  old user again (`AppContext.tsx:97`, `ArriveUser`); `OneAccount` then holds for the token only.
  A `verifyAuth` overtaken by a sign-in replaces its token, or removes it from `localStorage`.
* Creating or deleting a chat, or asking, while another request is in flight can leave sidebar
  or selection stale, as replies are applied in the order of arrival and `deleteChat` decides from
  what its closure captured (`AppContext.tsx:195,243`): `SidebarCurrent` and `SelectionListed` are
  for users who wait, except to open chats while reads are under way.
* An answer that arrives after the user opened another chat is displayed under the messages of
  that chat (`ChatBox.tsx:92`). `AnswersInPlace` says of the last answer only that the next
  question goes where it is; earlier ones on the screen may be of another chat.
* A `delete_one` that fails leaves a row whose file is removed all the same, and whose document is gone from the
  index (`documents.py:56`).
* Each process drops only its own copies of the index (`vector_store.py:109`): the others answer from
  theirs, also from vectors of one ingest with the metadata of another, until they end or write
  the index themselves.
* An ingest that raises after the wipe leaves no index, or an incomplete one, until the next
  (`ingest_tasks.py:93`): `SucceededIndexed` is about completed ones.

### Fairness

`Credits`: gunicorn lets a request it has accepted run (weak fairness of the
handler's steps); a delivery waits in the listen queue and is served although the
threads are often busy (strong fairness of its delivery). `Corpus`: the operating
system runs every thread, and the index lock is handed on (strong fairness of a
thread's steps: a lock can be free and taken again repeatedly); nothing is assumed of the Celery
worker. `Session`: a fetch is answered or fails in the end
(weak fairness of `Network`); the user need not do anything. `ChatStream`: weak fairness of
a request's steps. A call of the model and the wait for each event of a stream end after
30 s (`_OPENAI_TIMEOUT_S`), attempts are counted, an answer has at most 512 tokens, and
the server either sends a frame or closes the generator. No request need arrive. The
other modules have safety properties only and assume none.

## 4. Proofs

`CreditsProofs`, for any users, threads, events and bounds:

* `TypeCorrect`: `TypeOK`. In particular no balance becomes negative: a charge is
  guarded by the number it subtracts from.
* `AtMostOnce`: `CreditedAtMostOnce`, if building the unique index fails at most
  once. A second failure really breaks it: two deliveries can then both insert. Type
  correctness is not inductive enough: `IInv` adds that a handler that may still
  write the credits of an event is the only one, and holds the only record
  (`OneWriter`, `OneRecord`, `Recorded`); that a credited event has a record as long as a
  delivery is under way or may come (`Recorded` again, from `RecentTasks` and `PaidBefore`,
  which tie the age of records to the age of the requests); and that until the unique
  index exists at most one handler is past the failed build (`OneUnindexed`,
  `FaultsBounded`).
* `RecordKept`: `RecordOutlivesRetries`, from the same invariant. It uses the
  assumption `RetryDays + 1 < TtlDays`: Stripe gives up after days, the TTL is 30
  days (`billing.py:68`).
* `LedgerKept`: `ImplementsLedger`, if requests of one user never overlap
  (`MaxPerUser = 1`), reads do not fail, and the index build fails at most once;
  crashes are allowed. `SInv` adds `Serial`: the balance a handler holds is the balance
  in the database, as no other handler works for its user. Every step is then a
  ledger step or leaves the ledger alone.

* `ExchangesCounted`: `ExchangesAccounted`, with no hypothesis. `ExchangesInv` splits the
  bound: a handler about to charge has saved an exchange that is not burned yet, and one
  that read no balance (`Blind`) has a failed read of its own to answer for.
* `BalancesBacked`: `BalanceBacked`, if building the unique index fails at most once.
  `BackedInv` bounds not only the balance but every old balance a handler still keeps and
  may store, by the signup allowance and the purchases *written* so far; these only grow,
  and were paid for. It needs `AtMostOnce`'s `IInv`: a purchase written twice breaks it.
* `BalancesSettled`: `BalanceSettled`, if requests of one user never overlap, reads do not
  fail, the index build fails at most once, and there are finitely many events. `SInv`
  makes the number a handler holds the balance, so that `SettledInv` can hold the sum.

  The sums in the last two are the library's `MapThenSumSet`, which is a recursion over
  sets. That such a function exists and is unique (`SumsExist`, `SumsAgree`) and how it
  changes with one element (`TotalAdd`, `TotalRemove`, `TotalMonotone`) are proved from a
  set of least cardinality for which they would fail, without an induction theorem.

`PackerProofs`, for every list of pieces, chunk size and overlap, also an overlap
larger than the chunk: types, `NothingLost`, `ChunksBounded`, `ChunksAdvance`,
`ChunksDense`. The inductive invariant `PInv` adds to the properties what ties the
emitted chunks to the buffer (`Behind`), that the buffer is bounded like a chunk, and
when it may be empty. That the overlap tail is well defined follows from the
well-foundedness of the naturals (`TailBounded`).

`AccountsProofs`, for any addresses, passwords, threads, processes and bounds:
`AccountsTyped` (`TypeOK`), `PasswordsHold` (`RegisteredCanLogIn`), `OneAccount`
(`OneAccountPerAddress`). `AInv` adds to the types that the index keeps e-mails distinct
(`Indexed`), that every account is spelled in lower case or as Google gives it and then
has no password (`Spelled`), that a token, whether the index exists or not, belongs to an
account of its address with its password (`Held`), and what a handler has looked up
(`Tasks`). `Held` holds without the index; the properties follow where e-mails are
distinct. That needs no assumption on how many builds fail.

`RetrievalProofs`, for any number of chunks, any scores and any results of the
searches: `RetrievalTyped` (`TypeOK`) and `FusionOrdered` (`FusionOrder`). The assumption
`Wide <= K + 1` (`RetrievalAssumption`) carries it: a chunk in both lists has at least
`2 / (K + Wide)`, one in a single list at most `1 / (K + 1)`. `BothScoreMore` and `BetterScoresMore` compare
the fractions, and `FusedOrder` shows that sorting by them and cutting to `Wide`
keeps the better chunk ahead. `NothingIsWasted` (`NothingWasted`) follows the number of
chunks instead: each step hands on as many as it was given and may (`Handed`), which
rests on the lists having no chunk twice (`ListCount`, `FirstCount`).

`ChatStreamProofs`, for any requests, attempts and words: `ChatTyped` (`TypeOK`, and with it
that the model is not called more than `MaxAttempts` times), `AnswersKeptWhole`
(`KeptWhole`) and `AnswersSavedAsSent` (`SavedAsSent`). `IInv` says for each request what its
text is at each step (`Starting`, `Replaying`, `Generating`, `Saving`, `Sending`), and that
what cache, chats and replayed answers hold was generated by a *settled* request: one
past the model, whose generation no later step changes (`Lasting`). The properties say
"by some request" only, which is not inductive.

`CorpusProofs`, for any documents, threads, processes, deployments and failing calls.
For any number of overlapping writers: `CorpusTyped` (`TypeOK`) and `CorpusOneFile` (no
document is in two files, and the search for a free suffix of a name ends), from `TInv`:
what a request knows at each step (`Shaped`), that until its job has a record only one
request knows of a document (`Once`, `Recorded`), and that a file not stored yet is nowhere
(`NotYet`). Two rows may name one file when uploads overlap; hence the serial theorems.

With one writer at a time (`MaxWriters = 1`), which `corpus_overlap` shows is needed:
`SerialRowsMatchFiles` (`RowsMatchFiles`), `SerialSucceededIndexed` (`SucceededIndexed`),
`SerialVectorCacheFresh` (`VectorCacheFresh`) and the action property `SerialOthersKept`
(`OthersKept`, which is about raw files; the index may lose a document until the next
ingest). `WInv` describes every intermediate state of the one writer: which row and file it holds
(`RowsHeld`, `WriterKnows`), which of the three index files it has written, and
what an ingest that raised has left (`IndexHeld`), and that what has to be in the index is in the
files or in the list the writer carries (`Covered`), each with the failed calls that excuse it.
`CacheHeld` says that the process that completed the index files has cached nothing else of
them, and that a question it is serving has read nothing else either. `SerialSucceededFindable`
draws the consequence: what `corpus_overlap` refutes holds for one writer, if the
last ingest was complete and none of five calls has failed.

`AnswerCacheProofs`, for any questions, similarities, threads, LRU sizes and TTLs, and both
backends: `CacheTyped` (`TypeOK`), `CacheServesClose` (`ServedClose`), `CacheStalenessBounded`
(`StalenessBounded`) and `CacheEntriesIndexed` (`EntriesIndexed`). `CInv` says of each stored
entry that it answers its own question and expires within the exact TTL and one unit of
the time its documents were retired (`Stored`), of versions that can be retrieved that they
are not retired (`InForce`), and of each request what the answer it carries
was generated for, from which documents, and when it came in (`Holds`): an answer found is to
a question close to the one asked, and is never stored, which is why hits do not chain.
`Indexed` ties each semantic entry to the index that names it, to its writer, or to an
index that is full.

`SessionProofs`, for any users, chats, questions and requests in flight, any number of lost
replies, and a user who waits for nothing. `SpinnerTrue` (`SpinnerHonest`), from `SpinInv`: at most
one request belongs to the `ChatBox` on display (`Solo`), and the spinner is on only there.
`OneAccountAtRest` (`OneAccount`), from `AccountInv`: as long as no sign-in or sign-out has
crossed an account request, the page checks a token, is signing in, or is settled and all its
requests carry the token of the user displayed (`Verifying`, `SigningIn`, `Settled`); as long as none has
crossed `verifyAuth`, the token sent is the one stored (`Unmixed`).

`SessionTyped` (`TypeOK`), from `TypeInv`: each chat the page holds, or a request carries, has the
id of one that was made, and every answer in it is among the messages of that chat
(`Copies`, `Known`, `Within`). `AnswersStayInPlace` (`AnswersInPlace`), from `PlaceInv`: the last
answer displayed is in the current chat, or that chat is gone (`LastPlaced`), and one on its
way is in the chat it names (`Answering`); logs only grow.

`SidebarIsCurrent` (`SidebarCurrent`) and `SelectionIsListed` (`SelectionListed`) are about pages
without mishap: no request has failed, and the user did nothing beside requests but open chats
beside reads. Their common invariant `ListInv` says what such a page may wait for:
nothing but its account (`Blank`); only reads, among which a read of the list is to come if
the sidebar is old, and one that will choose a chat if none is selected and there is one
(`Reading`); or one creation, deletion or question, sent by a page that was up to date
(`Creating`, `Deleting`, `Asking`). That each list operation of the client then gives the
server's list rests on what filtering does to a list: `At` picks elements by their places,
and how it changes with a place more or fewer is proved from the well-foundedness of the
naturals (`LeastOf` and the lemmas after it).

Only model-checked:

* liveness: `PurchasesCredited`, `UploadsFinish`, `ComesToRest`, `RequestsEnd`. Liveness
  under fairness, and ENABLED, are out of TLAPS's reach;
* the violation runs: a counterexample is an instance.

## 5. Not modelled

* Qdrant's upserts, point ids and collections: how a server orders and keeps concurrent
  writes cannot be read from this repository. Searching it is in `Retrieval`.
* How FAISS turns distances into the score that is compared with the threshold:
  `Retrieval` allows any scores.
* Crashes in the middle of an ingest, or of the writing of one file. A wipe of the namespace
  is taken not to fail halfway.
* Questions with files in mode celery, whose reply is a job (`Session`); a page's requests
  that are served only after it was reloaded.
* Uploads of several files at once, and the usage limit as a property: the recorded usage
  is reset by every ingest.
* The recursion of `recursive_split` over separators (`Packer` takes any pieces it may
  hand over).
* Renaming chats and feedback: single unconditional writes.
* The order of rows and the text of names, prompts and answers; embeddings.
* Job records in the answer cache's store; they are in `Corpus`, not evicted.
* Request schemas, error formatting, rate limits (state of a library), metrics,
  logging, the offline evaluation, the rendering of pages.

## 6. Plan

In this order:

1. `Corpus`: several files per upload, a process that dies during an ingest.
2. Proofs: what `Corpus` keeps when writers overlap, beyond `CorpusOneFile`, with the serial
   properties weakened to the documents no other writer touches.
3. `ChatStream` over `Credits`: the charge after the last step of a stream.
4. Job status polling with eviction in the LRU of `AnswerCache`.
5. The recursion of `recursive_split` on top of `Packer`.

Runs are limited to what a quick check can afford; when a new one is needed, the runs
of `Credits` that differ in one constant are the ones to merge.

## 7. Running

    tlc -workers 2 -config CreditsConcurrent.cfg MCCredits.tla
    tlapm CreditsProofs.tla
