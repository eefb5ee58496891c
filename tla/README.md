# Formal model of the social chatbot backend

TLA+ modules for this backend: the state that server processes, Celery workers, Redis,
PostgreSQL and Stripe share, and the way from a website to the knowledge and from a query to
its answer. TLC configurations check them on small instances, and TLAPS proofs give the most
important properties for every value of the constants. Paths are relative to `src/`.

`PROJECT.json` maps each definition to the lines it models, and lists the runs, the mutated
definitions that show that each property can fail, the finding, the hazards and the theorems.

## 1. Inventory of the system

A FastAPI application (`app/main.py`; `docker/fastapi` starts it with two server processes), a
Celery worker (four processes) with a beat schedule, PostgreSQL, Redis and, outside, OpenAI,
Stripe and the messaging platforms. One process runs its requests as coroutines: it switches at
an `await`; several processes interleave at every statement that reaches a shared store.

| Part | State | Operations | Made with | Hard behaviour | What makes it correct |
|---|---|---|---|---|---|
| Usage metering (`app/billing/metering.py`) and the pages that show usage (`app/api/usage.py`, `analytics.py`, `quotas.py`, `app/billing/analytics.py`) | `TenantUsage` events, one `UsageMeter` row per organization and month, Redis quota counters | `record_chat`, `record_embedding`, `record_voice` | called by the chat pipeline; counts through the quota enforcer | the insert race for the first row, read-modify-write of the row, rollback of the whole session, failures between database and Redis, month's end | no usage invented, every call counted once in Redis, no page shows more than the quotas counted, no call stuck |
| Chat pipeline (`app/orchestrator/orchestrator.py`, with tenancy, quota, feature flags, model router, semantic cache, fallback) | quota counters, semantic cache per agent, organization status and features | `process` | called by the channel webhooks, the conversations API and a Celery task | check of a counter and increment some awaits later, cache read before vetting, cache written back over an await, eight ways out, changes by administrators under way | quota overrun bounded, feature gates, no unvetted answer, metered exactly when answered |
| Stripe synchronization (`app/billing/webhook_handler.py`, `service.py`, `app/api/billing.py`) | the organization's `Subscription` and `Invoice` rows; Stripe's own | nine event handlers, `create_checkout_session`, `change_plan`, `cancel_subscription` | Stripe's webhook; the API changes Stripe, then the row | reordered, repeated and concurrent events, exceptions answered with 200, an API call and the webhook of its own change | the row shows what Stripe shows, never a plan nobody bought, cancellation arrives |
| Website crawl (`app/crawler/engine.py`, `url_frontier.py`, `app/workers/crawler_tasks.py`) | frontier and seen set in Redis, counters of the run, `CrawlJob` row | `crawl`, `process_url`, `push_sync`, `pop_batch_sync`, `crawl_website` | Celery task or, without workers, the API request; feeds ingestion | twenty coroutines on shared counters, exceptions at three levels, three time limits | each page once, budgets kept, no link lost, the crawl ends and its job says so |
| Page extraction (`app/crawler/scraper.py`, `universal_extractor.py`, `content_cleaner.py`, `hydration_extractor.py`, `network_interceptor.py`, `completeness_engine.py`, `entity_model.py`) | the browser pool, a product's entity | `scrape`, `render`, `extract`, `merge`, `DeepExtractionLoop.run` | one call per page of the crawl | a chain of fallbacks, pages that wait for a browser, sources merged in an order the page decides | the best source of a field wins, no variant is lost, every page is returned or given up |
| Products and chunks (`app/rag/chunker.py`, `product_retriever.py`, `app/services/product_formatter.py`, `app/api/products.py`) | the chunks of several crawls of a page, `CrawledPage` rows | `chunk_with_metadata`, `retrieve_by_url`, `format_product`, the product routes | written by ingestion | nested loops over windows, chunks of different crawls read together under a limit, a score that new chunks may lower | no text lost, the loops advance, a re-crawl costs nobody a product's main fields |
| Knowledge ingestion and change detection (`app/rag/ingestion.py`, `vector_store.py`, `app/crawler/page_hashing.py`, `app/api/knowledge.py`, `app/workers/embedding_tasks.py`) | chunks; page hashes and HTTP cache in each process's memory; upload jobs | ingest, upload, delete, crawl | the crawl, uploads, Celery | commit per chunk, caches that outlive what they describe and are shared by all organizations, ingestion twice | what is skipped is stored, deleted knowledge is not answered from |
| Query to answer (`app/query_intelligence/`, `app/structured/`, `app/rag/retriever.py`, `app/orchestrator/context_manager.py`) | one database transaction per request | normalize, rewrite, plan, look up, retrieve, compress, generate | inside the pipeline | eight passes over one text, fallbacks of fallbacks, a transaction that a refused statement aborts | names are searched for, found knowledge reaches the model, every request settles |
| Channel webhooks, conversation memory, rate limiter (`app/api/webhooks.py`, `app/memory/conversation_memory.py`, `app/middleware/rate_limit_middleware.py`) | dedup markers (60 s), message list per conversation, counter with a TTL, all in Redis | one handler per platform; add, get | the platforms; the chat pipeline | marker before processing, fail open, repeated deliveries, read-modify-write over an await, INCR and EXPIRE apart | a message is answered once, no turn lost, a window ends |
| Accounts (`app/api/auth.py`, `organizations.py`, `agents.py`, `conversations.py`, `admin.py`) | users, members, agents, feature overrides | register, create, add and remove members, flags | two server processes | check, then insert; the same fact in several columns | one account per e-mail, one row per membership, data for insiders only |
| Governance and risk (`app/governance/`, `app/risk/`) | none | rules and scores | pipeline | what blocks and what escalates | (in the pipeline and the answer) |
| Other Celery tasks, beat; legacy services (`app/services/`, `app/orchestrator/service.py`, `app/tools/`); other memories and helpers; hallucination check, prompts, evaluation; observability; token handling and schemas; deployment | - | - | - | - | see section 6 |

Every hazard found while reading, at its line, is in `PROJECT.json` (`hazards`) with the
properties that cover it.

## 2. Modules

| Component | Specification | Properties | Instance | Proofs |
|---|---|---|---|---|
| usage metering | `Metering`, `Reports` | `MeteringProps` | `MCMetering` | `MeteringProofs` |
| chat pipeline | `ChatPipeline` | `ChatProps` | `MCChat` | `ChatProofs` |
| Stripe synchronization | `StripeSync` | `StripeProps` | `MCStripe` | `StripeProofs` |
| website crawl | `Crawl`; abstract: `Traversal` | `CrawlProps` | `MCCrawl` | `CrawlProofs` |
| page extraction | `Extraction` < `PageText` < `Offers` < `Completeness` | `ExtractionProps` | `MCExtraction` | `CrawlProofs` |
| products and chunks | `Products` < `Chunking`, `Completeness` | `ProductsProps` | `MCProducts` | `RetrievalProofs` |
| knowledge ingestion | `Knowledge` | `KnowledgeProps` | `MCKnowledge` | `KnowledgeProofs` |
| query to answer | `Answer` < `Understanding`; samples: `Dictionaries` | `AnswerProps` | `MCAnswer` | `RetrievalProofs` |
| channels, memory, limiter | `Channels` | `ChannelsProps` | `MCChannels` | `ChannelsProofs` |
| accounts | `Accounts` | `AccountsProps` | `MCAccounts` | `AccountsProofs` |

`A < B` says that `A` extends `B`. An operator whose comment says *mutant* is not part of the
specification: it is a definition changed the way a plausible bug would, kept beside the
original, and named with it in `PROJECT.json`.

Composition. `Crawl` says which pages are fetched, `Extraction` what becomes of a fetched page,
`Products` how its text is cut, stored and read, `Knowledge` what is stored of it when crawls,
uploads and deletions interleave. `Channels` has the pipeline as its step `Process`;
`ChatPipeline` has many requests with retrieval and generation as one step, `Answer` has one
request with that step taken apart. `record_chat` appears in `ChatPipeline` with its counters and
in `Metering` with its transaction.

### Metering and Reports

One call of `record_*` is a process with a program counter; a step is one database statement or
one Redis command. `meter` holds committed rows, `loaded` what a session read, `pending` the
sessions that still hold the unflushed event, `inserting` the call whose uncommitted INSERT
holds the unique index entry: another insert of the same key waits for it (`InsertOK` is
enabled only without one). `Start` reads the period once; `Select`, `Insert`, `InsertConflict`,
`InsertError`, `Reselect`, `LastInsert` and `LastInsertConflict` are `_get_or_create_meter`
statement by statement; `Commit` is the block of `+=` and `db.commit()`, which updates only
columns the call changed, from the values the session loaded; `Abandon` is the outer `except`.
The Redis counters follow whatever became of the transaction (`Count`, `CountFails`), each with
the month read anew; `Expire` is their end 35 days after the last increment, which is after that of
their month. `Die` is the death of the process in any step.

The columns are reduced to tokens, API calls, conversations and voice minutes; the model-specific
and cost columns move with the tokens. Amounts are natural numbers: the code's costs are floats,
whose rounding is not modelled. `applied`, `dropped` and `expired` are history variables, read
by properties only.

`Reports` has no variables: `CurrentUsage`, `Overview`, `UsageHistory`, `EventsOf`, `ModelUsage`,
`DailyConversations`, `TokenSpend`, `QuotaUsageSummary`, `TotalRequests` and `QuotaStatus` are
what the pages read from the two tables and the counters at one moment. The dashboard lists the
rows of the highest cost, at most `SummaryLimit` of them (50 in the code): as costs are not
modelled, any rows of that number may be the ones it shows.

### ChatPipeline

A slot is one request in `AIOrchestrator.process`, and each `await` on Redis, the database or the
model ends a step. The places of `pc` follow the numbered steps of `process`; every early return
goes to `reply` with its outcome: inactive organization, quota exceeded, fast answer, cached,
blocked, escalated, answer, and the safe fallback of the outer `except`. Governance and risk are
functions of the query (`Allowed`, `Risks`); what the model keeps is when they are asked and what
follows. Near-identical queries (`Text`) are those the semantic cache takes for one another; an entry
keeps the model that made it, which `Lookup` returns with the answer. The month is fixed here: its
turn is in `Metering`.

`used` counts every answer of a model: the fast path's (`FastLLM`), the checks of agentic retrieval
(`Retrieve`, one per loop but the last) and the full pipeline's (`CallModel`). The first two are
metered by nothing, and counted in `unmetered` too. The conversation counter is a constant zero
(`ConversationsCounted`), because no caller passes `is_new_conversation` (section 4).

Bounded by constants: requests (`MaxArrivals`), and errors and outside changes together
(`MaxFaults`). Left out: the cap of 100 entries and the TTL of the cache (`ClearCache`, at any
time, loses at least as much), the values of the soft limit.

### StripeSync

One organization. Stripe is external: `Checkout`, `RenewalFails`, `RenewalPaid` and
`StripeCancels` change a subscription and append to `log` the events with the snapshot that the
handlers read. `mode` says how events are delivered: one at a time in order, one at a time in any
order, or concurrently; a handler reads the row in `Deliver` and commits in `Handle`, and the
commit writes the columns the session changed (`Flush`). A handler that raises - or meets the
unique `organization_id` - is acknowledged all the same (`Swallow`, `app/api/billing.py:86`), so
Stripe does not repeat it; `Redeliver` is the 200 that got lost. `ApiRead`, `ApiStripe`,
`ApiCommit` and `ApiFails` are `change_plan` and `cancel_subscription`, which change Stripe
first.

A plan need not have a price at Stripe (`Priced`; the seeded plans have none). The checkout refuses
one without; `change_plan` does not ask, Stripe is sent no price and leaves the subscription's as it
is, and the row takes the new plan all the same (`Unpriced`, `Charged`).

`bills` is Stripe's invoice of a subscription's renewal, `invoices` the organization's row of it.
`UpsertInvoice` commits it before the handler reads the subscription row again, so there are two
commits with a step between them. One invoice per subscription: a checkout's first one, which
goes the same way, is left out, and so is the `payments` table, which nothing reads. The handler finds
the organization by the invoice's customer, and each checkout makes a new customer and writes it over
the row's: so the row of a later subscription no longer answers for an earlier one (`Customer`).

The model starts with an event that has reached the handler; how it gets there is in section 4.

### Crawl and Traversal

One run of `CrawlerEngine.crawl`. `at[u]` is the await that the coroutine of URL `u` is at; a step
runs from one await to the next, so `js_renders` is read in `Start` and increased in `Fetched`.
`queue` and `known` are the sorted set and the seen set of `url_frontier.py`; a batch
is any set the sorted set may return (`Batches`). Exceptions: of a page (`Fail`), of pushing its
links after it was counted (`PushFails`), of the engine between batches (`Abort`), and of the
error handling itself (`Collapse`), which leaves `gather` while the other coroutines stay in the
process's event loop and go on when it next runs (`Alive`). `SoftLimit`, `Kill` and `Expire` are
Celery's limits of 25 and 30 minutes and the engine's hour, which only a crawl run by the API
request can reach. `Mark` and `Raise` are the job row: the task's own, or the engine's for the
API, which nothing ever updates.

`Traversal` is what a crawl is for, without frontier, batches, limits or failures: follow links,
visit what was found and is allowed, each at most once, then stop. `CrawlProps` instantiates it
(`T == INSTANCE Traversal WITH found <- ..., over <- ...`), and `IsTraversal` says that every step
of a crawl is a step of it or none.

### Extraction, PageText, Offers and Completeness

`Offers` and `PageText` are functions. A product's node is the set of keys it has, its variants
and the length of its description; `Offers` has one operator per reader (hydration states,
JSON-LD, DOM, captured responses, the shop's product API). A page of another kind is a sequence
of parts with lines, each with its tag; `PageText!Extract` goes through the passes of
`UniversalExtractor` in order, `Section` through what the semantic pass reads of a table (rows), a
`<details>` (its summary and all else), another accordion (its first question and first answer) and
a tab panel, and `Clean` through `ContentCleaner`, which keeps a line for its bar, its mark or its
length. A page whose `<title>` is empty raises in the look for a title, unless it has one elsewhere
(`Unnamed`). `Completeness` is `CompletenessScore` in thousandths.

`Extraction` has the state. A page is a coroutine of one event loop: `Scrape`, `ProductJson`,
`ProductHtml`, `Static`, `Identity`, `Curl`, `HTTP2` and `Parse` are the strategies of `scrape` in
their order, each with its failures; `AskPool`, `PoolStarts`, `TakeSlot` and `Rendered` are the
browser pool, whose semaphore all pages wait for and whose launch may fail; `Deepen`,
`DeepenByRendering` and `Finish` are the passes of the deep extraction loop. `MergeFields` and
`MergeVariants` are `ProductEntity.merge`. `AskLLM` changes nothing, because building its prompt
raises (section 4). Libraries (`trafilatura`, `readability`, the browser) are external: any result
a page of the instance allows.

### Products and Chunking

`Chunking` has one action per iteration of each loop of `chunk_with_metadata`: sections, windows with
their cut after a sentence, merging of short neighbours, windows by type. A text is a sequence of
cells, so that "no text lost" can be said; white space takes no room. `Products` adds the table: a
crawl's document is chunked, stored row by row (`Upsert`), perhaps only in part (`IngestFails`), and
logged (`LogPage`, `Track`). A row is what `_parse_chunk_content` makes of its text (`Parsed`): the
fields whose labels it has, the length of the description and the lines of the variants block, as far
as they are in this chunk. The readers are operators: `Fetches` any rows under the limit, `Fused` and
`Reconstruct` the entity put together of them, in any order of the rows of one index, `Format` what of
it is told at which completeness; `Query`, `QueryByUrl`, `CheckCompleteness`, `ListIncomplete`,
`Dashboard` and `PriceHistory` are the routes.

### Knowledge

A slot is one coroutine or task of its process: two requests of a server process and one Celery
task. A page is crawled in the steps `Request` (with the remembered ETag), `NotModified`,
`Fetched` or `FetchFails`, `Compare` (with the remembered hash), `Embed`, one `StoreChunk` per
commit, `Finish`. An upload is a row, a job (`Enqueue`, `TakeJob`: acknowledged when taken, so a
death loses it; `Retry`) and an ingestion by the request itself. A job may find its file's row deleted
(`DeleteUpload`, `NotFound`, `RowGone`), or be dropped by a worker that does not know the task
(`Discard`). `DeleteSource` and `DeleteAll`
go on with `ClearHashes` of this process and `ClearCache`. `Ask`, `Remember` and `Keep` are an
answer made from knowledge and written into the cache. Chunks are an organization's; `hash` and `etag`
are a process's, by URL alone, and shared by all organizations. What is hashed is the HTML (`HtmlOf`),
which for a shop's product is not what is stored.
History variables (`hit`, `deleted`, `failed`, `late`, `abandoned`) are read by properties only.

### Understanding and Answer

`Understanding` is the chain of functions over a query's text, from `MultilingualNormalizer` to
`RetrievalPlanner.plan`. A text is a sequence of pieces, and the dictionaries are constants:
finite maps to texts from phrases, which no space begins or ends; maps of single pieces; and a
sequence of replacements in the order in which they are made (`DictionaryAssumption`). `Dictionaries`
has a sample of each for TLC, with the code's kinds of entries: a word, several words, nothing, one
that contains another, and one that is written in another dictionary. The keywords that tell
intents, entities and routes apart stay samples in the module itself.

`Answer` is one request, in the order of `process`: `MakePlan`, `Govern`, `ScoreRisk`, `Escalate`,
`StartRetrieval`; the structured look-up (`Lookup`, `LookupLike`, `Word`, `NoHistory`); retrieval
(`Near`, `NoEmbedding`, `Pin`, `Locate`, `Keyword`, `KeywordLike`); the agentic loop (`Use`,
`Website`, `Gather`, `Check`, `Graph`); the messages (`Prompt`, `LoadTurns`, `Compress`, one
iteration a step); `Generate` and `Meter`. `tx` is the session's transaction, clean or aborted: a
statement in an aborted one fails whatever it is. What the database finds is a view: for every
chunk its similarity, its rank, and whether ILIKE or a term matches. The structured look-up searches
by at most six terms (`SearchTerms`): four entities, in an order that sets leave open, then the words
of the retrieval's wording, of which the statements take the first four.

### Channels

A request is limited (`Count`, `Expire`, `LimitFails`, `WindowEnds`), recognized (`IsDuplicate`,
`FailOpen`, `MarkerExpires`), processed (`Process`), with its turns read and written back
(`ReadMemory`, `AddMemory`, `MemoryFails`) and its rows saved (`Lookup`, `Save`, `SaveFails`),
answered (`Send`) and acknowledged (`Respond`); `Die` may end any of these, and the platform delivers
again what is not acknowledged (`Deliver`). The module follows the WhatsApp handler; those of the
other channels have its shape.

### Accounts

The handlers await nothing, so one process serves one of these requests at a time, and the processes
interleave between what a handler reads and its one commit: `Register`/`InsertUser`,
`CreateOrganization`/`InsertOrganization`, `AddMember`/`CheckMember`/`InsertMember`,
`RemoveMember`/`DeleteMember`, `CreateAgent`/`InsertAgent`, `SetFeatureFlag`/`InsertFlag` or
`UpdateFlag`, and `Fail`. `Consult` is every handler that shows data, with what it may tell whom
(`ToldTo`): those that go by who the user is to an organization (`CheckedTo`: its own row, its
members, its agents, billing, usage, knowledge, products, files, logs), those that ask nothing
(`OpenTo`: an agent's policies, starting a conversation, the overview's counts, a crawl's result, the
figures of retrieval), and the platform's pages for superusers (`PlatformPages`). SQLAlchemy writes a
column only if the session's copy changes; `InsertMember` keeps that.

## 3. Runs

Each specification has a type invariant `TypeOK` where its types are proved (section 5).

| Run | Properties | Distinct states | What it shows |
|---|---|---|---|
| `metering` | `MeterNeverOvercounts`, `ReportsAgree`, `RedisCountsEveryCall`, `EveryCallEnds` | 80,821 | usage may be lost by the read-modify-write, but is never invented or counted twice; the pages agree with each other and with the quotas; no call waits for ever |
| `chat` | `CountersCoverUse`, `FeatureGates`, `AnswersAreVetted`, `MeteredOnce` | 1,845,334 | the token counter, gates, vetting and metering on every path with two requests interleaved, the fast path's exceptions stated |
| `stripe_in_order` | `SyncedInOrder`, `CancellationArrives` | 628,033 | in order and without swallowed errors, row and invoices end up equal to Stripe's, also if an API call died half-way |
| `stripe_any_order` | `NothingMadeUp`, `CanceledOnlyIfStripeDid` | 5,935,202 | what holds even when events are reordered, repeated or concurrent |
| `crawl` | `FetchedOnce`, `BudgetHolds`, `NothingLost`, `CrawlEnds`, `IsTraversal` | 9,857 | frontier and budgets under every failure and time limit, and that the crawl implements the traversal |
| `knowledge` | `SkippedMeansStored`, `IndexedMeansStored`, `DeletedAnswersGo`, `UploadSettles` | 895,991 | what the caches of two processes, half-stored documents, retries and deletions leave of the knowledge |
| `channels` | `AnsweredOnce`, `MemoryKeepsTurns`, `EventsSettle` | 1,185,269 | repeated deliveries, markers that expire, two processes on one conversation |
| `extraction` | `NothingOfferedIsLost`, `SkusAreKept`, `PagesSettle` | 236,016 | what a page offers is found by some strategy, whatever order they run in and whichever fails |
| `answer` | `NamesSurvive`, `KnowledgeReachesTheModel`, `RefusedQueriesAreMetered`, `RequestsSettle` | 290,894 | one request from its text to its usage event, with every fallback |
| `products` | `NothingIsLost`, `LinesSurvive`, `WindowsAdvance`, `RecrawlTellsTheCore` | 513,229 | the chunker's loops, and what a reader is told after several crawls |
| `accounts` | `AccountsAreUnique`, `OneRowEach`, `RowsNameOrganizations`, `InsidersOnly` | 442,699 | check-then-insert in two processes |
| `compress` | `CompressionEnds` | violated | the finding of section 4 |

`CHECK_DEADLOCK FALSE` in every run: the bounded systems come to rest when calls, requests,
events, documents or crawls are used up, which is their normal end.

### Bounds, and why they are enough

- `metering`: three calls, one of each kind, two of them of one organization and one of another, two
  months, one error or death, and a dashboard that lists one row. Two calls make each race, and the
  loser of the first gets to the last-resort insert when an error hides the row it lost to. Calls of
  different organizations share no row, only the list.
- `chat`: two slots, three requests, four queries (one of each path, the fast one with something in it
  that governance would block, a blocked twin of a plain question, one that may be escalated), a limit
  of two units of tokens, two errors or outside changes: a feature goes off and another request fails.
  Two requests at the same counter overrun a limit; the third finds it full. Slots are symmetric, and
  no liveness is checked in this run.
- `stripe_in_order`, `stripe_any_order`: two subscriptions (an earlier one, and the one that replaces
  it), two plans with a price and one without, two handlers, one API call, up to eight events in
  order, seven out of order and six when handlers run concurrently: a checkout, a failed and a paid
  renewal or a cancellation, and a second checkout. `stripe_in_order` also has one error; in it a
  redelivery does not occur, since an event sent again after newer ones is out of order. Symmetry only
  in `stripe_any_order`, which checks invariants.
- `crawl`: eight URLs, three seeds (two batches at depth 0), links in common, a cycle, a
  disallowed page, two firewalled ones, a page too deep; batches of two, four pages, one level,
  one render. A batch of two is enough for every pair of coroutines; four pages are passed in the
  middle of a batch.
- `knowledge`: two organizations that crawl one page, served with an ETag, that changes once, one file
  of two chunks of which the worker is given one, two requests in one process and a worker in another,
  three tasks, one fault, one retry. Two chunks make a half-stored document, a change makes a stale
  hash, two processes make caches that disagree, two organizations one that is shared; documents share
  nothing but the deletion of all.
- `channels`: two messages of one conversation, a request in each of two processes, at most two
  requests in a window, a memory of two turns (so that it overflows), one error or death, one
  key that expires.
- `extraction`: two pages of one domain and one browser, so that one waits for the other; eight
  sites, of products and of other pages, told apart by what the readers find in them; the code's
  three deep passes and its threshold.
- `answer`: 14 queries, one for each branch of the plan and of governance, and 144 texts of two
  words for what the passes do to each other's results; five chunks, six views of them, three
  loops (the code's), one fault, the code's 8,000 tokens. `RequestsSettle` has prompts of up to 7,700
  tokens, `compress` one of 7,950.
- `products`: about 2,300 documents of four lines, each kind of line before each other one, short
  and longer than a window, with and without sentences; a window is 12 cells with an overlap of 2.
  Four product pages, two of them with variants, crawled twice, among them one that a second crawl
  takes from FULL to FALLBACK; the code's `LIMIT 50` is 6 rows here, which two crawls exceed.
- `accounts`: three users, two of whom have an e-mail in common, two processes (symmetric), five
  requests: enough for an organization, a second account, and its membership added, removed and
  added again. One of the users is a superuser.

### Fairness

A process that is not dead executes its statements, and calls to other services have time-outs:

- `metering`: `WF` of a call's own steps; the database grants a waiting insert when the other
  transaction ends. None for starting calls, failing, dying or the calendar.
- `stripe_in_order`: `WF` of delivering each event and of finishing a handler that has one, which
  is what Stripe and the server do. None for changes at Stripe, API calls or errors.
- `crawl`: `WF` of the loop and of each coroutine. None for time limits, failures or deaths;
  `CrawlEnds` counts a killed process as an end and says nothing of its job row then.
- `knowledge`: `WF` of each slot's steps and of each worker's doing something with a queued job: run
  it, find its row gone, or drop it (`Work`). That is so of a worker that reads the `embeddings` queue,
  as that of `docker/celery/Dockerfile` does, whether it knows the task or not; the one of
  `docker-compose.yml` reads only the default queue, and with it the jobs stay where they are. None
  for deaths, failures or changes of the page.
- `channels`: `WF` of each request's steps, of the end of the window (Redis expires a key that
  has a TTL) and of the delivery of each message, which the platform repeats. None for failures
  and for the expiry of markers.
- `extraction`: `WF` of each page's steps, `SF` of taking a slot: `asyncio.Semaphore` wakes its
  waiters in their order, so a page that finds the slot free again and again gets it.
- `answer`, `compress`: `WF` of the next step: a single request, whose calls come back or fail.

### What TLC does not say here

The conversation limit has no property, because the code never enforces it. `CountersCoverUse` and
`MeteredOnce` name what is not metered, the fast path and the agentic checks, and say nothing of how
much that is; `AnswersAreVetted` names what is not vetted, the fast path. `FeatureGates` lets a cached
GPT-4o answer out to an organization that no longer has GPT-4o. `SyncedInOrder` and
`CancellationArrives` assume deliveries in order, which Stripe does not promise, and that no handler
raised (`swallowed`).
`CanceledOnlyIfStripeDid` excludes histories in which an API call committed between a handler's
read and its commit, or to the row of another subscription (`overtaken`), and concurrent handlers:
there the code can write `canceled` over a newer subscription. `MemoryKeepsTurns` excludes
conversations in which two requests did append at the same time (`raced`), and `OneRowEach` rows
whose inserts raced; what they show is that nothing else loses a turn or doubles a row.
`DeletedAnswersGo` excludes answers that were under way when the cache was cleared (`late`):
those are cached and served until they expire. `SkippedMeansStored` speaks of some organization's copy,
and names what else it excludes. `EventsSettle` excludes a limiter key left without an expiry
(`stuck`), and `CrawlEnds` says nothing of the job row after a kill. `NamesSurvive` ends at the wording;
`RecrawlTellsTheCore` at the limit of the rows a reader fetches. `InsidersOnly` is about `CheckedTo`.
Dictionaries, documents and sites are samples in the runs: that a kind of entry behaves says nothing
of an entry of another kind. The theorems of section 5 have no such limit, but speak of their
properties only.

## 4. Findings and observations

**The finding** (`compress`, `app/orchestrator/context_manager.py:202`). "Trim messages to stay
within token budget": the loop removes the first message that is not the system's as long as the
budget is exceeded and more than two messages are left. With three system messages that exceed it
by themselves, which an agent's long custom prompt makes, it removes nothing and spins without an
await, and the server process with it.

What follows was seen while reading and modelling; it is in the models as the code has it, and is
no run of its own.

*Metering and pipeline.* The loser of the insert race rolls back its usage event with the insert,
where the docstring speaks of a savepoint (`billing/metering.py:194`, `:211`), and then meters its
tokens without one. A meter can go down after lost updates, and the models page then shows more
calls than the overview. The quota status calls a limit of 0 a hard one, which the check takes
for unlimited; it reports "agents" from a counter nothing counts. No caller declares a new
conversation (`api/conversations.py:211`, `workers/tasks.py:18`; the webhooks say it is none), so the
plan's conversation limit is never counted nor enforced. "FAST PATH - skip steps 5b-10"
(`orchestrator.py:42`) skips the metering of step 11 too (`:146-162`), and neither governance nor risk
scoring sees what it is asked. The checks of agentic retrieval are never metered. A cached GPT-4o
answer is served on after the organization has lost GPT-4o, with the model's name in it (`:179`). The
hallucination validation is disabled (`orchestrator.py:319`). The dashboard's list of organizations
ends at 50 (`billing/analytics.py:96`).

*Stripe.* `/api/v1/billing/webhook` is not among the paths `AuthMiddleware` lets pass
(`middleware/auth_middleware.py:17`), so Stripe's calls are answered with 401 before the handler;
`StripeSync` says what the handler does with the events that reach it. The guard "if it was past
due" is evaluated on a stale read (`billing/webhook_handler.py:170`), and a concurrent
cancellation is overwritten with `active`. An older "failed" event that arrives after "paid"
leaves the invoice shown as open. Each checkout makes a new customer (`billing/service.py:69`) and
invoices are looked up by the row's (`webhook_handler.py:207`), so later invoices of a replaced
subscription are dropped. `change_plan` to a plan without a price changes the row for nothing
(`service.py:113`, against `:66`).

*Crawl and knowledge.* `used_browser` is always reported False, so renders of blocked pages never use
up `max_js_renders` (`crawler/scraper.py:218`); the depth is compared with the number of batches
(`crawler/engine.py:253`); a crawl by hand after a deletion skips the pages another process remembers;
page hashes and ETags are shared by all organizations of a process, so a page is skipped as unchanged
for one that never stored it, and `clear_org` clears everyone's (`crawler/page_hashing.py:9`, `:32`);
a Shopify product is compared by its HTML but stored from `product.json`; the chunks of a deleted
upload stay (`api/uploads.py:131`); the workers are started with `celery_config` alone, which imports
no task, so `embed_document` is dropped (`docker/celery/Dockerfile:21`) or stays queued
(`docker-compose.yml:79`); the scheduled re-crawl passes no organization and raises; a crawl is queued
also if the only worker does not consume the crawler's queue (`api/knowledge.py:80`).

*Extraction.* A JSON-LD price such as "1,390" raises, and the page is read as empty; hydration never
says "Out of Stock"; the cleaner drops short lines that occur twice, and short cells of one-cell rows;
only the first question and answer of an accordion are read (`universal_extractor.py:276`); a page
with an empty `<title>` and neither a heading nor an Open Graph title is read as empty (`:307`); the
LLM fallback never runs, because formatting its prompt raises `KeyError`; a bad price in one hydration
state drops the whole JSON extraction of a Shopify product; variants without a SKU replace each other;
one failed rendering marks a domain as failed for ever; `_extract_generic_html` removes tags from the
soup the next pass reads; a flag `_initialized` is set before the browsers were launched.

*Products.* A re-crawl can lower the score from FULL to FALLBACK: variants that were cut by a window
are taken for incomplete ones; those without a SKU are forgotten when a later chunk has variants; the
price of a variant may be read off a comma of its title (`rag/product_retriever.py:440`). "FALLBACK (URL
only)" (`api/products.py:101`) shows price, availability and brand too. The first chunk that has a
field wins, also with a truncated value; the chunks of
earlier versions stay after a re-crawl; `LIMIT 50` contradicts "merging all chunks for the same
canonical URL"; `chunk_with_metadata` splits pages `chunker.py:48` calls "never split";
FULL answers never come from `/product/query` (`api/products.py:100`); a PARTIAL answer omits
attributes and logistics that are there; price and stock history never get rows
(`engine.py:207-226`); the route by SKU is unreachable.

*Query.* The patterns for SKUs and names in title case never match, because the rewriter lowers the
case first; an entity of several words makes a malformed `to_tsquery`, which costs the full-text
search; the structured look-up takes four entities and the first four terms, so that a name further on
is not looked up (`structured/executor.py:111`, `:149`); digits beside a word with a typo are lost,
and so is "কি" inside an unknown word; routes `BM25_ONLY`, `VECTOR_ONLY` and `TOOL` are ignored; a SKU
route's threshold of 0.0 is falsy (`rag/retriever.py:28`); pinned chunks are cut by the limit the
comment at `retriever.py:41` exempts them from; handlers that do not roll back leave the transaction
aborted and lose the usage event. `entity_graph` only ever gets products, so the graph has no edges.
Escalation by fraud alone is filed as "low"; compliance rules never block; the abuse counter has no
expiry when Redis fails after INCR.

*Channels and accounts.* The marker drops a message whose first processing failed. `AuthMiddleware`
sets only the user's id, so `TenantRateLimitMiddleware` never limits; the CORS middleware said to be
outermost is innermost (`core/middleware_config.py:19`); `/api/v1/auth/refresh` needs a valid token. A
removed member can still create agents, for which "owner or member" is asked (`api/agents.py:32`), and
see pages (`remove_member` leaves `users.organization_id`); the knowledge and product routes mean to
refuse users without an organization, but `str(None)` is not empty (`api/knowledge.py:66`); two
overrides of one flag make `is_enabled` and the list disagree; the handlers that delete an agent or a
conversation, and `/chat/send`, always answer 500, because they take a row for a dictionary; an
agent's policies (`api/agents.py:217`), new conversations, the overview's counts, a crawl's result
(`api/knowledge.py:115`) and the figures of retrieval ask for no organization; "(owner/admin only)" of
`update_organization` refuses admins.

## 5. Proofs

All proofs are checked by `tlapm` to the last leaf, from the named assumptions on the constants, which
TLC evaluates in the runs. The assumptions say what the code gives its constants: limits are numbers,
the sets of calls and organizations are finite (`FinitenessAssumption`), texts, chunks and histories
are sequences, chunks have indexes of their own (`QueryAssumption`), dictionaries are finite and have
entries that no space begins or ends, lower case is a fixed point and no map of single pieces makes a
space (`DictionaryAssumption`, as is true of every entry in the code), a page's parts have lines of at
most 2000 characters, a longer one being several (`SiteAssumption`: the least of the limits that cut a
text), and a window is longer than twice the overlap (`SizeAssumption`: 4000 and 200 by default, 800
for the smallest type). Every module has an invariant of types that its other proofs use:
`TypeCorrect` in seven of them, `Shaped`, `Session` and `Lists` in `RetrievalProofs`.

**`MeteringProofs`.** The inductive invariant `IInv` adds to `MeterNeverOvercounts`,
`InsertNeverOverwrites` and `EventsAreMetered` three facts they need: what a session loaded had
been applied by then (`LoadedWasApplied`: otherwise the sum written back could exceed what was
committed); a call about to commit without a committed row is the one holding the index entry
(`CommitterHoldsInsert`: otherwise its zero row could wipe out another's); and a call with a
committed event has started, so its key no longer changes (`EventsStarted`). There is one lemma
per kind of step: loading, inserting, committing, leaving, starting. Theorems: `NeverOvercounts`,
`NeverOverwrites`, `EventsMetered`.

`CountsEveryCall` is about sums. Its invariant is `Tally == Walking /\ Tallied /\ Metered`: while no
process died, each counter together with what it held when it expired and what Redis refused is exactly
the sum of the calls' shares,
and the counter of a month is at least the shares of the calls metered in it (`Tallied`); no more
was applied to a row than the calls that left their transaction added (`Metered`). A sum over a set
of calls is a fold, and the provers cannot do the induction over its set; the lemmas on sums rest on
a smallest counterexample instead (the least size at which a sum differs from its parts). One step
then changes one summand. `PagesAgree` follows: what the pages show is what was applied to the rows
or counted from the events, hence at most what the calls added, hence at most what the counters hold
or Redis refused.

**`ChatProofs`.** `Inductive`, with `Stages` (what is known of a request's outcome and metering at
each place) and `Vetting` (what has been passed by the time a request is at the risk score, the
model, or holds cache entries in its hands). It gives `Metered`, `Gated` and `VettedAnswers`;
`Remembered` is what `Gated` needs of the cache: an entry of GPT-4o is of an organization that had it.
`Covered` is about cardinalities of sets of slots: `OneMoves` says how one slot's move changes them,
and `Tallies` keeps, action by action, the answers of the models between what was counted, refused,
unmetered or is about to be recorded.

**`CrawlProofs`.** `StepKinds` classifies every step by what it does to a page (begins, is refused,
goes on, ends) or to the crawl (loop, stops), and the other lemmas follow the classes. `Once` rests
on a URL being in one place at a time (queued, ready, or visited) and in the seen set in each of
them; `Lossless` on every known URL being queued, ready, or dealt with; `Budgeted` on every visited
page being counted or in flight, and the visited and ready pages together staying below budget plus
batch. `Implements` is the refinement, `Spec => IsTraversal`: initial states map to initial states,
and each step to one of `Traversal` or to none, because of `TraversalInv` - what `Once` rests on,
and that every queued or ready URL is one the crawl was told of (`Heard`).

**`CrawlProofs`**, of the fetched pages. `Sound` says of what a step may make of a product's entity
that it is from the documents merged into it (`Sourced`), that each field has the value of the best
document that offers it (`Preferred`), and that it retains the SKUs the entity had (`Retains`).
Merging one more document keeps that (`MergeSound`), so whatever a strategy or a rendered page makes
of the entity, in whatever order, is sound. Theorems: `BestSources`, the first half of
`NothingOfferedIsLost`, and `VariantsStay`.

Its second half is about functions: `NothingIsLost` says of every page whatsoever - any states,
blocks, marks and Open Graph keys, any parts with any lines - that what its tables and accordions are
to tell (`Telling`: rows of several cells and cells that are no short words, a `<details>` with
summary and body, the first question and answer of another accordion) is indexed by the passes that
read them, and that it is read as empty only if it has no text, a price that cannot be read, or an
empty `<title>` and no other title. The lemmas go from the
community modules' operators (`Flattened`, `Placed`, `Listed`: what a concatenation, a selection and
a listing hold) over texts (`LengthsAdd`, `CutLeaves`: a text is never cut to nothing) to the passes:
what a platform's reading removes from the document is boilerplate (`Spared`), the semantic sections
hold every row of what is left (`SemanticHas`), and cleaning keeps the first row that says something
(`CleanLeaves`). `LengthsAdd` and `Flattened` are about recursive functions; that these exist, and
what they are, follows from a least number for which it would not (`Least`, `Induction`,
`Recursion`).

**`StripeProofs`.** `Genuine` (`NothingMadeUp`) holds in every mode, so it cannot rest on what a
handler read being the row that it overwrites. The inductive invariant `Faithful` says instead that
Stripe's log is true (`Told`: it tells of subscriptions Stripe has, in invoices that are as it says,
and of every plan), that the row and whatever a handler or a call has read are backed by it
(`Known`), and invoices too (`Invoiced`). Because Stripe forgets nothing (`Kept`), what was backed
stays so, and a commit that mixes the columns of two reads (`FlushType`) mixes backed ones.
`Canceled` (`CanceledOnlyIfStripeDid`) adds `Ended`, an event that says so is of a subscription
canceled for good, and `Serial`: without overlaps there is one handler, which has read the row as
it still is, and a call about to commit a cancellation has carried it out at Stripe.

`Synchronized` (`SyncedInOrder`) is about the run in order and without faults. Its invariant relates
the row to a prefix of Stripe's log. `History`: what the last event that brings a column says of it
holds at Stripe, and every checkout begins with the same two events. `Queued`: an event is handled
after all earlier ones and by itself. `Carried`: an API call about to commit has made its change at
Stripe, and nothing undoes it. `Shown`: the row shows the latest subscription once one of its events
is handled, and of it whatever no event is still to bring. `Reading`: what a handler read is the
row, up to what an API call wrote meanwhile, which is as at Stripe or a later event brings it.
`Listed`: each invoice is as at Stripe unless an event of it is awaited. When the log has been
delivered and nothing is in flight, nothing is still to be brought.

**`ChannelsProofs`.** `Once` rests on `Accounted`: for every message, what was processed and the
requests about to process it are at most the markers, the one that is set and those that lapsed;
and replies with the requests about to reply are at most what was processed. The cardinalities move
by one request at a time. `Remembered` rests on `CutAfterAppend`, that appending to the latest turns
and cutting gives the latest of all turns, and on a request's copy being the memory's until another
one appends.

**`KnowledgeProofs`.** `SlotSteps` classifies every step by what it does to one slot; the other lemmas
follow the classes. The inductive invariant `Sound` adds to the three properties `Placed`, what a
slot's place says of its task and its document, and `Ripe`: what a slot has stored so far is there,
unless another one emptied the document under it (`hit`), and then that is on record (`Held`,
`HeldFile`). So `Skipped` holds because a remembered hash is set by who has stored the document, and
a remembered ETag by who has just fetched it: some organization's copy of that page, not necessarily
the one that is skipped, is stored, in progress, deleted, or its ingestion has failed (`Met`), which
stays so as long as the process lives (`MetStays`). `Indexed`
follows in the same way, and `Gone` from `Fresh`: an answer from deleted knowledge is in the cache
only if its request was late or the reset has not ended.

**`AccountsProofs`.** `Unique` rests on the unique index alone, whatever the handler looked up.
`Named` needs `Belonging`: what the users' column names, and what a request in hand is about to
write there; that the organizations named exist is `Existing`, which rests on an organization's row
coming before its members' (`Born`). `Inward` says that what a request in hand will insert, and what
a handler that checks shows (`CheckedTo`), is for one who is or was an insider (`ShownToInsiders`);
removal keeps that, since who was removed was inside. Of the pages that show anybody anything
(`OpenTo`) it says nothing. `OneEach` needs
that a row's id is that of the request that inserted it (`Born`), and that of two rows of one
membership, or of a row and a request about to insert its like, the pair is in `raced` (`Single`).

**`RetrievalProofs`**, of documents. `Intact` says of every stretch of a line that is no longer than
the overlap and one cell that it is whole somewhere (`Preserved`): in a piece that was made, in the
section or the chunk in hand, ahead of the loop - in the first text only after the window's start
- or in a chunk. `Gliding` is why the overlap suffices: a stretch after the start of a window is in the
window, or after the start of the next one. It needs that a loop stands within a text only if that text
will be cut (`Tidy`), else the start would carry over to another text; and that a loop leaves
nothing behind, so that a crawl that begins again finds nothing. A stretch of one cell gives
`DocumentsAreKept`, of a whole line `ShortLinesSurvive`; `WindowsGoOn` follows from `Gliding`.
The text of a document is a recursive function, which is shown to exist by a least number
for which it does not. `RecrawlsTellTheCore` does not rest on the score, which another variant may
lower: while the reader fetches all rows (`AllFetched`), fields are only added (`ReconstructIs`), the
core is shown in every mode (`CoreIsShown`), and a page that is as complete as before is shown in a
mode that tells all that the former one told (`MoreCompleteIsShownMore`).

**`RetrievalProofs`**, of answers. `Session`: the transaction is only left aborted, and the event only
lost, after a fault, because each statement that the database may refuse by itself is rolled back
where it breaks; hence `EventsSurvive`. `KnowledgeArrives` says where the knowledge of a request
without faults is at each place, once a retrieval had matches (`Informed`): about to be found,
found, in the results, in the context, in the messages. The lemmas follow it through each pass -
filtering, ranking, merging, cutting to `top_k`, gathering, compressing - and say of each that it
does not make something out of nothing, nor nothing out of something. Without `faults = 0` it is
false: a statement that fails leaves the lists empty, as the code has it.

**`RetrievalProofs`, of names** (`ForeignNamesSurvive`). A word of one piece *stands* in a text if
spaces or an end are beside it (`Stands`, `Bears`), and each pass is shown to keep a foreign one
standing: reading piece by piece, which may spell it anew but makes no spaces (`ReadBears`,
`SpacesStay`); taking a text apart into words and joining them again, where a word that is in no map
stays (`UnlistedStays`); and replacing phrases in turn (`ReplacedBears`, `InTurnBears`). A phrase
without the word in it is found only wholly before or wholly after it; and because no space begins or
ends it, a replacement in its place leaves the spaces beside the word alone. So the word stands after
the normalization, spelled (`NormalizedBears`), after correction and rewriting, in lower case
(`RewrittenBears`), and in the wording that is retrieved by, to which only text after a space is
appended (`RetrievalBears`); and what stands there in lower case is named there (`BearsNames`).
Replacement, the replacements in turn and the flattening of a list are recursive functions. The
provers cannot do the induction, so `Counting` and `Recursion` show that such a function exists by a
least number at which it would fail. `Foreign` asks that neither the word nor any of its spellings,
nor what they are in lower case or bared of punctuation for a look-up (`Bared`), is a piece of an
entry: otherwise a later pass may rightly replace it ("XL" is no entry, but "xl" is). It asks nothing
of the words around it. The theorem is about the wording, not about which of its terms the structured
lookup takes.

Every invariant and action property of the passing runs is thus a theorem. Only model-checked: all
liveness (fairness and `ENABLED` are out of the prover's reach), with the finding, which is one; what
else `Understanding` computes - intents, entities, routes - beyond what the properties say of it; and
how complete or long what a page says is, beyond that it is there. Nothing the proofs reach uses a
`RECURSIVE` operator, behind which the provers see nothing.

## 6. Plan, and what is not modelled

Modelled, in order of importance: what customers are billed and limited by (`Metering`,
`ChatPipeline`), what they have bought (`StripeSync`), where the assistant's knowledge comes from
(`Crawl`, `Extraction`, `Products`, `Knowledge`), how it answers (`Understanding`, `Answer`), who
talks to it (`Channels`), who owns it (`Accounts`).

Next: a second API call at the same time in `StripeSync`; the Celery retry of a failed crawl, which
starts another one; names of several pieces, which a phrase may cut, in `NamesSurvive`.

Not modelled:

- crawler code nothing calls: paginated GraphQL, the entity graph's writers, the variant
  resolver, site strategies, bundle analysis, `content_extractor`, `product_detector`,
  `_extract_metafields*` and `_build_shopify_content` of the scraper; the S3 copies and `CrawledPage`
  contents that are written and never read;
- the clients of Messenger, Instagram, Slack, e-mail and S3: one HTTP call each, no state;
- the Celery tasks for chat (which calls the pipeline with the user's id as the organization) and
  for evaluation, and the beat schedule;
- the legacy services layer (`app/services/`, `app/tools/`), but for its model and embedding clients,
  which the pipeline and the semantic cache call and which appear as their calls; the rest repeats
  state the orchestrator keeps and is not on the path of a query;
- episodic memory, rolling summaries, failed queries and feedback, `governance/engine.py`,
  `policy_engine.py`, graph ranking and relation extraction, half of `knowledge_fusion`: nothing on a
  path of the application calls them;
- the hallucination check, prompts and evaluation: calls to the model and scores of texts, with no
  state;
- observability, on which nothing is decided;
- token handling, validation, schemas, exceptions, connection set-up; deployment, from which the
  numbers of processes are taken.

Within the modelled parts: the administrator's reset of quotas, revenue and active tenants in the
reports; the payments table; the expiry of the conversation memory; the
wording of answers and the contents of prompts; ratings that depend on floating-point rounding.
