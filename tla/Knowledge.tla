------------------------------ MODULE Knowledge ------------------------------
(***************************************************************************)
(* The knowledge of the organizations: the chunks in the vector store      *)
(* (app/rag/ingestion.py, vector_store.py), what every process remembers   *)
(* of the pages it crawled, for whichever organization (page_hashing.py,   *)
(* the HTTP cache of scraper.py), uploads (app/api/knowledge.py,           *)
(* uploads.py, embedding_tasks.py), deletions, and the answers the         *)
(* semantic cache keeps for one agent.                                     *)
(*                                                                         *)
(* A slot is one coroutine or task of its process.  A step lasts from one  *)
(* await, commit or call of another process to the next; between the       *)
(* commits of one document there is no await, so the coroutines of one     *)
(* process do not interleave there, but those of other processes do.       *)
(***************************************************************************)
EXTENDS Naturals, FiniteSets

CONSTANTS
    Procs, Workers,     \* processes; those of Celery (the others serve the API)
    Slots, Host,        \* what runs at the same time, and in which process
    Orgs, Home,         \* organizations; that of the agent that is asked
    Pages,              \* URLs of pages with content
    Html,               \* Html[u][v]: the HTML of version v of a page's text
    Tagged,             \* pages served with an ETag or a Last-Modified header
    Files, Owner,       \* uploaded files, each under a name of its own; whose
    NChunks,            \* chunks of a document
    Preview,            \* chunks of a file's content_preview
    Retries,            \* max_retries of embed_document
    MaxVersion,         \* bound on the changes of a page
    MaxTasks, MaxFaults,    \* bounds on tasks, and on errors and deaths
    None                \* nothing remembered, no document

Versions == 0..MaxVersion
Chunks   == 1..NChunks
PageDocs == Pages \X Versions \X Orgs
FileDoc(f) == <<f, 0, Owner[f]>>
FileDocs == {FileDoc(f) : f \in Files}
Docs     == PageDocs \union FileDocs
Sources  == Pages \union Files

ASSUME ConstantsAssumption ==
    /\ Workers \subseteq Procs
    /\ Host \in [Slots -> Procs]
    /\ Home \in Orgs /\ Owner \in [Files -> Orgs]
    /\ Tagged \subseteq Pages
    (* The text of a Shopify product is that of its product.json. *)
    /\ Html \in [Pages -> [Versions -> Versions]]
    /\ \A u \in Tagged, v \in Versions : Html[u][v] = v
    /\ Pages \intersect Files = {} /\ None \notin Pages \union Files \union Nat
    /\ NChunks \in Nat \ {0} /\ Preview \in Chunks
    /\ {Retries, MaxVersion, MaxTasks, MaxFaults} \subseteq Nat

VARIABLES
    site,       \* site[u]: the version of the page's text at its web server
    chunks,     \* chunks[d]: the chunks of d with a row in document_chunks, or several
    hash,       \* hash[p][u]: _page_hashes of the process, of HTML
    etag,       \* etag[p][u]: _http_cache of the process
    record,     \* record[f]: the UploadedFile row
    queue,      \* embed_document jobs, <<file, attempt>>
    cache,      \* the agent's entries: "current", or of "deleted" knowledge
    task, at,   \* what each slot does, and where it is
    doc, next,  \* the document it ingests, and the chunk it stores next
    attempt,    \* the attempt of an embed_document job
    answer, seen,   \* a chat's answer; the entries semantic_cache.set read
    hit,        \* history: the document was deleted since it was taken up
    deleted, failed,    \* history: <<process, document>> deleted or failed
    late,       \* history: an answer was under way when the cache was cleared
    abandoned,  \* history: files whose job was given up, lost or discarded
    tasks, faults   \* towards the bounds

memory  == <<hash, etag>>
uploads == <<record, queue, abandoned>>
work    == <<doc, next, attempt, hit>>
chat    == <<cache, answer, seen, late>>
marks   == <<deleted, failed>>
vars == <<site, chunks, memory, uploads, task, at, work, chat, marks, tasks, faults>>

Tasks  == {"none", "crawl", "upload", "embed", "reset", "chat"}
Places == {"idle", "request", "fetched", "queue", "embed", "store", "finish",
           "hashes", "clear", "answer", "remember"}
Labels == {"current", "deleted"}

NoDoc == <<None, None, None>>

Init ==
    /\ site = [u \in Pages |-> 0]
    /\ chunks = [d \in Docs |-> {}]
    /\ hash = [p \in Procs |-> [u \in Pages |-> None]]
    /\ etag = [p \in Procs |-> [u \in Pages |-> None]]
    /\ record = [f \in Files |-> "none"] /\ queue = {}
    /\ cache = {}
    /\ task = [s \in Slots |-> "none"] /\ at = [s \in Slots |-> "idle"]
    /\ doc = [s \in Slots |-> NoDoc] /\ next = [s \in Slots |-> 1]
    /\ attempt = [s \in Slots |-> 0]
    /\ answer = [s \in Slots |-> "current"] /\ seen = [s \in Slots |-> {}]
    /\ hit = [s \in Slots |-> FALSE]
    /\ deleted = {} /\ failed = {} /\ late = FALSE /\ abandoned = {}
    /\ tasks = 0 /\ faults = 0

-----------------------------------------------------------------------------
Go(s, place) == at' = [at EXCEPT ![s] = place]

(* The slot's process is not between two commits of another slot's document. *)
Scheduled(s) == \A r \in Slots \ {s} : Host[r] = Host[s] => at[r] \notin {"store", "finish"}

Begin(s, what, place) ==
    /\ at[s] = "idle" /\ Scheduled(s)
    /\ tasks < MaxTasks /\ tasks' = tasks + 1
    /\ task' = [task EXCEPT ![s] = what]
    /\ Go(s, place)

Take(s, d) ==
    /\ doc' = [doc EXCEPT ![s] = d]
    /\ next' = [next EXCEPT ![s] = 1]
    /\ hit' = [hit EXCEPT ![s] = FALSE]

End(s) ==
    /\ Go(s, "idle")
    /\ task' = [task EXCEPT ![s] = "none"]
    /\ doc' = [doc EXCEPT ![s] = NoDoc]
    /\ next' = [next EXCEPT ![s] = 1]
    /\ attempt' = [attempt EXCEPT ![s] = 0]
    /\ hit' = [hit EXCEPT ![s] = FALSE]

Fault == faults < MaxFaults /\ faults' = faults + 1

Mine(s) == <<Host[s], doc[s]>>
HtmlOf(d) == Html[d[1]][d[2]]
Remembers(m, s) == [m EXCEPT ![Host[s]][doc[s][1]] = HtmlOf(doc[s])]

-----------------------------------------------------------------------------
(* A page of a crawl, by Celery or, without workers, in the API's process. *)

(* The request carries the ETag this process remembers of the URL, from a  *)
(* crawl for whichever organization.                                       *)
Request(s, u, o) ==
    /\ Begin(s, "crawl", "request")
    /\ Take(s, <<u, etag[Host[s]][u], o>>)
    /\ UNCHANGED <<site, chunks, memory, uploads, attempt, chat, marks, faults>>

NotModified(s) ==
    /\ at[s] = "request" /\ Scheduled(s)
    /\ doc[s][2] = site[doc[s][1]]
    /\ End(s)
    /\ UNCHANGED <<site, chunks, memory, uploads, chat, marks, tasks, faults>>

(* The headers come, and the ETag is remembered, before the body does. *)
Tag(s, u) ==
    etag' = IF u \in Tagged THEN [etag EXCEPT ![Host[s]][u] = site[u]] ELSE etag

Fetched(s) ==
    /\ at[s] = "request" /\ Scheduled(s)
    /\ LET u == doc[s][1] IN
          /\ doc[s][2] # site[u]
          /\ Tag(s, u)
          /\ Take(s, <<u, site[u], doc[s][3]>>)
    /\ Go(s, "fetched")
    /\ UNCHANGED <<site, chunks, hash, uploads, task, attempt, chat, marks, tasks, faults>>

(* The request fails, without headers or after them. *)
FetchFails(s) ==
    /\ at[s] = "request" /\ Scheduled(s) /\ Fault
    /\ LET u == doc[s][1] IN
          \/ UNCHANGED <<etag, failed>>
          \/ /\ doc[s][2] # site[u]
             /\ Tag(s, u)
             /\ failed' = failed \union {<<Host[s], <<u, site[u], doc[s][3]>>>>}
    /\ End(s)
    /\ UNCHANGED <<site, chunks, hash, uploads, chat, deleted, tasks>>

(* A page whose HTML is that of the URL's last one is skipped. *)
Compare_Remembers(s) ==    \* mutant: the hash is remembered when it is compared
    /\ at[s] = "fetched" /\ Scheduled(s)
    /\ IF hash[Host[s]][doc[s][1]] = HtmlOf(doc[s])
       THEN End(s)
       ELSE Go(s, "embed") /\ UNCHANGED <<task, work>>
    /\ hash' = Remembers(hash, s)
    /\ UNCHANGED <<site, chunks, etag, uploads, chat, marks, tasks, faults>>

Compare(s) ==
    /\ at[s] = "fetched" /\ Scheduled(s)
    /\ IF hash[Host[s]][doc[s][1]] = HtmlOf(doc[s])
       THEN End(s)
       ELSE Go(s, "embed") /\ UNCHANGED <<task, work>>
    /\ UNCHANGED <<site, chunks, memory, uploads, chat, marks, tasks, faults>>

-----------------------------------------------------------------------------
(* document_ingestion.ingest: all chunks are embedded, then stored one by  *)
(* one, each in a transaction of its own.                                  *)
Last(s) == IF task[s] = "embed" THEN Preview ELSE NChunks

Embed(s) ==
    /\ at[s] = "embed" /\ Scheduled(s)
    /\ Go(s, "store")
    /\ UNCHANGED <<site, chunks, memory, uploads, task, work, chat, marks, tasks, faults>>

StoreChunk(s) ==
    /\ at[s] = "store"
    /\ chunks' = [chunks EXCEPT ![doc[s]] = @ \union {next[s]}]
    /\ IF next[s] < Last(s)
       THEN next' = [next EXCEPT ![s] = @ + 1] /\ UNCHANGED at
       ELSE Go(s, "finish") /\ UNCHANGED next
    /\ UNCHANGED <<site, memory, uploads, task, doc, attempt, hit, chat, marks, tasks, faults>>

(* After the last chunk, in the same step of the process: a page is hashed *)
(* (and its CrawledPage row inserted, or not), a job marks its file.       *)
Finish(s) ==
    /\ at[s] = "finish"
    /\ task[s] = "embed" => record[doc[s][1]] # "deleted"
    /\ hash' = IF task[s] = "crawl" THEN Remembers(hash, s) ELSE hash
    /\ record' = IF task[s] = "embed" THEN [record EXCEPT ![doc[s][1]] = "indexed"] ELSE record
    /\ IF hit[s] THEN UNCHANGED marks
       ELSE deleted' = deleted \ {Mine(s)} /\ failed' = failed \ {Mine(s)}
    /\ End(s)
    /\ UNCHANGED <<site, chunks, etag, queue, abandoned, chat, tasks, faults>>

(* An exception: the page is an error, the request answers all the same,   *)
(* the job is retried, from the beginning.                                 *)
Retry_Drops(s) == UNCHANGED <<queue, abandoned>>    \* mutant: the exception is only logged
Retry(s) ==
    IF attempt[s] < Retries
    THEN queue' = queue \union {<<doc[s][1], attempt[s] + 1>>} /\ UNCHANGED abandoned
    ELSE abandoned' = abandoned \union {doc[s][1]} /\ UNCHANGED queue

IngestFails(s) ==
    /\ at[s] \in {"embed", "store"} \/ (at[s] = "finish" /\ task[s] = "embed")
    /\ at[s] = "embed" => Scheduled(s)
    /\ Fault
    /\ IF task[s] = "crawl" THEN failed' = failed \union {Mine(s)} ELSE UNCHANGED failed
    /\ IF task[s] = "embed" THEN Retry(s) ELSE UNCHANGED <<queue, abandoned>>
    /\ End(s)
    /\ UNCHANGED <<site, chunks, memory, record, chat, deleted, tasks>>

(* The row went while the job ran: its update fails, and it is retried.    *)
RowGone(s) ==
    /\ at[s] = "finish" /\ task[s] = "embed" /\ record[doc[s][1]] = "deleted"
    /\ Retry(s)
    /\ End(s)
    /\ UNCHANGED <<site, chunks, memory, record, chat, marks, tasks, faults>>

-----------------------------------------------------------------------------
(* An upload: the row is committed, the job queued, and the file ingested  *)
(* by the request as well.                                                 *)
Upload(s, f) ==
    /\ Host[s] \notin Workers /\ record[f] = "none"
    /\ Begin(s, "upload", "queue")
    /\ Take(s, FileDoc(f))
    /\ record' = [record EXCEPT ![f] = "saved"]
    /\ UNCHANGED <<site, chunks, memory, queue, abandoned, attempt, chat, marks, faults>>

Enqueue(s) ==
    /\ at[s] = "queue" /\ Scheduled(s)
    /\ queue' = queue \union {<<doc[s][1], 0>>}
    /\ Go(s, "embed")
    /\ UNCHANGED <<site, chunks, memory, record, abandoned, task, work, chat, marks, tasks, faults>>

(* The broker fails: the request answers with an error. *)
EnqueueFails(s) ==
    /\ at[s] = "queue" /\ Scheduled(s) /\ Fault
    /\ End(s)
    /\ UNCHANGED <<site, chunks, memory, uploads, chat, marks, tasks>>

Free(s) == Host[s] \in Workers /\ at[s] = "idle" /\ Scheduled(s)

TakeJob_MarksFirst(s, job) ==    \* mutant: the file is marked before it is ingested
    /\ Free(s) /\ job \in queue /\ record[job[1]] # "deleted"
    /\ queue' = queue \ {job}
    /\ record' = [record EXCEPT ![job[1]] = "indexed"]
    /\ task' = [task EXCEPT ![s] = "embed"] /\ Go(s, "embed")
    /\ Take(s, FileDoc(job[1]))
    /\ attempt' = [attempt EXCEPT ![s] = job[2]]
    /\ UNCHANGED <<site, chunks, memory, abandoned, chat, marks, tasks, faults>>

(* A worker that knows the task takes the job.  Its preview is not empty:  *)
(* only files with text are queued.                                        *)
TakeJob(s, job) ==
    /\ Free(s) /\ job \in queue /\ record[job[1]] # "deleted"
    /\ queue' = queue \ {job}
    /\ task' = [task EXCEPT ![s] = "embed"] /\ Go(s, "embed")
    /\ Take(s, FileDoc(job[1]))
    /\ attempt' = [attempt EXCEPT ![s] = job[2]]
    /\ UNCHANGED <<site, chunks, memory, record, abandoned, chat, marks, tasks, faults>>

NotFound(s, job) ==
    /\ Free(s) /\ job \in queue /\ record[job[1]] = "deleted"
    /\ queue' = queue \ {job}
    /\ UNCHANGED <<site, chunks, memory, record, abandoned, task, at, work, chat, marks, tasks, faults>>

(* A worker started with celery_config alone, as those of docker-compose   *)
(* and docker/celery are, has imported no task, and drops the message.     *)
Discard(s, job) ==
    /\ Free(s) /\ job \in queue
    /\ queue' = queue \ {job}
    /\ abandoned' = abandoned \union {job[1]}
    /\ UNCHANGED <<site, chunks, memory, record, task, at, work, chat, marks, tasks, faults>>

(* DELETE /uploads/file/{id}: the row goes, its chunks stay. *)
DeleteUpload(s, f) ==
    /\ Host[s] \notin Workers
    /\ at[s] = "idle" /\ Scheduled(s)
    /\ tasks < MaxTasks /\ tasks' = tasks + 1
    /\ record[f] \in {"saved", "indexed"}
    /\ record' = [record EXCEPT ![f] = "deleted"]
    /\ UNCHANGED <<site, chunks, memory, queue, abandoned, task, at, work, chat, marks, faults>>

-----------------------------------------------------------------------------
(* Deletions, by the API, of an organization's own chunks.  The hashes and *)
(* HTTP caches stay as they are.                                           *)
Of(d, o, sources) == d[1] \in sources /\ d[3] = o

Drop(o, sources) ==
    /\ chunks' = [d \in Docs |-> IF Of(d, o, sources) THEN {} ELSE chunks[d]]
    /\ hit' = [s \in Slots |-> hit[s] \/ Of(doc[s], o, sources)]
    /\ deleted' = deleted \union {m \in Procs \X Docs : Of(m[2], o, sources)}

DeleteSource(s, o, source) ==
    /\ Host[s] \notin Workers
    /\ at[s] = "idle" /\ Scheduled(s)
    /\ tasks < MaxTasks /\ tasks' = tasks + 1
    /\ Drop(o, {source})
    /\ UNCHANGED <<site, memory, uploads, task, at, doc, next, attempt, chat, failed, faults>>

Outdated(entries) == IF entries = {} THEN {} ELSE {"deleted"}

DeleteAll(s, o) ==
    /\ Host[s] \notin Workers
    /\ Begin(s, "reset", "hashes")
    /\ Drop(o, Sources)
    /\ IF o = Home
       THEN /\ cache' = Outdated(cache)
            /\ answer' = [r \in Slots |-> IF at[r] \in {"answer", "remember"} THEN "deleted" ELSE answer[r]]
            /\ seen' = [r \in Slots |-> Outdated(seen[r])]
       ELSE UNCHANGED <<cache, answer, seen>>
    /\ UNCHANGED <<site, memory, uploads, doc, next, attempt, late, failed, faults>>

(* After the S3 objects: the hashes of this process, those of the other    *)
(* organizations' pages as well, then every agent's cache.                 *)
ClearHashes_Returns(s) ==    \* mutant: the cache is left as it is
    /\ at[s] = "hashes" /\ Scheduled(s)
    /\ hash' = [hash EXCEPT ![Host[s]] = [u \in Pages |-> None]]
    /\ End(s)
    /\ UNCHANGED <<site, chunks, etag, uploads, chat, marks, tasks, faults>>

ClearHashes(s) ==
    /\ at[s] = "hashes" /\ Scheduled(s)
    /\ hash' = [hash EXCEPT ![Host[s]] = [u \in Pages |-> None]]
    /\ Go(s, "clear")
    /\ UNCHANGED <<site, chunks, etag, uploads, task, work, chat, marks, tasks, faults>>

Answering == {r \in Slots : at[r] \in {"answer", "remember"}}

ClearCache(s) ==
    /\ at[s] = "clear" /\ Scheduled(s)
    /\ \/ cache' = {} /\ late' = (Answering # {}) /\ UNCHANGED faults
       \/ Fault /\ late' = TRUE /\ UNCHANGED cache    \* Redis fails; that is swallowed
    /\ End(s)
    /\ UNCHANGED <<site, chunks, memory, uploads, answer, seen, marks, tasks>>

(* DELETE /knowledge/cache *)
ClearByHand(s) ==
    /\ Host[s] \notin Workers
    /\ at[s] = "idle" /\ Scheduled(s)
    /\ tasks < MaxTasks /\ tasks' = tasks + 1
    /\ cache' = {} /\ late' = (Answering # {})
    /\ UNCHANGED <<site, chunks, memory, uploads, task, at, work, answer, seen, marks, faults>>

-----------------------------------------------------------------------------
(* A chat: an answer from the knowledge there is, kept in the cache, whose *)
(* entries are read, and written back an await later.                      *)
Ask(s) ==
    /\ Begin(s, "chat", "answer")
    /\ UNCHANGED <<site, chunks, memory, uploads, work, chat, marks, faults>>

Remember(s) ==
    /\ at[s] = "answer" /\ Scheduled(s)
    /\ seen' = [seen EXCEPT ![s] = cache]
    /\ Go(s, "remember")
    /\ UNCHANGED <<site, chunks, memory, uploads, task, work, cache, answer, late, marks, tasks, faults>>

Keep(s) ==
    /\ at[s] = "remember" /\ Scheduled(s)
    /\ cache' = seen[s] \union {answer[s]}
    /\ answer' = [answer EXCEPT ![s] = "current"]
    /\ seen' = [seen EXCEPT ![s] = {}]
    /\ End(s)
    /\ UNCHANGED <<site, chunks, memory, uploads, late, marks, tasks, faults>>

-----------------------------------------------------------------------------
ChangePage(u) ==
    /\ site[u] < MaxVersion
    /\ site' = [site EXCEPT ![u] = @ + 1]
    /\ UNCHANGED <<chunks, memory, uploads, task, at, work, chat, marks, tasks, faults>>

(* A process dies, with what it remembers.  A job is acknowledged when it  *)
(* is taken, so it is lost.                                                *)
Die(p) ==
    /\ Fault
    /\ LET on == {s \in Slots : Host[s] = p}
           Reset(f, v) == [s \in Slots |-> IF s \in on THEN v ELSE f[s]] IN
          /\ hash' = [hash EXCEPT ![p] = [u \in Pages |-> None]]
          /\ etag' = [etag EXCEPT ![p] = [u \in Pages |-> None]]
          /\ abandoned' = abandoned \union {doc[s][1] : s \in {r \in on : task[r] = "embed"}}
          /\ late' = (late \/ \E s \in on : task[s] = "reset")
          /\ task' = Reset(task, "none") /\ at' = Reset(at, "idle")
          /\ doc' = Reset(doc, NoDoc) /\ next' = Reset(next, 1)
          /\ attempt' = Reset(attempt, 0) /\ hit' = Reset(hit, FALSE)
          /\ answer' = Reset(answer, "current") /\ seen' = Reset(seen, {})
    /\ UNCHANGED <<site, chunks, record, queue, cache, marks, tasks>>

-----------------------------------------------------------------------------
Crawling(s)  == NotModified(s) \/ Fetched(s) \/ Compare(s)
Ingesting(s) == Embed(s) \/ StoreChunk(s) \/ Finish(s) \/ RowGone(s)
Deleting(s)  == ClearHashes(s) \/ ClearCache(s)
Chatting(s)  == Remember(s) \/ Keep(s)
Step(s) == Crawling(s) \/ Ingesting(s) \/ Enqueue(s) \/ Deleting(s) \/ Chatting(s)

Start(s) ==
    \/ \E u \in Pages, o \in Orgs : Request(s, u, o)
    \/ \E f \in Files : Upload(s, f) \/ DeleteUpload(s, f)
    \/ \E o \in Orgs, source \in Sources : DeleteSource(s, o, source)
    \/ \E o \in Orgs : DeleteAll(s, o)
    \/ ClearByHand(s) \/ Ask(s)

Work(s, job) == TakeJob(s, job) \/ NotFound(s, job) \/ Discard(s, job)

Failing(s) == FetchFails(s) \/ IngestFails(s) \/ EnqueueFails(s)

Next ==
    \/ \E s \in Slots : Start(s) \/ Step(s) \/ Failing(s) \/ \E job \in queue : Work(s, job)
    \/ \E u \in Pages : ChangePage(u)
    \/ \E p \in Procs : Die(p)

Spec == Init /\ [][Next]_vars

(* What a process is doing goes on, and a worker reads the jobs' queue,    *)
(* though it need not know the task.                                       *)
FairSpec ==
    /\ Spec
    /\ \A s \in Slots : WF_vars(Step(s))
    /\ \A s \in Slots : WF_vars(\E job \in queue : Work(s, job))
=============================================================================
