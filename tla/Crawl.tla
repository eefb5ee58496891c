-------------------------------- MODULE Crawl --------------------------------
(***************************************************************************)
(* One crawl of a website (app/crawler/engine.py) over its URL frontier    *)
(* (app/crawler/url_frontier.py), run by a Celery task                     *)
(* (app/workers/crawler_tasks.py) or, without workers, by the API request  *)
(* itself (app/api/knowledge.py).                                          *)
(*                                                                         *)
(* The engine pops a batch of URLs and processes them as coroutines of one *)
(* event loop: a step lasts from one await to the next, and the counters   *)
(* they share are read in one step and increased in a later one.           *)
(***************************************************************************)
EXTENDS Naturals, FiniteSets

CONSTANTS
    Urls,           \* normalized URLs of the site that should_skip lets pass
    Seeds,          \* the sitemap's URLs, or the start URL
    Links,          \* Links[u]: the URLs the page u links to
    Disallowed,     \* URLs robots.txt disallows
    Blocked,        \* URLs a web application firewall blocks
    Priority,       \* Priority[u]: lower is fetched first
    MaxPages, MaxDepth, MaxRenders,    \* the job's limits
    Concurrency     \* FETCH_CONCURRENCY

ASSUME ConstantsAssumption ==
    /\ IsFiniteSet(Urls)
    /\ Seeds \subseteq Urls /\ Disallowed \subseteq Urls /\ Blocked \subseteq Urls
    /\ Links \in [Urls -> SUBSET Urls]
    /\ Priority \in [Urls -> Nat]
    /\ {MaxPages, MaxDepth, MaxRenders} \subseteq Nat
    /\ Concurrency \in Nat \ {0}

VARIABLES
    host,       \* who runs the crawl
    phase,      \* where the crawl is
    job,        \* the CrawlJob row's status
    queue,      \* crawler:frontier:<job>
    known,      \* crawler:seen:<job>
    depth,      \* batches processed
    at,         \* at[u]: where u's coroutine is awaiting
    ingested, skipped, errors, js_renders,    \* the crawl's counters
    clock,      \* the time limits passed
    visits,     \* history: visits[u], how often u was fetched
    followed    \* history: pages whose links were pushed

counters == <<ingested, skipped, errors, js_renders>>
frontier == <<queue, known>>
history  == <<visits, followed>>
vars == <<host, phase, job, frontier, depth, at, counters, clock, history>>

Places == {"none", "ready", "fetch", "fetch_with_browser", "store", "ingest"}
Phases == {"seed", "loop", "batch", "closing", "marking", "done", "failed", "killed"}
Ended  == {"done", "failed", "killed"}

Init ==
    /\ host \in {"celery", "api"}
    /\ phase = "seed"
    /\ job = "crawling"
    /\ queue = {} /\ known = {}
    /\ depth = 0
    /\ at = [u \in Urls |-> "none"]
    /\ ingested = 0 /\ skipped = 0 /\ errors = 0 /\ js_renders = 0
    /\ clock = "early"
    /\ visits = [u \in Urls |-> 0]
    /\ followed = {}

-----------------------------------------------------------------------------
(* The frontier. *)
Push_Unseen(urls) ==    \* mutant: the seen set is not written
    queue' = queue \union urls /\ UNCHANGED known

Push(urls) ==
    /\ queue' = queue \union (urls \ known)
    /\ known' = known \union urls

(* zpopmin: as many as there are up to the batch size, lowest score first. *)
Batches ==
    {batch \in SUBSET queue :
        /\ \/ Cardinality(batch) = Concurrency
           \/ Cardinality(batch) < Concurrency /\ batch = queue
        /\ \A u \in batch, v \in queue \ batch : Priority[u] <= Priority[v]}

-----------------------------------------------------------------------------
(* The main loop. *)
Seed ==
    /\ phase = "seed"
    /\ Push(Seeds)
    /\ phase' = "loop"
    /\ UNCHANGED <<host, job, depth, at, counters, clock, history>>

Exhausted ==
    \/ ingested + skipped + errors >= MaxPages
    \/ clock = "expired"
    \/ queue = {}

PopBatch_DropsRest ==    \* mutant: the whole queue is popped, one batch is processed
    /\ phase = "loop" /\ ~Exhausted
    /\ queue' = {}
    /\ \E batch \in Batches : at' = [u \in Urls |-> IF u \in batch THEN "ready" ELSE "none"]
    /\ phase' = "batch"
    /\ UNCHANGED <<host, job, known, depth, counters, clock, history>>

PopBatch ==
    /\ phase = "loop" /\ ~Exhausted
    /\ \E batch \in Batches :
          /\ queue' = queue \ batch
          /\ at' = [u \in Urls |-> IF u \in batch THEN "ready" ELSE "none"]
    /\ phase' = "batch"
    /\ UNCHANGED <<host, job, known, depth, counters, clock, history>>

BatchDone ==
    /\ phase = "batch"
    /\ \A u \in Urls : at[u] = "none"
    /\ phase' = "loop"
    /\ depth' = depth + 1
    /\ UNCHANGED <<host, job, frontier, at, counters, clock, history>>

LeaveLoop ==
    /\ phase = "loop" /\ Exhausted
    /\ phase' = "closing"
    /\ UNCHANGED <<host, job, frontier, depth, at, counters, clock, history>>

(* The metrics are recorded and the frontier is deleted. *)
Close ==
    /\ phase = "closing"
    /\ queue' = {} /\ known' = {}
    /\ phase' = "marking"
    /\ UNCHANGED <<host, job, depth, at, counters, clock, history>>

Mark_Unmarked ==    \* mutant: a crawl that ingested nothing leaves the job as it is
    /\ phase = "marking"
    /\ phase' = "done" /\ job' = IF ingested > 0 THEN "completed" ELSE job
    /\ UNCHANGED <<host, frontier, depth, at, counters, clock, history>>

(* The Celery task marks its job; the row the engine made for the API      *)
(* stays as it is.                                                         *)
Mark ==
    /\ phase = "marking"
    /\ phase' = "done"
    /\ job' = IF host = "celery" THEN "completed" ELSE job
    /\ UNCHANGED <<host, frontier, depth, at, counters, clock, history>>

-----------------------------------------------------------------------------
(* process_url *)
Alive == phase \in {"batch", "failed"}    \* see Raise

Goes(u, place) == at' = [at EXCEPT ![u] = place]
Fetching(u) == at[u] \in {"fetch", "fetch_with_browser"}
Running(u)  == Fetching(u) \/ at[u] \in {"store", "ingest"}

Start_Unasked(u) ==    \* mutant: robots.txt is not asked
    /\ Alive /\ at[u] = "ready"
    /\ Goes(u, IF js_renders < MaxRenders THEN "fetch_with_browser" ELSE "fetch")
    /\ visits' = [visits EXCEPT ![u] = @ + 1]
    /\ UNCHANGED <<host, phase, job, frontier, depth, counters, clock, followed>>

Start(u) ==
    /\ Alive /\ at[u] = "ready"
    /\ IF u \in Disallowed
       THEN Goes(u, "none") /\ UNCHANGED visits
       ELSE /\ Goes(u, IF js_renders < MaxRenders THEN "fetch_with_browser" ELSE "fetch")
            /\ visits' = [visits EXCEPT ![u] = @ + 1]
    /\ UNCHANGED <<host, phase, job, frontier, depth, counters, clock, followed>>

(* A blocked page is fetched through the browser, or else by another       *)
(* client, where the browser may be used; otherwise there is no page.      *)
Render(u) == u \in Blocked => at[u] = "fetch_with_browser"

(* What scrape reports as used_browser, rendered or not: always False. *)
used_browser == 0

Fetched(u) ==
    /\ Alive /\ Fetching(u)
    /\ Render(u)
    /\ js_renders' = js_renders + used_browser
    /\ Goes(u, "store")
    /\ UNCHANGED <<host, phase, job, frontier, depth, ingested, skipped, errors, clock,
                   visits, followed>>

Stored(u) ==
    /\ Alive /\ at[u] = "store"
    /\ Goes(u, "ingest")
    /\ UNCHANGED <<host, phase, job, frontier, depth, counters, clock, history>>

(* No page, an unchanged page, or too little content. *)
Skip_Uncounted(u) ==    \* mutant: a page that is skipped costs nothing
    /\ Alive /\ Fetching(u)
    /\ Goes(u, "none")
    /\ UNCHANGED <<host, phase, job, frontier, depth, counters, clock, history>>

Skip(u) ==
    /\ Alive
    /\ Fetching(u) \/ at[u] = "store"
    /\ Goes(u, "none")
    /\ skipped' = skipped + 1
    /\ UNCHANGED <<host, phase, job, frontier, depth, ingested, errors, js_renders, clock,
                   visits, followed>>

(* The page is recorded and counted, and its links are pushed. *)
Follow(u) ==
    IF depth < MaxDepth
    THEN Push(Links[u]) /\ followed' = followed \union {u}
    ELSE UNCHANGED <<frontier, followed>>

Ingest(u) ==
    /\ Alive /\ at[u] = "ingest"
    /\ ingested' = ingested + 1
    /\ Follow(u)
    /\ Goes(u, "none")
    /\ UNCHANGED <<host, phase, job, depth, skipped, errors, js_renders, clock, visits>>

(* Any exception of the page's processing is counted, and logged. *)
Fail(u) ==
    /\ Alive /\ Running(u)
    /\ errors' = errors + 1
    /\ Goes(u, "none")
    /\ UNCHANGED <<host, phase, job, frontier, depth, ingested, skipped, js_renders, clock,
                   visits, followed>>

(* Redis fails when the links are pushed: the page was counted already. *)
PushFails(u) ==
    /\ Alive /\ at[u] = "ingest" /\ depth < MaxDepth
    /\ ingested' = ingested + 1 /\ errors' = errors + 1
    /\ Goes(u, "none")
    /\ UNCHANGED <<host, phase, job, frontier, depth, skipped, js_renders, clock, history>>

-----------------------------------------------------------------------------
(* Time and failure. *)

(* An exception leaves the engine.  The Celery task marks its job, if the  *)
(* database lets it; the API answers with an error.  gather does not stop  *)
(* the coroutines of the batch, which go on in the process's event loop.   *)
Raise ==
    /\ phase' = "failed"
    /\ job' \in IF host = "celery" THEN {"failed", job} ELSE {job}
    /\ UNCHANGED <<host, frontier, depth, history>>

(* Redis or the database fails, between the batches or at the end. *)
Abort ==
    /\ phase \in {"seed", "loop", "closing", "marking"}
    /\ Raise
    /\ UNCHANGED <<at, counters, clock>>

Broken(u) ==
    /\ Running(u)
    /\ errors' = errors + 1
    /\ Goes(u, "none")
    /\ UNCHANGED <<ingested, skipped, js_renders>>

(* A page fails, and so does the rollback after logging that it did. *)
Collapse(u) ==
    /\ phase = "batch"
    /\ Broken(u)
    /\ Raise
    /\ UNCHANGED clock

(* Celery's soft limit raises an exception wherever the task is, once: in  *)
(* a page's coroutine it is just an error of that page.                    *)
SoftLimit ==
    /\ host = "celery" /\ clock = "early" /\ clock' = "soft"
    /\ phase \notin Ended
    /\ \/ Raise /\ UNCHANGED <<at, counters>>
       \/ /\ phase = "batch"
          /\ \E u \in Urls : Broken(u)
          /\ UNCHANGED <<host, phase, job, frontier, depth, history>>

(* The engine's own limit of one hour, which Celery's hard limit precedes. *)
Expire ==
    /\ host = "api" /\ clock = "early" /\ clock' = "expired"
    /\ phase \notin Ended
    /\ UNCHANGED <<host, phase, job, frontier, depth, at, counters, history>>

(* Celery's hard limit, or the process dies: nothing else happens. *)
Kill ==
    /\ phase \notin Ended
    /\ phase' = "killed"
    /\ UNCHANGED <<host, job, frontier, depth, at, counters, clock, history>>

-----------------------------------------------------------------------------
Process(u) ==
    Start(u) \/ Fetched(u) \/ Stored(u) \/ Skip(u) \/ Ingest(u) \/ Fail(u) \/ PushFails(u)

Loop == Seed \/ PopBatch \/ BatchDone \/ LeaveLoop \/ Close \/ Mark

Next ==
    \/ Loop
    \/ \E u \in Urls : Process(u)
    \/ \E u \in Urls : Collapse(u)
    \/ Abort \/ SoftLimit \/ Expire \/ Kill

Spec == Init /\ [][Next]_vars

(* The event loop runs every coroutine that can run; fetches time out.     *)
FairSpec == Spec /\ WF_vars(Loop) /\ \A u \in Urls : WF_vars(Process(u))
=============================================================================
