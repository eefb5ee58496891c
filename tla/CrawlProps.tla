----------------------------- MODULE CrawlProps -----------------------------
(***************************************************************************)
(* What a crawl promises, stated over Crawl.                               *)
(***************************************************************************)
EXTENDS Crawl

(* The crawl's variables have their types. *)
TypeOK ==
    /\ host \in {"celery", "api"} /\ phase \in Phases
    /\ job \in {"crawling", "completed", "failed"}
    /\ queue \subseteq Urls /\ known \subseteq Urls
    /\ depth \in Nat
    /\ at \in [Urls -> Places]
    /\ ingested \in Nat /\ skipped \in Nat /\ errors \in Nat /\ js_renders \in Nat
    /\ clock \in {"early", "soft", "expired"}
    /\ visits \in [Urls -> Nat] /\ followed \subseteq Urls

Visited == {u \in Urls : visits[u] > 0}

(* However many pages link to a URL, and whichever coroutines push it at   *)
(* the same time, it is fetched at most once in a crawl, and never when    *)
(* robots.txt disallows it (url_frontier.py:79-97, engine.py:105-106).     *)
FetchedOnce == \A u \in Urls : visits[u] <= IF u \in Disallowed THEN 0 ELSE 1

(* The page budget is tested between batches only; still the pages that    *)
(* are fetched exceed it by less than one batch, whatever fails, and no    *)
(* page is fetched without being counted (engine.py:275-289).              *)
BudgetHolds ==
    /\ MaxPages = 0 => Visited = {}
    /\ Cardinality(Visited) < MaxPages + Concurrency
    /\ phase \in {"loop", "closing", "marking", "done"} =>
           Cardinality(Visited) <= ingested + skipped + errors

(* The frontier, the batches and the counters together amount to a         *)
(* traversal of the site: a page is fetched only if the crawl was told of  *)
(* it, by its seeds or by a page that it fetched before, if robots.txt     *)
(* allows it, and once; and a crawl that is done fetches nothing any more  *)
(* (engine.py:98-128, 253-289, url_frontier.py:79-107).                    *)
Told == Seeds \union UNION {Links[u] : u \in followed}

T == INSTANCE Traversal WITH
        Pages   <- Urls,
        Roots   <- Seeds,
        Allowed <- Urls \ Disallowed,
        found   <- IF phase = "seed" THEN {} ELSE Told,
        over    <- phase = "done"

IsTraversal == T!Spec

(* When a crawl stops because its frontier is empty, it has dealt with     *)
(* every seed and with every link of every page it followed: no URL got    *)
(* lost between the seen set, the queue and the batches                    *)
(* (url_frontier.py:79-107, engine.py:284-289).                            *)
NothingLost ==
    phase = "closing" /\ queue = {} =>
        Seeds \union UNION {Links[u] : u \in followed} \subseteq Visited \union Disallowed

(* A crawl ends, whatever its site looks like and whatever fails, unless   *)
(* its process is killed; and then the Celery task's job is completed      *)
(* exactly if the crawl is (engine.py:275-289, crawler_tasks.py:74-98).    *)
CrawlEnds ==
    <>(phase \in Ended /\ (host = "celery" => (job = "completed" <=> phase = "done")))
=============================================================================
