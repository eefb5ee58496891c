---------------------------- MODULE KnowledgeProps ----------------------------
(***************************************************************************)
(* What the knowledge promises, stated over Knowledge.                     *)
(***************************************************************************)
EXTENDS Knowledge

Handled == (Sources \union {None}) \X (Versions \union {None}) \X (Orgs \union {None})

(* The tables, what the processes remember and what the slots are at have  *)
(* their types; the document of a request may be one nobody remembers.     *)
TypeOK ==
    /\ site \in [Pages -> Versions]
    /\ chunks \in [Docs -> SUBSET Chunks]
    /\ hash \in [Procs -> [Pages -> Versions \union {None}]]
    /\ etag \in [Procs -> [Pages -> Versions \union {None}]]
    /\ record \in [Files -> {"none", "saved", "indexed", "deleted"}]
    /\ queue \subseteq Files \X Nat /\ abandoned \subseteq Files
    /\ task \in [Slots -> Tasks] /\ at \in [Slots -> Places]
    /\ doc \in [Slots -> Handled]
    /\ next \in [Slots -> Chunks]
    /\ attempt \in [Slots -> Nat] /\ hit \in [Slots -> BOOLEAN]
    /\ cache \subseteq Labels /\ late \in BOOLEAN
    /\ answer \in [Slots -> Labels] /\ seen \in [Slots -> SUBSET Labels]
    /\ deleted \subseteq Procs \X Docs /\ failed \subseteq Procs \X Docs
    /\ tasks \in Nat /\ faults \in Nat

Stored(d, n) == 1..n \subseteq chunks[d]

InProgress(p, d) ==
    \E s \in Slots : Host[s] = p /\ doc[s] = d /\ at[s] \in {"fetched", "embed", "store", "finish"}

(* A version of a page is in the store for an organization, or it deleted  *)
(* it after this process had.                                              *)
Held(p, d) == Stored(d, NChunks) \/ <<p, d>> \in deleted

(* A process skips a page - as unchanged, or because the server says so -    *)
(* only if it stored every chunk of a version with just this HTML, for some  *)
(* organization: whatever failed, died, or was crawled at the same time on   *)
(* the way, half a document is never skipped.  That it stored it for the     *)
(* organization it now crawls for is not promised, as hashes and ETags are   *)
(* kept by URL alone; nor that a Shopify product's text is what it was.      *)
(* What may get lost besides are pages that the organization they were       *)
(* stored for deleted, and, because the ETag is remembered before the page   *)
(* is stored, pages that failed once the headers were there                  *)
(* (engine.py:130-133, 160-200; page_hashing.py:9-26; scraper.py:279-308;    *)
(* vector_store.py:63).                                                      *)
SkippedMeansStored ==
    \A p \in Procs, u \in Pages :
        /\ hash[p][u] # None =>
               \E d \in PageDocs : d[1] = u /\ HtmlOf(d) = hash[p][u] /\ Held(p, d)
        /\ etag[p][u] # None =>
               \E d \in PageDocs :
                   /\ d[1] = u /\ d[2] = etag[p][u]
                   /\ Held(p, d) \/ InProgress(p, d) \/ <<p, d>> \in failed

(* A file is marked as indexed only if what the worker was given of it is  *)
(* in the store, also when an attempt failed half-way and was repeated, or *)
(* when the request ingests it at the same time                            *)
(* (embedding_tasks.py:28-45, knowledge.py:181-195).                       *)
IndexedMeansStored ==
    \A f \in Files : record[f] = "indexed" =>
        Stored(FileDoc(f), Preview) \/ \E p \in Procs : <<p, FileDoc(f)>> \in deleted

(* Once deleted knowledge has been deleted and the cache cleared, the      *)
(* cache has no answer from it, provided that no answer was under way when *)
(* it was cleared (knowledge.py:238-267, semantic_cache.py:60-96).         *)
DeletedAnswersGo ==
    "deleted" \in cache => late \/ \E s \in Slots : task[s] = "reset"

(* An upload that was queued is indexed in the end, or its row is deleted,  *)
(* or its job is known to have come to nothing: its last attempt failed,    *)
(* its worker died, or the worker does not know the task; a retry is never  *)
(* forgotten (embedding_tasks.py:10-47, uploads.py:115-139).                *)
UploadSettles ==
    \A f \in Files : <<f, 0>> \in queue ~> record[f] \in {"indexed", "deleted"} \/ f \in abandoned
=============================================================================
