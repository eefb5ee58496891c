--------------------------- MODULE KnowledgeProofs ---------------------------
(***************************************************************************)
(* Type correctness and the safety of the knowledge, for any processes,    *)
(* coroutines, pages, files, numbers of chunks and retries, and any number *)
(* of tasks, failures and deaths.                                          *)
(***************************************************************************)
EXTENDS KnowledgeProps, TLAPS

Ingestion == {"embed", "store", "finish"}

(* What a slot is at says what it does, and of which document.             *)
Place(s) ==
    /\ at[s] \in {"hashes", "clear"} <=> task[s] = "reset"
    /\ at[s] \in {"request", "fetched"} => task[s] = "crawl"
    /\ at[s] = "queue" => task[s] = "upload" /\ doc[s] \in FileDocs
    /\ task[s] = "embed" => at[s] \in Ingestion
    /\ at[s] = "request" => doc[s] \in Pages \X (Versions \union {None}) \X Orgs
    /\ at[s] = "fetched" => doc[s] \in PageDocs
    /\ at[s] \in Ingestion => /\ task[s] = "crawl" => doc[s] \in PageDocs
                              /\ task[s] # "crawl" => doc[s] \in FileDocs
    /\ at[s] \in {"fetched", "queue", "embed"} => next[s] = 1
    /\ at[s] = "store" => next[s] <= Last(s)
    /\ at[s] \in {"answer", "remember"} => task[s] = "chat"

Placed == \A s \in Slots : Place(s)

LEMMA Constants ==
    /\ NChunks \in Nat \ {0} /\ Preview \in Nat \ {0} /\ Preview <= NChunks
    /\ MaxVersion \in Nat /\ 0 \in Versions /\ 1 \in Chunks
    /\ Versions \subseteq Nat /\ None \notin Versions /\ None \notin Sources
    /\ PageDocs \intersect FileDocs = {}
    /\ \A f \in Files : FileDoc(f) \in FileDocs /\ FileDoc(f) \in Handled /\ FileDoc(f)[1] = f
    /\ \A d \in PageDocs : HtmlOf(d) \in Versions
    /\ NoDoc \in Handled
  BY ConstantsAssumption DEF NoDoc, Versions, Chunks, Sources, PageDocs, FileDocs, FileDoc, Handled, HtmlOf

LEMMA TypeInit == Init => TypeOK /\ Placed
  <1> SUFFICES ASSUME Init PROVE TypeOK /\ Placed
    OBVIOUS
  <1>1. TypeOK
    BY Constants DEF Init, TypeOK, Docs, Tasks, Places, Labels
  <1>2. Placed
    BY DEF Init, Placed, Place, Ingestion
  <1> QED
    BY <1>1, <1>2

(* A task that ends leaves its slot idle. *)
LEMMA EndType ==
    ASSUME TypeOK, NEW s \in Slots, End(s)
    PROVE  /\ at' \in [Slots -> Places] /\ task' \in [Slots -> Tasks]
           /\ doc' \in [Slots -> Handled]
           /\ next' \in [Slots -> Chunks] /\ attempt' \in [Slots -> Nat] /\ hit' \in [Slots -> BOOLEAN]
  BY Constants DEF TypeOK, End, Go, Tasks, Places

LEMMA TakeType ==
    ASSUME TypeOK, NEW s \in Slots,
           NEW d \in Handled, Take(s, d)
    PROVE  /\ doc' \in [Slots -> Handled]
           /\ next' \in [Slots -> Chunks] /\ hit' \in [Slots -> BOOLEAN]
  BY Constants DEF TypeOK, Take

LEMMA DropType ==
    ASSUME TypeOK, NEW o, NEW sources, Drop(o, sources)
    PROVE  /\ chunks' \in [Docs -> SUBSET Chunks] /\ hit' \in [Slots -> BOOLEAN]
           /\ deleted' \subseteq Procs \X Docs
  BY DEF TypeOK, Drop

(* The document at hand, and what is remembered of it.                      *)
LEMMA AtHand ==
    ASSUME TypeOK, Placed, NEW s \in Slots
    PROVE  /\ Host[s] \in Procs
           /\ at[s] = "request" => doc[s][1] \in Pages /\ doc[s][3] \in Orgs
           /\ doc[s] \in PageDocs => doc[s] \in Docs /\ doc[s][1] \in Pages /\ HtmlOf(doc[s]) \in Versions
                                     /\ doc[s] = <<doc[s][1], doc[s][2], doc[s][3]>> /\ Mine(s) \in Procs \X Docs
           /\ doc[s] \in FileDocs => doc[s] \in Docs /\ doc[s][1] \in Files
                                     /\ doc[s] = FileDoc(doc[s][1]) /\ Mine(s) \in Procs \X Docs
           /\ at[s] = "fetched" => doc[s] \in PageDocs
           /\ at[s] \in Ingestion => doc[s] \in PageDocs \union FileDocs
  <1>1. Host[s] \in Procs
    BY ConstantsAssumption
  <1>2. Place(s)
    BY DEF Placed
  <1> QED
    BY <1>1, <1>2, Constants DEF Place, PageDocs, FileDocs, FileDoc, Docs, Mine

(* Every step of every task, and every failure, keeps the types. *)
LEMMA TypeStep == TypeOK /\ Placed /\ [Next]_vars => TypeOK'
  <1> SUFFICES ASSUME TypeOK, Placed, [Next]_vars PROVE TypeOK'
    OBVIOUS
  <1> USE DEF memory, uploads, work, chat, marks
  <1>f. Fault => faults' \in Nat
    BY DEF Fault, TypeOK
  <1>b. ASSUME NEW s \in Slots, NEW what \in Tasks, NEW place \in Places, Begin(s, what, place)
        PROVE  tasks' \in Nat /\ task' \in [Slots -> Tasks] /\ at' \in [Slots -> Places]
    BY <1>b DEF Begin, Go, TypeOK
  <1>g. ASSUME NEW s \in Slots, NEW place \in Places, Go(s, place) PROVE at' \in [Slots -> Places]
    BY <1>g DEF Go, TypeOK
  <1>h. \A s \in Slots : Host[s] \in Procs
    BY ConstantsAssumption
  <1>tp. Tasks = {"none", "crawl", "upload", "embed", "reset", "chat"}
         /\ Places = {"idle", "request", "fetched", "queue", "embed", "store", "finish",
                      "hashes", "clear", "answer", "remember"}
    BY DEF Tasks, Places
  <1>1. ASSUME NEW s \in Slots, NEW u \in Pages, NEW o \in Orgs, Request(s, u, o) PROVE TypeOK'
    <2>1. <<u, etag[Host[s]][u], o>> \in Handled
      BY <1>h DEF TypeOK, Sources, Handled
    <2>2. doc' \in [Slots -> Handled]
          /\ next' \in [Slots -> Chunks] /\ hit' \in [Slots -> BOOLEAN]
      BY <1>1, <2>1, TakeType DEF Request
    <2>3. tasks' \in Nat /\ task' \in [Slots -> Tasks] /\ at' \in [Slots -> Places]
      BY <1>1, <1>b, <1>tp DEF Request
    <2> QED
      BY <1>1, <2>2, <2>3 DEF Request, TypeOK
  <1>2. ASSUME NEW s \in Slots, NotModified(s) PROVE TypeOK'
    BY <1>2, EndType DEF NotModified, TypeOK
  <1>tag. ASSUME NEW s \in Slots, NEW u \in Pages, Tag(s, u)
          PROVE  etag' \in [Procs -> [Pages -> Versions \union {None}]]
    BY <1>tag, <1>h DEF Tag, TypeOK
  <1>3. ASSUME NEW s \in Slots, Fetched(s) PROVE TypeOK'
    <2> DEFINE u == doc[s][1]
    <2>1. u \in Pages /\ doc[s][3] \in Orgs
      BY <1>3, AtHand DEF Fetched
    <2>2. <<u, site[u], doc[s][3]>> \in Handled
      BY <2>1 DEF TypeOK, Sources, Handled
    <2>3. Tag(s, u) /\ Take(s, <<u, site[u], doc[s][3]>>)
          /\ Go(s, "fetched") /\ UNCHANGED <<site, chunks, hash, uploads, task, attempt, chat, marks, tasks, faults>>
      BY <1>3 DEF Fetched
    <2> HIDE DEF u
    <2>4. doc' \in [Slots -> Handled]
          /\ next' \in [Slots -> Chunks] /\ hit' \in [Slots -> BOOLEAN]
          /\ etag' \in [Procs -> [Pages -> Versions \union {None}]]
      BY <2>1, <2>2, <2>3, <1>tag, TakeType
    <2>5. at' \in [Slots -> Places]
      BY <2>3, <1>g, <1>tp
    <2> QED
      BY <2>3, <2>4, <2>5 DEF TypeOK
  <1>4. ASSUME NEW s \in Slots, FetchFails(s) PROVE TypeOK'
    <2> DEFINE u == doc[s][1]
    <2>1. u \in Pages /\ site[u] \in Versions /\ doc[s][3] \in Orgs
      BY <1>4, AtHand DEF FetchFails, TypeOK
    <2>2. /\ UNCHANGED <<etag, failed>> \/ (/\ Tag(s, u)
                                         /\ failed' = failed \union {<<Host[s], <<u, site[u], doc[s][3]>>>>})
          /\ End(s) /\ faults' \in Nat
          /\ UNCHANGED <<site, chunks, hash, uploads, chat, deleted, tasks>>
      BY <1>4, <1>f DEF FetchFails
    <2> HIDE DEF u
    <2>3. <<Host[s], <<u, site[u], doc[s][3]>>>> \in Procs \X Docs
      BY <2>1, <1>h DEF Docs, PageDocs
    <2>4. failed' \subseteq Procs \X Docs /\ etag' \in [Procs -> [Pages -> Versions \union {None}]]
      BY <2>1, <2>2, <2>3, <1>tag DEF TypeOK
    <2> QED
      BY <2>2, <2>4, EndType DEF TypeOK
  <1>5. ASSUME NEW s \in Slots, Compare(s) PROVE TypeOK'
    <2>1. at' \in [Slots -> Places] /\ task' \in [Slots -> Tasks]
          /\ doc' \in [Slots -> Handled]
          /\ next' \in [Slots -> Chunks] /\ attempt' \in [Slots -> Nat] /\ hit' \in [Slots -> BOOLEAN]
      BY <1>5, <1>g, <1>tp, EndType DEF Compare, TypeOK
    <2> QED
      BY <1>5, <2>1 DEF Compare, TypeOK
  <1>6. ASSUME NEW s \in Slots, Embed(s) PROVE TypeOK'
    BY <1>6, <1>g, <1>tp DEF Embed, TypeOK
  <1>7. ASSUME NEW s \in Slots, StoreChunk(s) PROVE TypeOK'
    <2>1. at[s] = "store" /\ doc[s] \in Docs /\ next[s] \in Chunks /\ next[s] \in Nat
      BY <1>7, AtHand DEF StoreChunk, TypeOK, Ingestion, Chunks, Docs
    <2>2. chunks' \in [Docs -> SUBSET Chunks]
      BY <1>7, <2>1 DEF StoreChunk, TypeOK
    <2>3. Last(s) \in Nat /\ Last(s) <= NChunks
      BY Constants DEF Last
    <2>4. next' \in [Slots -> Chunks] /\ at' \in [Slots -> Places]
      <3>1. CASE next[s] < Last(s)
        <4>1. next' = [next EXCEPT ![s] = next[s] + 1] /\ at' = at
          BY <1>7, <3>1 DEF StoreChunk
        <4>2. next[s] + 1 \in Chunks
          BY <2>1, <2>3, <3>1, Constants DEF Chunks
        <4> QED
          BY <4>1, <4>2 DEF TypeOK
      <3>2. CASE ~(next[s] < Last(s))
        BY <1>7, <1>g, <1>tp, <3>2 DEF StoreChunk, TypeOK
      <3> QED
        BY <3>1, <3>2
    <2> QED
      BY <1>7, <2>2, <2>4 DEF StoreChunk, TypeOK
  <1>8. ASSUME NEW s \in Slots, Finish(s) PROVE TypeOK'
    <2>1. at[s] = "finish" /\ Place(s)
      BY <1>8 DEF Finish, Placed
    <2>2. hash' \in [Procs -> [Pages -> Versions \union {None}]]
      BY <1>8, <1>h, <2>1, AtHand DEF Finish, Remembers, Place, Ingestion, TypeOK
    <2>3. record' \in [Files -> {"none", "saved", "indexed", "deleted"}]
      BY <1>8, <2>1, AtHand DEF Finish, Place, Ingestion, TypeOK
    <2>4. deleted' \subseteq Procs \X Docs /\ failed' \subseteq Procs \X Docs
      BY <1>8 DEF Finish, TypeOK
    <2>5. End(s) /\ UNCHANGED <<site, chunks, etag, queue, abandoned, chat, tasks, faults>>
      BY <1>8 DEF Finish
    <2> QED
      BY <2>2, <2>3, <2>4, <2>5, EndType DEF TypeOK
  <1>9. ASSUME NEW s \in Slots, IngestFails(s) PROVE TypeOK'
    <2>1. at[s] \in Ingestion /\ Place(s)
      BY <1>9 DEF IngestFails, Placed, Ingestion
    <2>2. Mine(s) \in Procs \X Docs /\ (task[s] = "embed" => doc[s][1] \in Files)
      BY <2>1, AtHand DEF Place
    <2>3. failed' \subseteq Procs \X Docs
      BY <1>9, <2>2 DEF IngestFails, TypeOK
    <2>4. queue' \subseteq Files \X Nat /\ abandoned' \subseteq Files
      <3>1. CASE task[s] = "embed"
        <4>1. doc[s][1] \in Files /\ attempt[s] + 1 \in Nat
          BY <2>2, <3>1 DEF TypeOK
        <4>2. Retry(s)
          BY <1>9, <3>1 DEF IngestFails
        <4> QED
          BY <4>1, <4>2 DEF Retry, TypeOK
      <3>2. CASE task[s] # "embed"
        BY <1>9, <3>2 DEF IngestFails, TypeOK
      <3> QED
        BY <3>1, <3>2
    <2>5. End(s) /\ faults' \in Nat /\ UNCHANGED <<site, chunks, memory, record, chat, deleted, tasks>>
      BY <1>9, <1>f DEF IngestFails
    <2> QED
      BY <2>3, <2>4, <2>5, EndType DEF TypeOK
  <1>10. ASSUME NEW s \in Slots, NEW f \in Files, Upload(s, f) PROVE TypeOK'
    <2>1. FileDoc(f) \in Handled
      BY Constants
    <2>2. doc' \in [Slots -> Handled]
          /\ next' \in [Slots -> Chunks] /\ hit' \in [Slots -> BOOLEAN]
      BY <1>10, <2>1, TakeType DEF Upload
    <2>3. tasks' \in Nat /\ task' \in [Slots -> Tasks] /\ at' \in [Slots -> Places]
      BY <1>10, <1>b, <1>tp DEF Upload
    <2> QED
      BY <1>10, <2>2, <2>3 DEF Upload, TypeOK
  <1>11. ASSUME NEW s \in Slots, Enqueue(s) PROVE TypeOK'
    <2>1. doc[s][1] \in Files
      BY <1>11, AtHand DEF Enqueue, Placed, Place
    <2>2. queue' \subseteq Files \X Nat
      BY <1>11, <2>1 DEF Enqueue, TypeOK
    <2> QED
      BY <1>11, <2>2, <1>g, <1>tp DEF Enqueue, TypeOK
  <1>12. ASSUME NEW s \in Slots, EnqueueFails(s) PROVE TypeOK'
    BY <1>12, <1>f, EndType DEF EnqueueFails, TypeOK
  <1>13. ASSUME NEW s \in Slots, NEW job \in queue, TakeJob(s, job) PROVE TypeOK'
    <2>1. job[1] \in Files /\ job[2] \in Nat
      BY DEF TypeOK
    <2>2. FileDoc(job[1]) \in Handled
      BY <2>1, Constants
    <2>3. doc' \in [Slots -> Handled]
          /\ next' \in [Slots -> Chunks] /\ hit' \in [Slots -> BOOLEAN]
      BY <1>13, <2>2, TakeType DEF TakeJob
    <2>4. task' \in [Slots -> Tasks] /\ at' \in [Slots -> Places]
      BY <1>13, <1>g, <1>tp DEF TakeJob, TypeOK
    <2>5. queue' \subseteq Files \X Nat /\ attempt' \in [Slots -> Nat]
      BY <1>13, <2>1 DEF TakeJob, TypeOK
    <2> QED
      BY <1>13, <2>3, <2>4, <2>5 DEF TakeJob, TypeOK
  <1>14. ASSUME NEW s \in Slots, NEW o \in Orgs, NEW source \in Sources, DeleteSource(s, o, source)
         PROVE  TypeOK'
    BY <1>14, DropType DEF DeleteSource, TypeOK
  <1>15. ASSUME NEW s \in Slots, NEW o \in Orgs, DeleteAll(s, o) PROVE TypeOK'
    <2>1. tasks' \in Nat /\ task' \in [Slots -> Tasks] /\ at' \in [Slots -> Places]
      BY <1>15, <1>b, <1>tp DEF DeleteAll
    <2>2. cache' \subseteq Labels /\ answer' \in [Slots -> Labels] /\ seen' \in [Slots -> SUBSET Labels]
      <3>1. CASE o = Home
        BY <1>15, <3>1 DEF DeleteAll, Outdated, Labels, TypeOK
      <3>2. CASE o # Home
        BY <1>15, <3>2 DEF DeleteAll, TypeOK
      <3> QED
        BY <3>1, <3>2
    <2>3. chunks' \in [Docs -> SUBSET Chunks] /\ hit' \in [Slots -> BOOLEAN]
          /\ deleted' \subseteq Procs \X Docs
      BY <1>15, DropType DEF DeleteAll
    <2> QED
      BY <1>15, <2>1, <2>2, <2>3 DEF DeleteAll, TypeOK
  <1>16. ASSUME NEW s \in Slots, ClearHashes(s) PROVE TypeOK'
    <2>1. hash' \in [Procs -> [Pages -> Versions \union {None}]]
      BY <1>16 DEF ClearHashes, TypeOK
    <2> QED
      BY <1>16, <2>1, <1>g, <1>tp DEF ClearHashes, TypeOK
  <1>17. ASSUME NEW s \in Slots, ClearCache(s) PROVE TypeOK'
    <2>1. cache' \subseteq Labels /\ late' \in BOOLEAN /\ faults' \in Nat
      BY <1>17, <1>f DEF ClearCache, TypeOK
    <2> QED
      BY <1>17, <2>1, EndType DEF ClearCache, TypeOK
  <1>18. ASSUME NEW s \in Slots, ClearByHand(s) PROVE TypeOK'
    BY <1>18 DEF ClearByHand, TypeOK
  <1>19. ASSUME NEW s \in Slots, Ask(s) PROVE TypeOK'
    BY <1>19, <1>b, <1>tp DEF Ask, TypeOK
  <1>20. ASSUME NEW s \in Slots, Remember(s) PROVE TypeOK'
    BY <1>20, <1>g, <1>tp DEF Remember, TypeOK
  <1>21. ASSUME NEW s \in Slots, Keep(s) PROVE TypeOK'
    <2>1. cache' \subseteq Labels /\ answer' \in [Slots -> Labels] /\ seen' \in [Slots -> SUBSET Labels]
      BY <1>21 DEF Keep, TypeOK, Labels
    <2> QED
      BY <1>21, <2>1, EndType DEF Keep, TypeOK
  <1>22. ASSUME NEW u \in Pages, ChangePage(u) PROVE TypeOK'
    <2>1. site' \in [Pages -> Versions]
      BY <1>22, Constants DEF ChangePage, TypeOK, Versions
    <2> QED
      BY <1>22, <2>1 DEF ChangePage, TypeOK
  <1>23. ASSUME NEW p \in Procs, Die(p) PROVE TypeOK'
    <2>1. hash' \in [Procs -> [Pages -> Versions \union {None}]]
          /\ etag' \in [Procs -> [Pages -> Versions \union {None}]]
      BY <1>23 DEF Die, TypeOK
    <2>2. \A s \in Slots : task[s] = "embed" => doc[s][1] \in Files
      BY AtHand DEF Placed, Place
    <2>3. abandoned' \subseteq Files
      BY <1>23, <2>2 DEF Die, TypeOK
    <2>4. late' \in BOOLEAN /\ faults' \in Nat
      BY <1>23, <1>f DEF Die, TypeOK
    <2>5. task' \in [Slots -> Tasks] /\ at' \in [Slots -> Places]
      BY <1>23, <1>tp DEF Die, TypeOK
    <2>6. doc' \in [Slots -> Handled]
          /\ next' \in [Slots -> Chunks] /\ attempt' \in [Slots -> Nat] /\ hit' \in [Slots -> BOOLEAN]
      BY <1>23, Constants DEF Die, TypeOK
    <2>7. answer' \in [Slots -> Labels] /\ seen' \in [Slots -> SUBSET Labels]
      BY <1>23 DEF Die, TypeOK, Labels
    <2>8. UNCHANGED <<site, chunks, record, queue, cache, marks, tasks>>
      BY <1>23 DEF Die
    <2> QED
      BY <2>1, <2>3, <2>4, <2>5, <2>6, <2>7, <2>8 DEF TypeOK
  <1>24. CASE UNCHANGED vars
    BY <1>24 DEF vars, TypeOK
  <1>25. ASSUME NEW s \in Slots, RowGone(s) PROVE TypeOK'
    <2>1. at[s] = "finish" /\ task[s] = "embed" /\ Place(s)
      BY <1>25 DEF RowGone, Placed
    <2>2. doc[s][1] \in Files /\ attempt[s] + 1 \in Nat
      BY <2>1, AtHand DEF Place, Ingestion, TypeOK
    <2>3. queue' \subseteq Files \X Nat /\ abandoned' \subseteq Files
      BY <1>25, <2>2 DEF RowGone, Retry, TypeOK
    <2> QED
      BY <1>25, <2>3, EndType DEF RowGone, TypeOK
  <1>26. ASSUME NEW s \in Slots, NEW job \in queue, NotFound(s, job) \/ Discard(s, job) PROVE TypeOK'
    <2>1. job[1] \in Files
      BY DEF TypeOK
    <2> QED
      BY <1>26, <2>1 DEF NotFound, Discard, TypeOK
  <1>27. ASSUME NEW s \in Slots, NEW f \in Files, DeleteUpload(s, f) PROVE TypeOK'
    BY <1>27 DEF DeleteUpload, TypeOK
  <1> QED
    BY <1>1, <1>2, <1>3, <1>4, <1>5, <1>6, <1>7, <1>8, <1>9, <1>10, <1>11, <1>12, <1>13, <1>14, <1>15,
       <1>16, <1>17, <1>18, <1>19, <1>20, <1>21, <1>22, <1>23, <1>24, <1>25, <1>26, <1>27
       DEF Next, Start, Step, Work, Crawling, Ingesting, Deleting, Chatting, Failing

-----------------------------------------------------------------------------
(* What a step means for one slot.                                          *)
Same(s) == task'[s] = task[s] /\ at'[s] = at[s] /\ doc'[s] = doc[s] /\ next'[s] = next[s]

Dropping == \E s \in Slots, o \in Orgs : \E sources : Drop(o, sources)

Stays(s) == Same(s) /\ (hit'[s] = hit[s] \/ Dropping)

Skips(s) == at[s] = "fetched" /\ hash[Host[s]][doc[s][1]] = HtmlOf(doc[s])

Leaves(s) ==
    /\ at'[s] = "idle" /\ task'[s] = "none"
    /\ at[s] \in {"fetched"} \union Ingestion =>
           Skips(s) \/ Finish(s) \/ IngestFails(s) \/ RowGone(s) \/ Die(Host[s])

Asks(s) ==
    /\ at[s] = "idle"
    /\ at'[s] = "request" /\ task'[s] = "crawl" /\ doc'[s] \in Pages \X (Versions \union {None}) \X Orgs

TakesUp(s) ==
    /\ at[s] \in {"idle", "request"}
    /\ \/ at'[s] = "fetched" /\ task'[s] = "crawl" /\ doc'[s] \in PageDocs
       \/ at'[s] = "queue" /\ task'[s] = "upload" /\ doc'[s] \in FileDocs
       \/ at'[s] = "embed" /\ task'[s] = "embed" /\ doc'[s] \in FileDocs
    /\ next'[s] = 1 /\ ~hit'[s]

GoesOn(s) ==
    /\ \/ at[s] \in {"fetched", "queue"} /\ at'[s] = "embed"
       \/ at[s] = "embed" /\ at'[s] = "store"
    /\ task'[s] = task[s] /\ doc'[s] = doc[s] /\ next'[s] = next[s] /\ hit'[s] = hit[s]

Elsewhere(s) ==
    /\ at[s] \in {"idle", "hashes", "answer"}
    /\ \/ at'[s] \in {"hashes", "clear"} /\ task'[s] = "reset"
       \/ at'[s] \in {"answer", "remember"} /\ task'[s] = "chat"

SlotStep(s) ==
    Stays(s) \/ Leaves(s) \/ Asks(s) \/ TakesUp(s) \/ GoesOn(s) \/ StoreChunk(s) \/ Elsewhere(s)

LEMMA SlotSteps ==
    ASSUME TypeOK, Placed, [Next]_vars, NEW r \in Slots
    PROVE  SlotStep(r)
  <1> USE DEF memory, uploads, work, chat, marks
  <1>p. Place(r)
    BY DEF Placed
  <1>e. ASSUME NEW s \in Slots, End(s),
               at[s] \in {"fetched"} \union Ingestion =>
                   Skips(s) \/ Finish(s) \/ IngestFails(s) \/ RowGone(s)
        PROVE  SlotStep(r)
    <2>1. r # s => Stays(r)
      BY <1>e DEF End, Go, Stays, Same, TypeOK
    <2>2. r = s => at'[r] = "idle" /\ task'[r] = "none"
      BY <1>e DEF End, Go, TypeOK
    <2>3. r = s => Leaves(r)
      BY <1>e, <2>2 DEF Leaves
    <2> QED
      BY <2>1, <2>3 DEF SlotStep
  <1>b. ASSUME NEW s \in Slots, NEW what, NEW place, Begin(s, what, place)
        PROVE  /\ r = s => at'[r] = place /\ task'[r] = what /\ at[r] = "idle"
               /\ r # s => at'[r] = at[r] /\ task'[r] = task[r]
    BY <1>b DEF Begin, Go, TypeOK
  <1>g. ASSUME NEW s \in Slots, NEW place, Go(s, place)
        PROVE  (r = s => at'[r] = place) /\ (r # s => at'[r] = at[r])
    BY <1>g DEF Go, TypeOK
  <1>t. ASSUME NEW s \in Slots, NEW d, Take(s, d)
        PROVE  /\ r = s => doc'[r] = d /\ next'[r] = 1 /\ ~hit'[r]
               /\ r # s => doc'[r] = doc[r] /\ next'[r] = next[r] /\ hit'[r] = hit[r]
    BY <1>t DEF Take, TypeOK
  <1>h. \A s \in Slots : Host[s] \in Procs
    BY ConstantsAssumption
  <1>o. ASSUME NEW s \in Slots, UNCHANGED <<task, work>>,
               \/ Go(s, "embed") /\ at[s] = "fetched"
               \/ Go(s, "embed") /\ at[s] = "queue"
               \/ Go(s, "store") /\ at[s] = "embed"
        PROVE  SlotStep(r)
    <2>1. r # s => Stays(r)
      BY <1>o, <1>g DEF Stays, Same
    <2>2. r = s => GoesOn(r)
      BY <1>o, <1>g DEF GoesOn
    <2> QED
      BY <2>1, <2>2 DEF SlotStep
  <1>1. ASSUME NEW s \in Slots, NEW u \in Pages, NEW o \in Orgs, Request(s, u, o) PROVE SlotStep(r)
    <2>1. Begin(s, "crawl", "request") /\ Take(s, <<u, etag[Host[s]][u], o>>)
      BY <1>1 DEF Request
    <2>2. etag[Host[s]][u] \in Versions \union {None}
      BY <1>h DEF TypeOK
    <2>3. r # s => Stays(r)
      BY <2>1, <1>b, <1>t DEF Stays, Same
    <2>4. r = s => Asks(r)
      BY <2>1, <2>2, <1>b, <1>t DEF Asks
    <2> QED
      BY <2>3, <2>4 DEF SlotStep
  <1>2. ASSUME NEW s \in Slots, NotModified(s) \/ FetchFails(s) \/ Finish(s) \/ IngestFails(s)
                                \/ RowGone(s) \/ EnqueueFails(s) \/ ClearCache(s) \/ Keep(s)
        PROVE  SlotStep(r)
    <2>1. End(s)
      BY <1>2 DEF NotModified, FetchFails, Finish, IngestFails, RowGone, EnqueueFails, ClearCache, Keep
    <2>2. \/ Finish(s) \/ IngestFails(s) \/ RowGone(s)
          \/ at[s] \in {"request", "queue", "clear", "remember"}
      BY <1>2 DEF NotModified, FetchFails, EnqueueFails, ClearCache, Keep
    <2>3. at[s] \in {"fetched"} \union Ingestion => Finish(s) \/ IngestFails(s) \/ RowGone(s)
      BY <2>2 DEF Ingestion
    <2> QED
      BY <2>1, <2>3, <1>e
  <1>3. ASSUME NEW s \in Slots, Fetched(s) PROVE SlotStep(r)
    <2> DEFINE u == doc[s][1]
    <2>1. /\ Take(s, <<u, site[u], doc[s][3]>>) /\ Go(s, "fetched") /\ task' = task
          /\ u \in Pages /\ doc[s][3] \in Orgs /\ task[s] = "crawl" /\ at[s] = "request"
      BY <1>3, AtHand DEF Fetched, Placed, Place
    <2>2. <<u, site[u], doc[s][3]>> \in PageDocs
      BY <2>1 DEF TypeOK, PageDocs
    <2> HIDE DEF u
    <2>3. r # s => Stays(r)
      BY <2>1, <1>g, <1>t DEF Stays, Same
    <2>4. r = s => TakesUp(r)
      BY <2>1, <2>2, <1>g, <1>t DEF TakesUp
    <2> QED
      BY <2>3, <2>4 DEF SlotStep
  <1>5. ASSUME NEW s \in Slots, Compare(s) PROVE SlotStep(r)
    <2>1. (End(s) /\ Skips(s)) \/ (Go(s, "embed") /\ at[s] = "fetched" /\ UNCHANGED <<task, work>>)
      BY <1>5 DEF Compare, Skips
    <2> QED
      BY <2>1, <1>o, <1>e
  <1>6. ASSUME NEW s \in Slots, Embed(s) PROVE SlotStep(r)
    BY <1>6, <1>o DEF Embed
  <1>7. ASSUME NEW s \in Slots, StoreChunk(s) PROVE SlotStep(r)
    <2>1. r # s => Stays(r)
      BY <1>7, <1>g DEF StoreChunk, Stays, Same, TypeOK
    <2> QED
      BY <1>7, <2>1 DEF SlotStep
  <1>10. ASSUME NEW s \in Slots, NEW f \in Files, Upload(s, f) PROVE SlotStep(r)
    <2>1. Begin(s, "upload", "queue") /\ Take(s, FileDoc(f))
      BY <1>10 DEF Upload
    <2>2. FileDoc(f) \in FileDocs
      BY DEF FileDocs
    <2>3. r # s => Stays(r)
      BY <2>1, <1>b, <1>t DEF Stays, Same
    <2>4. r = s => TakesUp(r)
      BY <2>1, <2>2, <1>b, <1>t DEF TakesUp
    <2> QED
      BY <2>3, <2>4 DEF SlotStep
  <1>11. ASSUME NEW s \in Slots, Enqueue(s) PROVE SlotStep(r)
    <2>1. Go(s, "embed") /\ at[s] = "queue" /\ UNCHANGED <<task, work>>
      BY <1>11 DEF Enqueue
    <2> QED
      BY <2>1, <1>o
  <1>13. ASSUME NEW s \in Slots, NEW job \in queue, TakeJob(s, job) PROVE SlotStep(r)
    <2>1. /\ Go(s, "embed") /\ task' = [task EXCEPT ![s] = "embed"] /\ Take(s, FileDoc(job[1]))
          /\ at[s] = "idle"
      BY <1>13 DEF TakeJob, Free
    <2>2. FileDoc(job[1]) \in FileDocs
      BY DEF FileDocs, TypeOK
    <2>3. r # s => Stays(r)
      BY <2>1, <1>g, <1>t DEF Stays, Same, TypeOK
    <2>4. r = s => TakesUp(r)
      BY <2>1, <2>2, <1>g, <1>t DEF TakesUp, TypeOK
    <2> QED
      BY <2>3, <2>4 DEF SlotStep
  <1>14. ASSUME NEW s \in Slots, NEW o \in Orgs, NEW source \in Sources, DeleteSource(s, o, source)
         PROVE  SlotStep(r)
    BY <1>14 DEF DeleteSource, SlotStep, Stays, Same, Dropping
  <1>15. ASSUME NEW s \in Slots, NEW o \in Orgs, DeleteAll(s, o) PROVE SlotStep(r)
    <2>1. Begin(s, "reset", "hashes") /\ Drop(o, Sources) /\ UNCHANGED <<doc, next>>
      BY <1>15 DEF DeleteAll
    <2>2. r # s => Stays(r)
      BY <2>1, <1>b DEF Stays, Same, Dropping
    <2>3. r = s => Elsewhere(r)
      BY <2>1, <1>b DEF Elsewhere
    <2> QED
      BY <2>2, <2>3 DEF SlotStep
  <1>16. ASSUME NEW s \in Slots, ClearHashes(s) \/ Remember(s) PROVE SlotStep(r)
    <2>1. /\ \/ Go(s, "clear") /\ at[s] = "hashes"
             \/ Go(s, "remember") /\ at[s] = "answer"
          /\ UNCHANGED <<task, work>>
      BY <1>16 DEF ClearHashes, Remember
    <2>2. r # s => Stays(r)
      BY <2>1, <1>g DEF Stays, Same
    <2>3. r = s => Elsewhere(r)
      BY <2>1, <1>g, <1>p DEF Elsewhere, Place
    <2> QED
      BY <2>2, <2>3 DEF SlotStep
  <1>18. ASSUME NEW s \in Slots, ClearByHand(s) PROVE SlotStep(r)
    BY <1>18 DEF ClearByHand, SlotStep, Stays, Same
  <1>19. ASSUME NEW s \in Slots, Ask(s) PROVE SlotStep(r)
    BY <1>19, <1>b DEF Ask, SlotStep, Stays, Same, Elsewhere
  <1>22. ASSUME NEW u \in Pages, ChangePage(u) PROVE SlotStep(r)
    BY <1>22 DEF ChangePage, SlotStep, Stays, Same
  <1>23. ASSUME NEW p \in Procs, Die(p) PROVE SlotStep(r)
    <2>1. Host[r] # p => Stays(r)
      BY <1>23 DEF Die, Stays, Same
    <2>2. Host[r] = p => at'[r] = "idle" /\ task'[r] = "none" /\ Die(Host[r])
      <3>1. Host[r] = p => at'[r] = "idle" /\ task'[r] = "none"
        BY <1>23 DEF Die
      <3> QED
        BY <1>23, <3>1
    <2> QED
      BY <2>1, <2>2 DEF SlotStep, Leaves
  <1>24. CASE UNCHANGED vars
    BY <1>24 DEF vars, SlotStep, Stays, Same
  <1>25. ASSUME NEW s \in Slots, \/ \E job \in queue : NotFound(s, job) \/ Discard(s, job)
                                 \/ \E f \in Files : DeleteUpload(s, f)
         PROVE  SlotStep(r)
    BY <1>25 DEF NotFound, Discard, DeleteUpload, SlotStep, Stays, Same
  <1> QED
    BY <1>1, <1>2, <1>3, <1>5, <1>6, <1>7, <1>10, <1>11, <1>13, <1>14, <1>15,
       <1>16, <1>18, <1>19, <1>22, <1>23, <1>24, <1>25
       DEF Next, Start, Step, Work, Crawling, Ingesting, Deleting, Chatting, Failing

LEMMA PlacedStep == TypeOK /\ TypeOK' /\ Placed /\ [Next]_vars => Placed'
  <1> SUFFICES ASSUME TypeOK, TypeOK', Placed, [Next]_vars, NEW s \in Slots PROVE Place(s)'
    BY DEF Placed
  <1>1. SlotStep(s) /\ Place(s)
    BY SlotSteps DEF Placed
  <1> USE DEF Ingestion
  <1>2. CASE Same(s)
    BY <1>1, <1>2 DEF Same, Place, Last
  <1>3. CASE Leaves(s) \/ Asks(s) \/ TakesUp(s) \/ Elsewhere(s)
    BY <1>3 DEF Leaves, Asks, TakesUp, Elsewhere, Place
  <1>4. CASE GoesOn(s)
    <2>1. Last(s)' \in Nat \ {0}
      BY Constants DEF Last
    <2> QED
      BY <1>1, <1>4, <2>1 DEF GoesOn, Place
  <1>5. CASE StoreChunk(s)
    <2>1. task' = task /\ doc' = doc /\ at[s] = "store" /\ Last(s)' = Last(s)
      BY <1>5 DEF StoreChunk, Last
    <2>2. Last(s) \in Nat /\ next[s] \in Nat
      BY Constants DEF Last, TypeOK, Chunks
    <2>3. \/ at'[s] = "store" /\ next'[s] = next[s] + 1 /\ next[s] < Last(s)
          \/ at'[s] = "finish"
      BY <1>5, <2>1 DEF StoreChunk, Go, TypeOK
    <2> QED
      BY <1>1, <2>1, <2>2, <2>3 DEF Place
  <1> QED
    BY <1>1, <1>2, <1>3, <1>4, <1>5 DEF SlotStep, Stays

-----------------------------------------------------------------------------
(* What is needed of a file is in the store, or its organization deleted it. *)
HeldFile(f) == Stored(FileDoc(f), Preview) \/ \E p \in Procs : <<p, FileDoc(f)>> \in deleted

(* What a slot has stored so far is there, unless it was deleted meanwhile; *)
(* and then that is on record.                                             *)
Ripe(s) ==
    /\ ~hit[s] => /\ at[s] = "store" => Stored(doc[s], next[s] - 1)
                  /\ at[s] = "finish" => Stored(doc[s], Last(s))
    /\ hit[s] /\ at[s] \in {"fetched", "queue"} \union Ingestion =>
          /\ doc[s] \in PageDocs => Held(Host[s], doc[s])
          /\ doc[s] \in FileDocs => HeldFile(doc[s][1])

(* The store and the record of deletions change in three ways.             *)
LEMMA StoreSteps ==
    ASSUME [Next]_vars
    PROVE  \/ UNCHANGED <<chunks, deleted>> \/ (\E s \in Slots : StoreChunk(s) \/ Finish(s)) \/ Dropping
  <1> USE DEF marks
  <1>1. ASSUME NEW s \in Slots, Start(s) PROVE UNCHANGED <<chunks, deleted>> \/ Dropping
    BY <1>1 DEF Start, Request, Upload, DeleteUpload, DeleteSource, DeleteAll, ClearByHand, Ask, Dropping
  <1>2. ASSUME NEW s \in Slots, Failing(s) \/ \E job \in queue : Work(s, job)
        PROVE  UNCHANGED <<chunks, deleted>>
    BY <1>2 DEF Failing, FetchFails, IngestFails, EnqueueFails, Work, TakeJob, NotFound, Discard
  <1>3. ASSUME NEW s \in Slots, Step(s)
        PROVE  UNCHANGED <<chunks, deleted>> \/ StoreChunk(s) \/ Finish(s)
    BY <1>3 DEF Step, Crawling, Ingesting, Deleting, Chatting, NotModified, Fetched, Compare, Embed,
                RowGone, Enqueue, ClearHashes, ClearCache, Remember, Keep
  <1>4. ASSUME (\E u \in Pages : ChangePage(u)) \/ (\E p \in Procs : Die(p)) \/ UNCHANGED vars
        PROVE  UNCHANGED <<chunks, deleted>>
    BY <1>4 DEF ChangePage, Die, vars
  <1> QED
    BY <1>1, <1>2, <1>3, <1>4 DEF Next

(* Chunks disappear only with a deletion, which is recorded and which every *)
(* slot that is at the document notices.                                   *)
LEMMA StoredStays ==
    ASSUME TypeOK, Placed, [Next]_vars, NEW d \in Docs, NEW n \in Nat, n <= NChunks, Stored(d, n)
    PROVE  \/ Stored(d, n)'
           \/ /\ \A p \in Procs : <<p, d>> \in deleted'
              /\ \A s \in Slots : doc[s] = d => hit'[s]
              /\ Procs # {}
  <1>1. CASE UNCHANGED <<chunks, deleted>>
    BY <1>1 DEF Stored
  <1>2. ASSUME NEW s \in Slots, StoreChunk(s) PROVE Stored(d, n)'
    <2>1. chunks[d] \subseteq chunks'[d]
      BY <1>2 DEF StoreChunk, TypeOK
    <2> QED
      BY <2>1 DEF Stored
  <1>3. ASSUME NEW s \in Slots, Finish(s) PROVE Stored(d, n)'
    BY <1>3 DEF Finish, Stored
  <1>4. ASSUME NEW v \in Slots, NEW o \in Orgs, NEW sources, Drop(o, sources)
        PROVE  \/ Stored(d, n)'
               \/ /\ \A p \in Procs : <<p, d>> \in deleted'
                  /\ \A s \in Slots : doc[s] = d => hit'[s]
                  /\ Procs # {}
    <2>0. Host[v] \in Procs
      BY ConstantsAssumption
    <2>1. CASE Of(d, o, sources)
      <3>1. \A p \in Procs : <<p, d>> \in Procs \X Docs /\ <<p, d>>[2] = d
        OBVIOUS
      <3> QED
        BY <1>4, <2>0, <2>1, <3>1 DEF Drop
    <2>2. CASE ~Of(d, o, sources)
      <3>1. chunks'[d] = chunks[d]
        BY <1>4, <2>2 DEF Drop
      <3> QED
        BY <3>1 DEF Stored
    <2> QED
      BY <2>1, <2>2
  <1> QED
    BY <1>1, <1>2, <1>3, <1>4, StoreSteps DEF Dropping

(* Who finishes a document undisturbed has stored it, all of a page, and of *)
(* a file what is needed.                                                  *)
LEMMA Finished ==
    ASSUME TypeOK, Placed, NEW s \in Slots, Ripe(s), Finish(s), ~hit[s]
    PROVE  /\ chunks' = chunks
           /\ doc[s] \in PageDocs => Stored(doc[s], NChunks)
           /\ doc[s] \in FileDocs => Stored(FileDoc(doc[s][1]), Preview)
  <1>1. at[s] = "finish" /\ Place(s) /\ chunks' = chunks
    BY DEF Finish, Placed
  <1>2. Stored(doc[s], Last(s))
    BY <1>1 DEF Ripe
  <1>3. doc[s] \in PageDocs => Last(s) = NChunks
    BY <1>1, Constants DEF Place, Ingestion, Last
  <1>4. doc[s] \in FileDocs => Stored(doc[s], Preview)
    BY <1>2, Constants DEF Last, Stored
  <1> QED
    BY <1>1, <1>2, <1>3, <1>4, AtHand

LEMMA HeldStays ==
    ASSUME TypeOK, Placed, \A s \in Slots : Ripe(s), [Next]_vars
    PROVE  /\ \A p \in Procs, d \in PageDocs : Held(p, d) => Held(p, d)'
           /\ \A f \in Files : HeldFile(f) => HeldFile(f)'
  <1>k. ASSUME NEW m, m \in deleted, m \notin deleted'
        PROVE  \E s \in Slots : Finish(s) /\ ~hit[s] /\ m = Mine(s)
    BY <1>k, StoreSteps DEF StoreChunk, Finish, marks, Dropping, Drop
  <1>1. ASSUME NEW p \in Procs, NEW d \in PageDocs, Held(p, d) PROVE Held(p, d)'
    <2>1. CASE Stored(d, NChunks)
      BY <1>1, <2>1, StoredStays, Constants DEF Held, Docs
    <2>2. CASE <<p, d>> \in deleted /\ <<p, d>> \notin deleted'
      <3>1. PICK s \in Slots : Finish(s) /\ ~hit[s] /\ <<p, d>> = Mine(s)
        BY <1>k, <2>2
      <3>2. d = doc[s]
        BY <3>1 DEF Mine
      <3>3. Stored(d, NChunks)'
        BY <3>1, <3>2, Finished DEF Stored
      <3> QED
        BY <3>3 DEF Held
    <2> QED
      BY <1>1, <2>1, <2>2 DEF Held
  <1>2. ASSUME NEW f \in Files, HeldFile(f) PROVE HeldFile(f)'
    <2> DEFINE d == FileDoc(f)
    <2>0. d \in FileDocs /\ d \in Docs /\ d[1] = f
      BY DEF FileDocs, FileDoc, Docs
    <2> HIDE DEF d
    <2>1. CASE Stored(d, Preview)
      <3>1. Stored(d, Preview)' \/ ((\A p \in Procs : <<p, d>> \in deleted') /\ Procs # {})
        BY <2>0, <2>1, StoredStays, Constants
      <3> QED
        BY <3>1 DEF HeldFile, d
    <2>2. ASSUME NEW p \in Procs, <<p, d>> \in deleted, <<p, d>> \notin deleted' PROVE HeldFile(f)'
      <3>1. PICK s \in Slots : Finish(s) /\ ~hit[s] /\ <<p, d>> = Mine(s)
        BY <1>k, <2>2
      <3>2. d = doc[s]
        BY <3>1 DEF Mine
      <3>3. Stored(d, Preview)'
        BY <2>0, <3>1, <3>2, Finished DEF Stored, d
      <3> QED
        BY <3>3 DEF HeldFile, d
    <2> QED
      BY <1>2, <2>1, <2>2 DEF HeldFile, d
  <1> QED
    BY <1>1, <1>2

(* A slot's progress is as it says after each step, its own or another's.  *)
LEMMA RipeStep ==
    ASSUME TypeOK, TypeOK', Placed, \A s \in Slots : Ripe(s), [Next]_vars, NEW r \in Slots
    PROVE  Ripe(r)'
  <1> USE DEF Ingestion
  <1>1. SlotStep(r) /\ Place(r) /\ Ripe(r)
    BY SlotSteps DEF Placed
  <1>2. /\ Host[r] \in Procs
        /\ at[r] \in Ingestion => doc[r] \in Docs
        /\ doc[r] \in PageDocs \union FileDocs => doc[r] \in Docs
        /\ doc[r] \in FileDocs => doc[r][1] \in Files /\ doc[r] = FileDoc(doc[r][1])
    BY <1>1, AtHand DEF Docs, Place
  <1>3. ASSUME doc'[r] = doc[r], hit[r], at[r] \in {"fetched", "queue"} \union Ingestion
        PROVE  /\ doc'[r] \in PageDocs => Held(Host[r], doc[r])'
               /\ doc'[r] \in FileDocs => HeldFile(doc[r][1])'
    <2>1. doc[r] \in PageDocs => Held(Host[r], doc[r])'
      BY <1>1, <1>2, <1>3, HeldStays DEF Ripe
    <2>2. doc[r] \in FileDocs => HeldFile(doc[r][1])'
      BY <1>1, <1>2, <1>3, HeldStays DEF Ripe
    <2> QED
      BY <1>3, <2>1, <2>2
  <1>k. ASSUME doc'[r] = doc[r], ~hit'[r], at[r] \in Ingestion,
               NEW n \in Nat, n <= NChunks, Stored(doc[r], n)
        PROVE  1..n \subseteq chunks'[doc[r]]
    <2>1. PICK d \in Docs : d = doc[r]
      BY <1>2, <1>k
    <2>2. Stored(d, n)
      BY <1>k, <2>1
    <2>3. Stored(d, n)' \/ \A s \in Slots : doc[s] = d => hit'[s]
      BY <1>k, <2>2, StoredStays
    <2>4. Stored(d, n)'
      BY <1>k, <2>1, <2>3
    <2> QED
      BY <2>1, <2>4 DEF Stored
  <1>n. /\ next[r] \in Nat /\ next[r] >= 1 /\ next[r] - 1 \in Nat /\ next[r] - 1 <= NChunks
        /\ Last(r) \in Nat /\ Last(r) <= NChunks
    BY Constants DEF TypeOK, Chunks, Last
  <1>4. CASE Stays(r)
    <2>1. /\ task'[r] = task[r] /\ at'[r] = at[r] /\ doc'[r] = doc[r] /\ next'[r] = next[r]
          /\ Last(r)' = Last(r) /\ (hit[r] => hit'[r])
      BY <1>4 DEF Stays, Same, Last, Dropping, Drop, TypeOK
    <2>2. ~hit'[r] /\ at'[r] = "store" => Stored(doc[r], next[r] - 1)'
      <3>1. SUFFICES ASSUME ~hit'[r], at[r] = "store" PROVE 1..(next[r] - 1) \subseteq chunks'[doc[r]]
        BY <2>1 DEF Stored
      <3>2. Stored(doc[r], next[r] - 1)
        BY <1>1, <2>1, <3>1 DEF Ripe
      <3> QED
        BY <1>k, <1>n, <2>1, <3>1, <3>2
    <2>3. ~hit'[r] /\ at'[r] = "finish" => Stored(doc[r], Last(r))'
      <3>1. SUFFICES ASSUME ~hit'[r], at[r] = "finish" PROVE 1..Last(r) \subseteq chunks'[doc[r]]
        BY <2>1 DEF Stored
      <3>2. Stored(doc[r], Last(r))
        BY <1>1, <2>1, <3>1 DEF Ripe
      <3> QED
        BY <1>k, <1>n, <2>1, <3>1, <3>2
    <2>4. ASSUME hit'[r], at[r] \in {"fetched", "queue"} \union Ingestion
          PROVE  /\ doc'[r] \in PageDocs => Held(Host[r], doc[r])'
                 /\ doc'[r] \in FileDocs => HeldFile(doc[r][1])'
      <3>1. CASE hit[r]
        BY <1>3, <2>1, <2>4, <3>1
      <3>2. CASE ~hit[r]
        <4>1. PICK o \in Orgs : \E sources : Drop(o, sources)
          BY <1>4, <2>4, <3>2 DEF Stays, Dropping
        <4>0. PICK sources : Drop(o, sources)
          BY <4>1
        <4>2. Of(doc[r], o, sources)
          BY <2>4, <3>2, <4>0 DEF Drop, TypeOK
        <4>3. <<Host[r], doc[r]>> \in Procs \X Docs /\ <<Host[r], doc[r]>>[2] = doc[r]
          BY <1>1, <1>2, <2>4 DEF Place
        <4>4. <<Host[r], doc[r]>> \in deleted'
          BY <4>0, <4>2, <4>3 DEF Drop
        <4>5. doc'[r] \in PageDocs => Held(Host[r], doc[r])'
          BY <2>1, <4>4 DEF Held
        <4>6. doc'[r] \in FileDocs => HeldFile(doc[r][1])'
          BY <1>2, <2>1, <4>4 DEF HeldFile
        <4> QED
          BY <4>5, <4>6
      <3> QED
        BY <3>1, <3>2
    <2> QED
      BY <2>1, <2>2, <2>3, <2>4 DEF Ripe
  <1>5. CASE Leaves(r) \/ Asks(r) \/ TakesUp(r) \/ Elsewhere(r)
    BY <1>5 DEF Leaves, Asks, TakesUp, Elsewhere, Ripe
  <1>6. CASE GoesOn(r)
    <2>1. /\ doc'[r] = doc[r] /\ next'[r] = next[r] /\ hit'[r] = hit[r] /\ next[r] = 1
          /\ at[r] \in {"fetched", "queue", "embed"} /\ at'[r] \in {"embed", "store"}
      BY <1>1, <1>6 DEF GoesOn, Place
    <2>2. Stored(doc[r], next[r] - 1)'
      BY <2>1 DEF Stored
    <2>3. hit[r] => /\ doc'[r] \in PageDocs => Held(Host[r], doc[r])'
                    /\ doc'[r] \in FileDocs => HeldFile(doc[r][1])'
      BY <1>3, <2>1
    <2> QED
      BY <2>1, <2>2, <2>3 DEF Ripe
  <1>7. CASE StoreChunk(r)
    <2>1. /\ at[r] = "store" /\ doc' = doc /\ hit' = hit /\ task' = task /\ Last(r)' = Last(r)
          /\ chunks' = [chunks EXCEPT ![doc[r]] = @ \union {next[r]}] /\ next[r] <= Last(r)
      BY <1>1, <1>7 DEF StoreChunk, Last, Place
    <2>2. \/ at'[r] = "store" /\ next'[r] = next[r] + 1
          \/ at'[r] = "finish" /\ next[r] = Last(r)
      <3>1. \/ next[r] < Last(r) /\ next' = [next EXCEPT ![r] = next[r] + 1] /\ at' = at
            \/ ~(next[r] < Last(r)) /\ at' = [at EXCEPT ![r] = "finish"]
        BY <1>7 DEF StoreChunk, Go
      <3>2. next[r] <= Last(r)
        BY <2>1
      <3>3. CASE next[r] < Last(r)
        <4>1. next' = [next EXCEPT ![r] = next[r] + 1] /\ at' = at
          BY <3>1, <3>3
        <4> QED
          BY <2>1, <4>1 DEF TypeOK
      <3>4. CASE ~(next[r] < Last(r))
        <4>1. at'[r] = "finish"
          BY <3>1, <3>4 DEF TypeOK
        <4> QED
          BY <1>n, <3>2, <3>4, <4>1
      <3> QED
        BY <3>3, <3>4
    <2>3. ASSUME ~hit[r] PROVE 1..next[r] \subseteq chunks'[doc[r]]
      <3>1. Stored(doc[r], next[r] - 1)
        BY <1>1, <2>1, <2>3 DEF Ripe
      <3>2. chunks'[doc[r]] = chunks[doc[r]] \union {next[r]}
        BY <1>2, <2>1 DEF TypeOK
      <3>3. \A c \in 1..next[r] : c \in 1..(next[r] - 1) \/ c = next[r]
        BY <1>n
      <3> QED
        BY <3>1, <3>2, <3>3 DEF Stored
    <2>4. ~hit'[r] /\ at'[r] = "store" => Stored(doc[r], next[r] - 1)'
      <3>1. at'[r] = "store" => next'[r] - 1 = next[r]
        BY <1>n, <2>2
      <3> QED
        BY <2>1, <2>3, <3>1 DEF Stored
    <2>5. ~hit'[r] /\ at'[r] = "finish" => Stored(doc[r], Last(r))'
      BY <2>1, <2>2, <2>3 DEF Stored
    <2>6. hit[r] => /\ doc'[r] \in PageDocs => Held(Host[r], doc[r])'
                    /\ doc'[r] \in FileDocs => HeldFile(doc[r][1])'
      BY <1>3, <2>1
    <2> QED
      BY <2>1, <2>4, <2>5, <2>6 DEF Ripe
  <1> QED
    BY <1>1, <1>4, <1>5, <1>6, <1>7 DEF SlotStep

-----------------------------------------------------------------------------
(* What a process may take for stored: what is held for some organization,  *)
(* what one of its slots is at, and what failed.                           *)
Met(p, d) == Held(p, d) \/ InProgress(p, d) \/ <<p, d>> \in failed

HeldHtml(p, u, v) == \E d \in PageDocs : d[1] = u /\ HtmlOf(d) = v /\ Held(p, d)
MetPage(p, u, v)  == \E d \in PageDocs : d[1] = u /\ d[2] = v /\ Met(p, d)

Remembered ==
    /\ \A p \in Procs, u \in Pages, v \in Versions : hash[p][u] = v => HeldHtml(p, u, v)
    /\ \A p \in Procs, u \in Pages, v \in Versions : etag[p][u] = v => u \in Tagged /\ MetPage(p, u, v)
    /\ \A f \in Files : record[f] = "indexed" => HeldFile(f)

(* Only who has finished a document hashes it or marks its file. *)
LEMMA Hashes ==
    ASSUME TypeOK, Placed, [Next]_vars
    PROVE  /\ \A p \in Procs, u \in Pages :
                 \/ hash'[p][u] \in {hash[p][u], None}
                 \/ \E s \in Slots : /\ Finish(s) /\ Host[s] = p /\ doc[s] \in PageDocs
                                     /\ doc[s][1] = u /\ HtmlOf(doc[s]) = hash'[p][u]
           /\ \A f \in Files :
                 \/ record'[f] \in {record[f], "saved", "deleted"}
                 \/ \E s \in Slots : Finish(s) /\ doc[s] = FileDoc(f) /\ doc[s] \in FileDocs
  <1> USE DEF memory, uploads
  <1> DEFINE Fine == UNCHANGED record /\ \A p \in Procs, u \in Pages : hash'[p][u] \in {hash[p][u], None}
  <1>1. ASSUME NEW s \in Slots, Finish(s)
        PROVE  /\ \A p \in Procs, u \in Pages :
                     \/ hash'[p][u] = hash[p][u]
                     \/ Host[s] = p /\ doc[s] \in PageDocs /\ doc[s][1] = u /\ HtmlOf(doc[s]) = hash'[p][u]
               /\ \A f \in Files :
                     record'[f] = record[f] \/ (doc[s] = FileDoc(f) /\ doc[s] \in FileDocs)
    <2>1. at[s] = "finish" /\ Place(s) /\ Host[s] \in Procs
      BY <1>1, ConstantsAssumption DEF Finish, Placed
    <2>2. CASE task[s] = "crawl"
      <3>1. doc[s] \in PageDocs /\ doc[s][1] \in Pages
        BY <2>1, <2>2, AtHand DEF Place, Ingestion
      <3>2. record' = record /\ hash' = [hash EXCEPT ![Host[s]][doc[s][1]] = HtmlOf(doc[s])]
        BY <1>1, <2>2 DEF Finish, Remembers
      <3>3. ASSUME NEW p \in Procs, NEW u \in Pages, hash'[p][u] # hash[p][u]
            PROVE  p = Host[s] /\ u = doc[s][1] /\ hash'[p][u] = HtmlOf(doc[s])
        BY <2>1, <3>1, <3>2, <3>3 DEF TypeOK
      <3> QED
        BY <3>1, <3>2, <3>3
    <2>3. CASE task[s] = "embed"
      <3>1. doc[s] \in FileDocs /\ doc[s] = FileDoc(doc[s][1]) /\ doc[s][1] \in Files
        BY <2>1, <2>3, AtHand DEF Place, Ingestion
      <3>2. hash' = hash /\ record' = [record EXCEPT ![doc[s][1]] = "indexed"]
        BY <1>1, <2>3 DEF Finish
      <3> QED
        BY <3>1, <3>2 DEF TypeOK
    <2>4. CASE task[s] \notin {"crawl", "embed"}
      BY <1>1, <2>4 DEF Finish
    <2> QED
      BY <2>2, <2>3, <2>4
  <1>2. ASSUME NEW s \in Slots, Start(s)
        PROVE  hash' = hash /\ \A f \in Files : record'[f] \in {record[f], "saved", "deleted"}
    BY <1>2 DEF Start, Request, Upload, DeleteUpload, DeleteSource, DeleteAll, ClearByHand, Ask, TypeOK
  <1>3. ASSUME NEW s \in Slots, Failing(s) \/ \E job \in queue : Work(s, job) PROVE Fine
    BY <1>3 DEF Failing, FetchFails, IngestFails, EnqueueFails, Work, TakeJob, NotFound, Discard
  <1>4. ASSUME NEW s \in Slots, ClearHashes(s) PROVE Fine
    BY <1>4 DEF ClearHashes, TypeOK
  <1>5. ASSUME NEW s \in Slots, Step(s) PROVE Fine \/ Finish(s)
    BY <1>4, <1>5 DEF Step, Crawling, Ingesting, Deleting, Chatting, NotModified, Fetched, Compare, Embed,
                StoreChunk, RowGone, Enqueue, ClearCache, Remember, Keep
  <1>6. ASSUME NEW p \in Procs, Die(p) PROVE Fine
    BY <1>6 DEF Die, TypeOK
  <1>7. ASSUME (\E u \in Pages : ChangePage(u)) \/ UNCHANGED vars PROVE Fine
    BY <1>7 DEF ChangePage, vars
  <1> HIDE DEF Fine
  <1>8. Fine \/ (\E s \in Slots : Start(s) \/ Finish(s))
    BY <1>3, <1>5, <1>6, <1>7 DEF Next
  <1>9. CASE Fine
    BY <1>9 DEF Fine
  <1>10. CASE \E s \in Slots : Start(s)
    BY <1>2, <1>10
  <1>11. CASE \E s \in Slots : Finish(s)
    <2>1. PICK s \in Slots : Finish(s)
      BY <1>11
    <2> QED
      BY <1>1, <2>1
  <1> QED
    BY <1>8, <1>9, <1>10, <1>11

(* An ETag is remembered when a document is fetched, or its fetch fails.   *)
LEMMA Tags ==
    ASSUME TypeOK, Placed, [Next]_vars, NEW p \in Procs, NEW u \in Pages
    PROVE  \/ etag'[p][u] = etag[p][u]
           \/ etag'[p][u] = None
           \/ /\ u \in Tagged
              /\ \E s \in Slots, o \in Orgs :
                     Host[s] = p /\ at'[s] = "fetched" /\ doc'[s] = <<u, etag'[p][u], o>>
           \/ u \in Tagged /\ \E o \in Orgs : <<p, <<u, etag'[p][u], o>>>> \in failed'
  <1> USE DEF memory
  <1>h. \A s \in Slots : Host[s] \in Procs
    BY ConstantsAssumption
  <1>t. ASSUME NEW s \in Slots, NEW v \in Pages, Tag(s, v)
        PROVE  etag'[p][u] = etag[p][u] \/ (u \in Tagged /\ p = Host[s] /\ u = v /\ etag'[p][u] = site[v])
    BY <1>h, <1>t DEF Tag, TypeOK
  <1>1. ASSUME NEW s \in Slots, Fetched(s)
        PROVE  etag'[p][u] = etag[p][u] \/
               (/\ u \in Tagged /\ Host[s] = p /\ at'[s] = "fetched" /\ doc[s][3] \in Orgs
                /\ doc'[s] = <<u, etag'[p][u], doc[s][3]>>)
    <2>1. doc[s][1] \in Pages /\ doc[s][3] \in Orgs /\ Tag(s, doc[s][1])
      BY <1>1, AtHand DEF Fetched
    <2>2. at'[s] = "fetched" /\ doc'[s] = <<doc[s][1], site[doc[s][1]], doc[s][3]>>
      BY <1>1 DEF Fetched, Go, Take, TypeOK
    <2> QED
      BY <2>1, <2>2, <1>t
  <1>2. ASSUME NEW s \in Slots, FetchFails(s)
        PROVE  \/ etag'[p][u] = etag[p][u]
               \/ u \in Tagged /\ doc[s][3] \in Orgs /\ <<p, <<u, etag'[p][u], doc[s][3]>>>> \in failed'
    <2>1. doc[s][1] \in Pages /\ doc[s][3] \in Orgs
      BY <1>2, AtHand DEF FetchFails
    <2>2. etag' = etag \/ (/\ Tag(s, doc[s][1])
                           /\ <<Host[s], <<doc[s][1], site[doc[s][1]], doc[s][3]>>>> \in failed')
      BY <1>2 DEF FetchFails
    <2> QED
      BY <2>1, <2>2, <1>t
  <1>3. ASSUME NEW q \in Procs, Die(q) PROVE etag'[p][u] \in {etag[p][u], None}
    BY <1>3 DEF Die, TypeOK
  <1>4. ASSUME NEW s \in Slots, Start(s) PROVE etag' = etag
    BY <1>4 DEF Start, Request, Upload, DeleteUpload, DeleteSource, DeleteAll, ClearByHand, Ask
  <1>5. ASSUME NEW s \in Slots, Failing(s) \/ (\E job \in queue : Work(s, job))
        PROVE  etag' = etag \/ FetchFails(s)
    BY <1>5 DEF Failing, IngestFails, EnqueueFails, Work, TakeJob, NotFound, Discard
  <1>6. ASSUME NEW s \in Slots, Step(s) PROVE etag' = etag \/ Fetched(s)
    BY <1>6 DEF Step, Crawling, Ingesting, Deleting, Chatting, NotModified, Compare, Embed,
                StoreChunk, Finish, RowGone, Enqueue, ClearHashes, ClearCache, Remember, Keep
  <1>7. ASSUME (\E v \in Pages : ChangePage(v)) \/ UNCHANGED vars PROVE etag' = etag
    BY <1>7 DEF ChangePage, vars
  <1>8. \/ etag' = etag \/ (\E s \in Slots : Fetched(s)) \/ (\E s \in Slots : FetchFails(s))
        \/ (\E q \in Procs : Die(q))
    BY <1>4, <1>5, <1>6, <1>7 DEF Next
  <1> QED
    BY <1>1, <1>2, <1>3, <1>8

(* What a process may take for stored of a page with an ETag, it may as     *)
(* long as it lives, for the same organization or the one whose crawl made *)
(* it skip the page.                                                       *)
LEMMA MetStays ==
    ASSUME TypeOK, Placed, \A s \in Slots : Ripe(s), Remembered, [Next]_vars,
           NEW p \in Procs, NEW d \in PageDocs, d[1] \in Tagged, Met(p, d), ~Die(p)
    PROVE  MetPage(p, d[1], d[2])'
  <1> USE DEF Ingestion
  <1>h. d \in Docs /\ d[1] \in Pages /\ d[2] \in Versions /\ HtmlOf(d) = d[2]
    BY ConstantsAssumption DEF Docs, PageDocs, HtmlOf
  <1>m. Met(p, d)' => MetPage(p, d[1], d[2])'
    BY DEF MetPage
  <1>1. CASE Held(p, d)
    BY <1>1, <1>m, HeldStays DEF Met
  <1>2. CASE <<p, d>> \in failed
    <2>1. <<p, d>> \in failed' \/ \E s \in Slots : Finish(s) /\ ~hit[s] /\ <<p, d>> = Mine(s)
      <3>1. failed \subseteq failed' \/ \E s \in Slots : Finish(s)
        BY DEF Next, Start, Step, Failing, Crawling, Ingesting, Deleting, Chatting, Request, Upload,
               DeleteSource, DeleteAll, ClearByHand, Ask, NotModified, Fetched, Compare, Embed,
               StoreChunk, Enqueue, ClearHashes, ClearCache, Remember, Keep, FetchFails, IngestFails,
               RowGone, EnqueueFails, Work, TakeJob, NotFound, Discard, DeleteUpload, ChangePage, Die,
               vars, marks
      <3>2. ASSUME NEW s \in Slots, Finish(s)
            PROVE  <<p, d>> \in failed' \/ (~hit[s] /\ <<p, d>> = Mine(s))
        BY <1>2, <3>2 DEF Finish, marks
      <3> QED
        BY <1>2, <3>1, <3>2
    <2>2. ASSUME NEW s \in Slots, Finish(s), ~hit[s], <<p, d>> = Mine(s) PROVE Stored(d, NChunks)'
      <3>1. d = doc[s]
        BY <2>2 DEF Mine
      <3> QED
        BY <2>2, <3>1, Finished DEF Stored
    <2> QED
      BY <1>m, <2>1, <2>2 DEF Met, Held
  <1>3. CASE InProgress(p, d)
    <2>1. PICK s \in Slots : Host[s] = p /\ doc[s] = d /\ at[s] \in {"fetched"} \union Ingestion
      BY <1>3 DEF InProgress
    <2>2. SlotStep(s) /\ Place(s) /\ Ripe(s)
      BY SlotSteps DEF Placed
    <2>3. CASE Stays(s) \/ GoesOn(s) \/ StoreChunk(s)
      <3>1. doc'[s] = d /\ at'[s] \in {"fetched"} \union Ingestion
        BY <2>1, <2>3 DEF Stays, Same, GoesOn, StoreChunk, Go, TypeOK
      <3> QED
        BY <1>m, <2>1, <3>1 DEF Met, InProgress
    <2>4. CASE Leaves(s)
      <3>1. CASE Skips(s)
        <4>1. hash[p][d[1]] = d[2]
          BY <1>h, <2>1, <3>1 DEF Skips
        <4>2. PICK e \in PageDocs : e[1] = d[1] /\ HtmlOf(e) = d[2] /\ Held(p, e)
          BY <1>h, <4>1 DEF Remembered, HeldHtml
        <4>3. e[2] = d[2]
          BY <4>2, ConstantsAssumption DEF HtmlOf, PageDocs
        <4>4. Held(p, e)'
          BY <4>2, HeldStays
        <4> QED
          BY <4>2, <4>3, <4>4 DEF Met, MetPage
      <3>2. CASE Finish(s)
        <4>1. CASE hit[s]
          <5>1. Held(p, d)
            BY <2>1, <2>2, <4>1 DEF Ripe
          <5> QED
            BY <1>m, <5>1, HeldStays DEF Met
        <4>2. CASE ~hit[s]
          <5>1. Stored(d, NChunks)'
            BY <2>1, <2>2, <3>2, <4>2, Finished DEF Stored
          <5> QED
            BY <1>m, <5>1 DEF Met, Held
        <4> QED
          BY <4>1, <4>2
      <3>3. CASE IngestFails(s)
        <4>1. at[s] \in Ingestion
          BY <3>3 DEF IngestFails
        <4>2. task[s] = "crawl"
          BY <2>1, <2>2, <4>1, Constants DEF Place
        <4>3. <<p, d>> \in failed'
          BY <2>1, <3>3, <4>2 DEF IngestFails, Mine
        <4> QED
          BY <1>m, <4>3 DEF Met
      <3>4. CASE RowGone(s)
        BY <2>1, <2>2, <3>4, Constants DEF RowGone, Place
      <3> QED
        BY <2>1, <2>4, <3>1, <3>2, <3>3, <3>4 DEF Leaves
    <2>5. ~Asks(s) /\ ~TakesUp(s) /\ ~Elsewhere(s)
      BY <2>1 DEF Asks, TakesUp, Elsewhere
    <2> QED
      BY <2>2, <2>3, <2>4, <2>5 DEF SlotStep
  <1> QED
    BY <1>1, <1>2, <1>3 DEF Met

LEMMA RememberedStep ==
    ASSUME TypeOK, TypeOK', Placed, \A s \in Slots : Ripe(s), Remembered, [Next]_vars
    PROVE  Remembered'
  <1>1. ASSUME NEW p \in Procs, NEW u \in Pages, NEW v \in Versions, v = hash'[p][u]
        PROVE  HeldHtml(p, u, v)'
    <2>1. v # None
      BY Constants
    <2>2. CASE v = hash[p][u]
      <3>1. PICK d \in PageDocs : d[1] = u /\ HtmlOf(d) = v /\ Held(p, d)
        BY <2>2 DEF Remembered, HeldHtml
      <3>2. Held(p, d)'
        BY <3>1, HeldStays
      <3> QED
        BY <3>1, <3>2 DEF HeldHtml
    <2>3. ASSUME NEW s \in Slots, Finish(s), Host[s] = p, doc[s] \in PageDocs, doc[s][1] = u, HtmlOf(doc[s]) = v
          PROVE  HeldHtml(p, u, v)'
      <3>2. PICK e \in PageDocs : e = doc[s]
        BY <2>3
      <3>0. e[1] = u /\ HtmlOf(e) = v
        BY <2>3, <3>2
      <3>3. CASE hit[s]
        <4>1. at[s] = "finish"
          BY <2>3 DEF Finish
        <4>2. Held(p, e)
          BY <2>3, <3>2, <3>3, <4>1 DEF Ripe, Ingestion
        <4>3. Held(p, e)'
          BY <4>2, HeldStays
        <4> QED
          BY <3>0, <3>2, <4>3 DEF HeldHtml
      <3>4. CASE ~hit[s]
        <4>1. Stored(e, NChunks)'
          BY <2>3, <3>2, <3>4, Finished DEF Stored
        <4> QED
          BY <3>0, <3>2, <4>1 DEF HeldHtml, Held
      <3> QED
        BY <3>3, <3>4
    <2> QED
      BY <1>1, <2>1, <2>2, <2>3, Hashes
  <1>2. ASSUME NEW p \in Procs, NEW u \in Pages, NEW v \in Versions, v = etag'[p][u]
        PROVE  u \in Tagged /\ MetPage(p, u, v)'
    <2>1. v # None /\ \A o \in Orgs : <<u, v, o>> \in PageDocs
      BY Constants DEF PageDocs
    <2>2. CASE v = etag[p][u]
      <3>1. ~Die(p)
        <4>1. Die(p) => etag' = [etag EXCEPT ![p] = [w \in Pages |-> None]]
          BY DEF Die
        <4> QED
          BY <1>2, <2>1, <4>1 DEF TypeOK
      <3>2. u \in Tagged /\ MetPage(p, u, v)
        BY <2>2 DEF Remembered
      <3>3. PICK d \in PageDocs : d[1] = u /\ d[2] = v /\ Met(p, d)
        BY <3>2 DEF MetPage
      <3>4. MetPage(p, d[1], d[2])'
        BY <3>1, <3>2, <3>3, MetStays
      <3> QED
        BY <3>2, <3>3, <3>4 DEF MetPage
    <2>3. ASSUME NEW s \in Slots, NEW o \in Orgs, Host[s] = p, at'[s] = "fetched", doc'[s] = <<u, v, o>>
          PROVE  MetPage(p, u, v)'
      <3>1. Met(p, <<u, v, o>>)'
        BY <2>3 DEF Met, InProgress
      <3>2. <<u, v, o>>[1] = u /\ <<u, v, o>>[2] = v
        OBVIOUS
      <3> QED
        BY <2>1, <3>1, <3>2 DEF MetPage
    <2>4. ASSUME NEW o \in Orgs, <<p, <<u, v, o>>>> \in failed' PROVE MetPage(p, u, v)'
      <3>1. Met(p, <<u, v, o>>)'
        BY <2>4 DEF Met
      <3>2. <<u, v, o>>[1] = u /\ <<u, v, o>>[2] = v
        OBVIOUS
      <3> QED
        BY <2>1, <3>1, <3>2 DEF MetPage
    <2> QED
      BY <1>2, <2>1, <2>2, <2>3, <2>4, Tags
  <1>3. ASSUME NEW f \in Files, record'[f] = "indexed" PROVE HeldFile(f)'
    <2>1. CASE record[f] = "indexed"
      BY <2>1, HeldStays DEF Remembered
    <2>2. ASSUME NEW s \in Slots, Finish(s), doc[s] = FileDoc(f), doc[s] \in FileDocs PROVE HeldFile(f)'
      <3>0. doc[s][1] = f /\ at[s] = "finish"
        BY <2>2, Constants DEF Finish
      <3>1. CASE hit[s]
        <4>1. HeldFile(f)
          BY <2>2, <3>0, <3>1 DEF Ripe, Ingestion
        <4> QED
          BY <4>1, HeldStays
      <3>2. CASE ~hit[s]
        <4>1. Stored(FileDoc(f), Preview)'
          BY <2>2, <3>0, <3>2, Finished DEF Stored
        <4> QED
          BY <4>1 DEF HeldFile
      <3> QED
        BY <3>1, <3>2
    <2> QED
      BY <1>3, <2>1, <2>2, Hashes
  <1> QED
    BY <1>1, <1>2, <1>3 DEF Remembered

-----------------------------------------------------------------------------
(* Answers from deleted knowledge are where late or a deletion that has not *)
(* reached the cache yet accounts for them; who answers nothing has none.  *)
Stale == "deleted" \in cache \/ \E s \in Slots : answer[s] = "deleted" \/ "deleted" \in seen[s]

Resetting == \E s \in Slots : task[s] = "reset"

Fresh ==
    /\ Stale => late \/ Resetting
    /\ \A s \in Slots : at[s] \notin {"answer", "remember"} => answer[s] = "current" /\ seen[s] = {}

LEMMA FreshStep ==
    ASSUME TypeOK, TypeOK', Placed, Fresh, [Next]_vars
    PROVE  Fresh'
  <1> USE DEF chat
  <1>s. \A s \in Slots : SlotStep(s) /\ Place(s)
    BY SlotSteps DEF Placed
  (* Where the chat is untouched, and a slot does not leave it. *)
  <1>u. ASSUME UNCHANGED <<cache, answer, seen>>, late => late', Resetting => late' \/ Resetting',
               \A s \in Slots : at[s] \in {"answer", "remember"} => at'[s] \in {"answer", "remember"}
        PROVE  Fresh'
    BY <1>u DEF Fresh, Stale
  <1>e. ASSUME NEW s \in Slots, End(s)
        PROVE  /\ task[s] # "reset" => (Resetting => Resetting')
               /\ \A r \in Slots : r # s => at'[r] = at[r]
               /\ at'[s] = "idle"
    BY <1>e DEF End, Go, Resetting, TypeOK
  <1>1. ASSUME NEW s \in Slots, NotModified(s) \/ FetchFails(s) \/ Finish(s) \/ IngestFails(s)
                                \/ RowGone(s) \/ EnqueueFails(s)
        PROVE  Fresh'
    <2>1. End(s) /\ UNCHANGED chat /\ at[s] \in {"request", "queue"} \union Ingestion
      BY <1>1 DEF NotModified, FetchFails, Finish, IngestFails, RowGone, EnqueueFails, Ingestion
    <2>2. task[s] # "reset"
      BY <2>1, <1>s DEF Place, Ingestion
    <2>3. at[s] \notin {"answer", "remember"}
      BY <2>1 DEF Ingestion
    <2> QED
      BY <2>1, <2>2, <2>3, <1>e, <1>u
  <1>2. ASSUME NEW s \in Slots, Compare(s) PROVE Fresh'
    <2>1. (End(s) \/ (Go(s, "embed") /\ task' = task)) /\ UNCHANGED chat /\ at[s] = "fetched"
      BY <1>2 DEF Compare
    <2>2. task[s] # "reset"
      BY <2>1, <1>s DEF Place
    <2>3. CASE End(s)
      BY <2>1, <2>2, <2>3, <1>e, <1>u
    <2>4. CASE Go(s, "embed") /\ task' = task
      BY <2>1, <2>4, <1>u DEF Go, Resetting, TypeOK
    <2> QED
      BY <2>1, <2>3, <2>4
  (* Steps to another place of the same task, or from idle. *)
  <1>3. ASSUME NEW s \in Slots, NEW place, Go(s, place), UNCHANGED chat,
               at[s] \notin {"answer", "remember"},
               task' = task \/ (at[s] = "idle" /\ \E what : task' = [task EXCEPT ![s] = what])
        PROVE  Fresh'
    <2>1. at[s] = "idle" => task[s] # "reset"
      BY <1>s DEF Place
    <2>2. Resetting => Resetting'
      BY <1>3, <2>1 DEF Resetting, TypeOK
    <2>3. \A r \in Slots : at[r] \in {"answer", "remember"} => at'[r] \in {"answer", "remember"}
      BY <1>3 DEF Go, TypeOK
    <2> QED
      BY <1>3, <2>2, <2>3, <1>u
  <1>4. ASSUME NEW s \in Slots, \/ Fetched(s) \/ Embed(s) \/ StoreChunk(s) \/ Enqueue(s) \/ ClearHashes(s)
                                \/ (\E u \in Pages, o \in Orgs : Request(s, u, o)) \/ (\E f \in Files : Upload(s, f))
                                \/ (\E job \in queue : TakeJob(s, job)) \/ Ask(s)
        PROVE  Fresh'
    <2>1. CASE StoreChunk(s) /\ at' = at
      BY <2>1, <1>u DEF StoreChunk, Resetting
    <2>2. CASE StoreChunk(s) /\ at' # at
      BY <2>2, <1>3 DEF StoreChunk
    <2>3. CASE Fetched(s) \/ Embed(s) \/ Enqueue(s) \/ ClearHashes(s)
      BY <2>3, <1>3 DEF Fetched, Embed, Enqueue, ClearHashes
    <2>4. CASE \/ (\E u \in Pages, o \in Orgs : Request(s, u, o)) \/ (\E f \in Files : Upload(s, f))
               \/ (\E job \in queue : TakeJob(s, job)) \/ Ask(s)
      BY <2>4, <1>3 DEF Request, Upload, TakeJob, Free, Ask, Begin
    <2> QED
      BY <1>4, <2>1, <2>2, <2>3, <2>4
  <1>5. ASSUME NEW s \in Slots, \/ \E o \in Orgs, source \in Sources : DeleteSource(s, o, source)
                                \/ \E f \in Files : DeleteUpload(s, f)
                                \/ \E job \in queue : NotFound(s, job) \/ Discard(s, job)
        PROVE  Fresh'
    <2>1. UNCHANGED <<cache, answer, seen, late, task, at>>
      BY <1>5 DEF DeleteSource, DeleteUpload, NotFound, Discard
    <2> QED
      BY <2>1, <1>u DEF Resetting
  <1>6. ASSUME NEW s \in Slots, NEW o \in Orgs, DeleteAll(s, o) PROVE Fresh'
    <2>1. /\ at' = [at EXCEPT ![s] = "hashes"] /\ task' = [task EXCEPT ![s] = "reset"] /\ at[s] = "idle"
          /\ \/ /\ answer' = [r \in Slots |->
                               IF at[r] \in {"answer", "remember"} THEN "deleted" ELSE answer[r]]
                /\ seen' = [r \in Slots |-> Outdated(seen[r])]
             \/ UNCHANGED <<answer, seen>>
      BY <1>6 DEF DeleteAll, Begin, Go
    <2>2. Resetting'
      BY <2>1 DEF Resetting, TypeOK
    <2>3. \A r \in Slots : at'[r] \notin {"answer", "remember"} => answer'[r] = "current" /\ seen'[r] = {}
      <3> TAKE r \in Slots
      <3> HAVE at'[r] \notin {"answer", "remember"}
      <3>1. at[r] \notin {"answer", "remember"}
        BY <2>1 DEF TypeOK
      <3> QED
        BY <2>1, <3>1 DEF Fresh, Outdated
    <2> QED
      BY <2>2, <2>3 DEF Fresh
  <1>7. ASSUME NEW s \in Slots, ClearCache(s) PROVE Fresh'
    <2>1. at[s] = "clear" /\ End(s) /\ UNCHANGED <<answer, seen>>
      BY <1>7 DEF ClearCache
    <2>2. \A r \in Slots : at'[r] \notin {"answer", "remember"} => answer'[r] = "current" /\ seen'[r] = {}
      BY <2>1, <1>e DEF Fresh
    <2>3. late' \/ (cache' = {} /\ Answering = {})
      BY <1>7 DEF ClearCache
    <2>4. cache' = {} /\ Answering = {} => ~Stale'
      BY <2>1 DEF Fresh, Stale, Answering
    <2> QED
      BY <2>2, <2>3, <2>4 DEF Fresh
  <1>8. ASSUME NEW s \in Slots, ClearByHand(s) PROVE Fresh'
    <2>1. UNCHANGED <<answer, seen, at>> /\ cache' = {} /\ late' = (Answering # {})
      BY <1>8 DEF ClearByHand
    <2>2. late' \/ ~Stale'
      BY <2>1 DEF Fresh, Stale, Answering
    <2> QED
      BY <2>1, <2>2 DEF Fresh
  <1>9. ASSUME NEW s \in Slots, Remember(s) PROVE Fresh'
    <2>1. /\ seen' = [seen EXCEPT ![s] = cache] /\ at' = [at EXCEPT ![s] = "remember"]
          /\ UNCHANGED <<cache, answer, late, task>> /\ at[s] = "answer"
      BY <1>9 DEF Remember, Go
    <2>2. Stale' => Stale
      BY <2>1 DEF Stale, TypeOK
    <2>3. \A r \in Slots : at'[r] \notin {"answer", "remember"} => answer'[r] = "current" /\ seen'[r] = {}
      BY <2>1 DEF Fresh, TypeOK
    <2> QED
      BY <2>1, <2>2, <2>3 DEF Fresh, Resetting
  <1>10. ASSUME NEW s \in Slots, Keep(s) PROVE Fresh'
    <2>1. /\ cache' = seen[s] \union {answer[s]} /\ answer' = [answer EXCEPT ![s] = "current"]
          /\ seen' = [seen EXCEPT ![s] = {}] /\ late' = late /\ End(s) /\ at[s] = "remember"
      BY <1>10 DEF Keep
    <2>2. Stale' => Stale
      BY <2>1 DEF Stale, TypeOK
    <2>3. Resetting => Resetting'
      BY <2>1, <1>s, <1>e DEF Place
    <2>4. \A r \in Slots : at'[r] \notin {"answer", "remember"} => answer'[r] = "current" /\ seen'[r] = {}
      BY <2>1, <1>e DEF Fresh, TypeOK
    <2> QED
      BY <2>1, <2>2, <2>3, <2>4 DEF Fresh
  <1>11. ASSUME NEW p \in Procs, Die(p) PROVE Fresh'
    <2>1. /\ late' = (late \/ \E s \in Slots : Host[s] = p /\ task[s] = "reset") /\ cache' = cache
          /\ \A s \in Slots : /\ task'[s] = IF Host[s] = p THEN "none" ELSE task[s]
                              /\ at'[s] = IF Host[s] = p THEN "idle" ELSE at[s]
                              /\ answer'[s] = IF Host[s] = p THEN "current" ELSE answer[s]
                              /\ seen'[s] = IF Host[s] = p THEN {} ELSE seen[s]
      BY <1>11 DEF Die
    <2>2. Stale' => Stale
      BY <2>1 DEF Stale
    <2>3. Resetting => late' \/ Resetting'
      BY <2>1 DEF Resetting
    <2>4. \A r \in Slots : at'[r] \notin {"answer", "remember"} => answer'[r] = "current" /\ seen'[r] = {}
      BY <2>1 DEF Fresh
    <2> QED
      BY <2>1, <2>2, <2>3, <2>4 DEF Fresh
  <1>12. ASSUME (\E u \in Pages : ChangePage(u)) \/ UNCHANGED vars PROVE Fresh'
    BY <1>12, <1>u DEF ChangePage, vars, Resetting
  <1>13. ASSUME NEW s \in Slots, Start(s) PROVE Fresh'
    BY <1>13, <1>4, <1>5, <1>6, <1>8 DEF Start
  <1>14. ASSUME NEW s \in Slots, Step(s) PROVE Fresh'
    BY <1>14, <1>1, <1>2, <1>4, <1>7, <1>9, <1>10 DEF Step, Crawling, Ingesting, Deleting, Chatting
  <1>15. ASSUME NEW s \in Slots, Failing(s) \/ \E job \in queue : Work(s, job) PROVE Fresh'
    BY <1>15, <1>1, <1>4, <1>5 DEF Failing, Work
  <1> QED
    BY <1>11, <1>12, <1>13, <1>14, <1>15 DEF Next

-----------------------------------------------------------------------------
(* The inductive invariant. *)
Sound ==
    /\ TypeOK /\ Placed
    /\ \A s \in Slots : Ripe(s)
    /\ Remembered
    /\ Fresh

LEMMA SoundInit == Init => Sound
  <1> SUFFICES ASSUME Init PROVE Sound
    OBVIOUS
  <1>1. TypeOK /\ Placed
    BY TypeInit
  <1>2. \A s \in Slots : Ripe(s)
    BY DEF Init, Ripe, Ingestion
  <1>3. Remembered
    BY Constants DEF Init, Remembered
  <1>4. Fresh
    BY DEF Init, Fresh, Stale
  <1> QED
    BY <1>1, <1>2, <1>3, <1>4 DEF Sound

LEMMA SoundStep == Sound /\ [Next]_vars => Sound'
  <1> SUFFICES ASSUME TypeOK, Placed, \A s \in Slots : Ripe(s), Remembered, Fresh, [Next]_vars
               PROVE  Sound'
    BY DEF Sound
  <1>1. TypeOK'
    BY TypeStep
  <1>2. Placed'
    BY <1>1, PlacedStep
  <1>3. \A s \in Slots : Ripe(s)'
    BY <1>1, RipeStep
  <1>4. Remembered' /\ Fresh'
    BY <1>1, RememberedStep, FreshStep
  <1> QED
    BY <1>1, <1>2, <1>3, <1>4 DEF Sound

LEMMA SoundAlways == Spec => []Sound
  BY SoundInit, SoundStep, PTL DEF Spec

(* Tables, caches and tasks keep their types, for any number of processes   *)
(* and coroutines (ingestion.py, embedding_tasks.py, knowledge.py).        *)
THEOREM TypeCorrect == Spec => []TypeOK
  <1>1. Sound => TypeOK
    BY DEF Sound
  <1> QED
    BY <1>1, SoundAlways, PTL

(* No process skips a page as unchanged or unmodified of which it has not   *)
(* stored a version with this HTML to the last chunk, for one of the       *)
(* organizations, except one that this organization deleted, or that       *)
(* failed once its ETag was remembered (engine.py:130-133, 160-200;        *)
(* page_hashing.py:9-26; scraper.py:279-308; vector_store.py:63).          *)
THEOREM Skipped == Spec => []SkippedMeansStored
  <1>1. Sound => SkippedMeansStored
    <2> SUFFICES ASSUME TypeOK, Remembered, NEW p \in Procs, NEW u \in Pages
                 PROVE  /\ hash[p][u] # None => HeldHtml(p, u, hash[p][u])
                        /\ etag[p][u] # None => MetPage(p, u, etag[p][u])
      BY DEF Sound, SkippedMeansStored, HeldHtml, MetPage, Met
    <2>1. hash[p][u] \in Versions \union {None} /\ etag[p][u] \in Versions \union {None}
      BY DEF TypeOK
    <2> QED
      BY <2>1 DEF Remembered
  <1> QED
    BY <1>1, SoundAlways, PTL

(* A file marked as indexed is in the store as far as the worker was given  *)
(* it, unless somebody deleted it (embedding_tasks.py:28-45,               *)
(* knowledge.py:181-195).                                                  *)
THEOREM Indexed == Spec => []IndexedMeansStored
  <1>1. Sound => IndexedMeansStored
    BY DEF Sound, Remembered, HeldFile, IndexedMeansStored
  <1> QED
    BY <1>1, SoundAlways, PTL

(* Between a deletion's clearing of the cache and the next deletion the     *)
(* cache holds no answer from deleted knowledge, unless one was under way   *)
(* (knowledge.py:238-267, semantic_cache.py:60-96).                        *)
THEOREM Gone == Spec => []DeletedAnswersGo
  <1>1. Sound => DeletedAnswersGo
    BY DEF Sound, Fresh, Stale, Resetting, DeletedAnswersGo
  <1> QED
    BY <1>1, SoundAlways, PTL
=============================================================================
