----------------------------- MODULE CrawlProofs -----------------------------
(***************************************************************************)
(* A crawl fetches no URL twice, loses none and keeps its page budget, for *)
(* every site, every limit and every number of concurrent fetches; the     *)
(* product extracted from a page has the best of its sources, and the text *)
(* extracted from it has its tables.                                       *)
(***************************************************************************)
EXTENDS ExtractionProps, CrawlProps, FiniteSetTheorems, SequenceTheorems, TLAPS

Count    == ingested + skipped + errors
Ready    == {u \in Urls : at[u] = "ready"}
InFlight == {u \in Urls : Running(u)}

(* A crawl starts with its types. *)
LEMMA TypeInit == Init => TypeOK
  BY DEF Init, TypeOK, Phases, Places

(* Every step of a crawl keeps the types. *)
LEMMA TypeStep == TypeOK /\ [Next]_vars => TypeOK'
  <1> SUFFICES ASSUME TypeOK, [Next]_vars PROVE TypeOK'
    OBVIOUS
  <1> USE ConstantsAssumption DEF TypeOK, Phases, Places, counters, frontier, history
  <1>1. CASE Loop
    BY <1>1 DEF Loop, Seed, PopBatch, BatchDone, LeaveLoop, Close, Mark, Push, Batches
  <1>2. ASSUME NEW u \in Urls, Process(u) PROVE TypeOK'
    <2> USE DEF Goes
    <2>1. CASE Start(u)
      BY <2>1 DEF Start
    <2>2. CASE Fetched(u)
      BY <2>2 DEF Fetched, Render, used_browser
    <2>3. CASE Stored(u)
      BY <2>3 DEF Stored
    <2>4. CASE Skip(u)
      BY <2>4 DEF Skip
    <2>5. CASE Ingest(u)
      BY <2>5 DEF Ingest, Follow, Push
    <2>6. CASE Fail(u)
      BY <2>6 DEF Fail
    <2>7. CASE PushFails(u)
      BY <2>7 DEF PushFails
    <2> QED
      BY <1>2, <2>1, <2>2, <2>3, <2>4, <2>5, <2>6, <2>7 DEF Process
  <1>3. ASSUME NEW u \in Urls, Collapse(u) PROVE TypeOK'
    BY <1>3 DEF Collapse, Broken, Goes, Raise
  <1>4. CASE Abort \/ Expire \/ Kill
    BY <1>4 DEF Abort, Expire, Kill, Raise
  <1>5. CASE SoftLimit
    BY <1>5 DEF SoftLimit, Broken, Goes, Raise
  <1>6. CASE UNCHANGED vars
    BY <1>6 DEF vars
  <1> QED
    BY <1>1, <1>2, <1>3, <1>4, <1>5, <1>6 DEF Next

(* The variables of a crawl have their types, in every reachable state. *)
THEOREM TypeCorrect == Spec => []TypeOK
  BY TypeInit, TypeStep, PTL DEF Spec

-----------------------------------------------------------------------------
(* What a step does to the pages: a coroutine begins to fetch, is refused  *)
(* by robots.txt, goes on or ends; or the crawl stops; or time passes.     *)
Begins(u) ==
    /\ Alive /\ at[u] = "ready" /\ u \notin Disallowed
    /\ \E place \in {"fetch", "fetch_with_browser"} : Goes(u, place)
    /\ visits' = [visits EXCEPT ![u] = @ + 1]
    /\ UNCHANGED <<phase, queue, known, followed, ingested, skipped, errors>>

Refused(u) ==
    /\ Alive /\ at[u] = "ready" /\ u \in Disallowed
    /\ Goes(u, "none")
    /\ UNCHANGED <<phase, queue, known, visits, followed, ingested, skipped, errors>>

GoesOn(u) ==
    /\ Alive /\ Running(u)
    /\ \E place \in {"store", "ingest"} : Goes(u, place)
    /\ UNCHANGED <<phase, queue, known, visits, followed, ingested, skipped, errors>>

Ends(u) ==
    /\ Alive /\ Running(u)
    /\ Goes(u, "none")
    /\ Count' >= Count + 1
    /\ phase' \in {phase, "failed"}
    /\ UNCHANGED visits
    /\ \/ UNCHANGED <<queue, known, followed>>
       \/ Push(Links[u]) /\ followed' = followed \union {u}

Stops ==
    /\ phase' \in {phase, "failed", "killed"}
    /\ phase = "done" => phase' = "done"
    /\ UNCHANGED <<queue, known, at, visits, followed, ingested, skipped, errors>>

(* Every step is one of these kinds. *)
LEMMA StepKinds ==
    ASSUME TypeOK, [Next]_vars
    PROVE  \/ Loop \/ Stops
           \/ \E u \in Urls : Begins(u) \/ Refused(u) \/ GoesOn(u) \/ Ends(u)
  <1> DEFINE Goal == \/ Loop \/ Stops
                     \/ \E u \in Urls : Begins(u) \/ Refused(u) \/ GoesOn(u) \/ Ends(u)
  <1> USE DEF counters, frontier, history
  <1>1. ASSUME NEW u \in Urls, Process(u) PROVE Goal
    <2>1. CASE Start(u)
      BY <2>1 DEF Start, Begins, Refused
    <2>2. CASE Fetched(u) \/ Stored(u)
      BY <2>2 DEF Fetched, Stored, GoesOn, Running
    <2>3. CASE Skip(u)
      BY <2>3 DEF Skip, Ends, Running, Count, TypeOK
    <2>4. CASE Ingest(u)
      BY <2>4 DEF Ingest, Follow, Ends, Running, Count, TypeOK
    <2>5. CASE Fail(u) \/ PushFails(u)
      BY <2>5 DEF Fail, PushFails, Ends, Running, Count, TypeOK
    <2> QED
      BY <1>1, <2>1, <2>2, <2>3, <2>4, <2>5 DEF Process
  <1>2. ASSUME NEW u \in Urls, Collapse(u) PROVE Goal
    BY <1>2 DEF Collapse, Broken, Raise, Ends, Alive, Count, TypeOK
  <1>3. CASE SoftLimit
    <2>1. CASE Raise /\ UNCHANGED <<at, counters>>
      BY <1>3, <2>1 DEF SoftLimit, Ended, Raise, Stops
    <2>2. ASSUME NEW u \in Urls, phase = "batch", Broken(u),
                 UNCHANGED <<host, phase, job, frontier, depth, history>>
          PROVE  Goal
      BY <2>2 DEF Broken, Ends, Alive, Count, TypeOK
    <2> QED
      BY <1>3, <2>1, <2>2 DEF SoftLimit
  <1>4. CASE Abort \/ Expire \/ Kill
    BY <1>4 DEF Abort, Expire, Kill, Ended, Raise, Stops
  <1>5. CASE UNCHANGED vars
    BY <1>5 DEF vars, Stops
  <1> QED
    BY <1>1, <1>2, <1>3, <1>4, <1>5 DEF Next

-----------------------------------------------------------------------------
(* A URL waits in the queue or in a batch only as long as it is unfetched; *)
(* and while URLs may still be pushed, a URL that is not in the seen set   *)
(* is new.  Between the batches no coroutine is left.                      *)
Fresh ==
    \A u \in Urls : /\ u \in queue => visits[u] = 0 /\ at[u] = "none"
                    /\ at[u] = "ready" => visits[u] = 0
                    /\ Running(u) => visits[u] = 1 /\ u \notin Disallowed

Working == phase \in {"seed", "loop", "batch", "closing"} \/ \E u \in Urls : at[u] # "none"

Seen ==
    /\ queue \subseteq known
    /\ Working => \A u \in Urls : u \notin known => visits[u] = 0 /\ at[u] = "none"

Resting ==
    phase \in {"seed", "loop", "closing", "marking", "done"} => \A u \in Urls : at[u] = "none"

OnceInv == TypeOK /\ FetchedOnce /\ Fresh /\ Seen /\ Resting

(* At first no URL is known, queued or fetched. *)
LEMMA OnceInit == Init => OnceInv
  <1> SUFFICES ASSUME Init PROVE OnceInv
    OBVIOUS
  <1> QED
    BY TypeInit DEF Init, OnceInv, FetchedOnce, Fresh, Seen, Resting, Running, Fetching

(* The main loop moves URLs from the queue to a batch, and rests between   *)
(* the batches.                                                            *)
LEMMA OnceLoop == OnceInv /\ Loop => FetchedOnce' /\ Fresh' /\ Seen' /\ Resting'
  <1> SUFFICES ASSUME OnceInv, Loop PROVE FetchedOnce' /\ Fresh' /\ Seen' /\ Resting'
    OBVIOUS
  <1> USE ConstantsAssumption
      DEF OnceInv, TypeOK, FetchedOnce, Fresh, Seen, Resting, Working, Running, Fetching,
          history, frontier
  <1>1. CASE Seed
    BY <1>1 DEF Seed, Push
  <1>2. CASE PopBatch
    BY <1>2 DEF PopBatch, Batches
  <1>3. CASE BatchDone \/ LeaveLoop
    BY <1>3 DEF BatchDone, LeaveLoop
  <1>4. CASE Close \/ Mark
    BY <1>4 DEF Close, Mark
  <1> QED
    BY <1>1, <1>2, <1>3, <1>4 DEF Loop

(* A coroutine fetches its page once, and pushes only URLs that are new.   *)
LEMMA OnceProcess ==
    ASSUME OnceInv, NEW u \in Urls, Begins(u) \/ Refused(u) \/ GoesOn(u) \/ Ends(u)
    PROVE  FetchedOnce' /\ Fresh' /\ Seen' /\ Resting'
  <1> USE ConstantsAssumption
      DEF OnceInv, TypeOK, FetchedOnce, Fresh, Seen, Resting, Working, Running, Fetching,
          Alive, Goes
  <1>1. CASE Begins(u)
    BY <1>1 DEF Begins
  <1>2. CASE Refused(u)
    BY <1>2 DEF Refused
  <1>3. CASE GoesOn(u)
    BY <1>3 DEF GoesOn
  <1>4. CASE Ends(u)
    BY <1>4 DEF Ends, Push
  <1> QED
    BY <1>1, <1>2, <1>3, <1>4

(* Every step keeps a URL in one place: queued, popped, or dealt with. *)
LEMMA OnceStep == OnceInv /\ [Next]_vars => OnceInv'
  <1> SUFFICES ASSUME OnceInv, [Next]_vars PROVE OnceInv'
    OBVIOUS
  <1>1. TypeOK /\ TypeOK'
    BY TypeStep DEF OnceInv
  <1>2. CASE Loop
    BY <1>1, <1>2, OnceLoop DEF OnceInv
  <1>3. CASE Stops
    BY <1>1, <1>3 DEF Stops, OnceInv, FetchedOnce, Fresh, Seen, Resting, Working, Running, Fetching
  <1>4. ASSUME NEW u \in Urls, Begins(u) \/ Refused(u) \/ GoesOn(u) \/ Ends(u) PROVE OnceInv'
    BY <1>1, <1>4, OnceProcess DEF OnceInv
  <1> QED
    BY <1>1, <1>2, <1>3, <1>4, StepKinds

(* No URL is fetched twice in a crawl, and none that robots.txt disallows. *)
THEOREM Once == Spec => []FetchedOnce
  <1>1. OnceInv => FetchedOnce
    BY DEF OnceInv
  <1> QED
    BY <1>1, OnceInit, OnceStep, PTL DEF Spec

-----------------------------------------------------------------------------
(* While a crawl works, what it has seen is waiting, fetched or            *)
(* disallowed, and it has seen all that it was told of.                    *)
DealtWith ==
    /\ phase = "seed" => known = {} /\ queue = {} /\ followed = {}
    /\ phase \in {"loop", "batch", "closing"} =>
        /\ Told \subseteq known
        /\ known \subseteq queue \union Visited \union Disallowed \union Ready

LostInv == OnceInv /\ DealtWith

(* Before the seeds are pushed there is nothing to lose. *)
LEMMA LostInit == Init => LostInv
  BY OnceInit DEF Init, LostInv, DealtWith

(* No step drops a known URL on its way from the queue to its fetch. *)
LEMMA LostStep == LostInv /\ [Next]_vars => LostInv'
  <1> SUFFICES ASSUME LostInv, [Next]_vars PROVE LostInv'
    OBVIOUS
  <1>1. OnceInv /\ OnceInv' /\ TypeOK
    BY OnceStep DEF LostInv, OnceInv
  <1> USE ConstantsAssumption
      DEF LostInv, OnceInv, TypeOK, DealtWith, Told, Visited, Ready, Resting, Fresh,
          history, frontier
  <1>2. ASSUME Loop PROVE DealtWith'
    <2>1. CASE Seed
      BY <2>1 DEF Seed, Push
    <2>2. CASE PopBatch
      BY <1>1, <2>2 DEF PopBatch, Batches
    <2>3. CASE BatchDone \/ LeaveLoop
      BY <2>3 DEF BatchDone, LeaveLoop
    <2>4. CASE Close \/ Mark
      BY <2>4 DEF Close, Mark
    <2> QED
      BY <1>2, <2>1, <2>2, <2>3, <2>4 DEF Loop
  <1>3. CASE Stops
    BY <1>1, <1>3 DEF Stops
  <1>4. ASSUME NEW u \in Urls, Begins(u) \/ Refused(u) \/ GoesOn(u) \/ Ends(u) PROVE LostInv'
    <2> USE DEF Goes, Running, Fetching
    <2>1. CASE Begins(u)
      BY <1>1, <2>1 DEF Begins
    <2>2. CASE Refused(u) \/ GoesOn(u)
      BY <1>1, <2>2 DEF Refused, GoesOn
    <2>3. CASE Ends(u)
      BY <1>1, <2>3 DEF Ends, Push
    <2> QED
      BY <1>4, <2>1, <2>2, <2>3
  <1> QED
    BY <1>1, <1>2, <1>3, <1>4, StepKinds DEF LostInv

(* A crawl that runs out of URLs has dealt with every seed and every link  *)
(* that it followed.                                                       *)
THEOREM Lossless == Spec => []NothingLost
  <1>1. LostInv => NothingLost
    BY DEF LostInv, OnceInv, DealtWith, Told, NothingLost, Resting, Ready, Visited
  <1> QED
    BY <1>1, LostInit, LostStep, PTL DEF Spec

-----------------------------------------------------------------------------
(* Every fetched page is counted or in flight, and the pages fetched or    *)
(* about to be are fewer than the budget and one batch.                    *)
Counted == Cardinality(Visited) <= Count + Cardinality(InFlight)

Bounded ==
    /\ Cardinality(Visited \union Ready) < MaxPages + Concurrency
    /\ MaxPages = 0 => Visited \union Ready = {}

BudgetInv == OnceInv /\ Counted /\ Bounded

(* The sets of pages are finite. *)
LEMMA Finite == ASSUME NEW S \in SUBSET Urls
                PROVE  IsFiniteSet(S) /\ Cardinality(S) \in Nat
  BY ConstantsAssumption, FS_Subset, FS_CardinalityType

(* A crawl starts with its budget untouched. *)
LEMMA BudgetInit == Init => BudgetInv
  <1> SUFFICES ASSUME Init PROVE BudgetInv
    OBVIOUS
  <1>1. Visited = {} /\ Ready = {} /\ InFlight = {} /\ Count = 0
    BY DEF Init, Visited, Ready, InFlight, Running, Fetching, Count
  <1> QED
    BY <1>1, OnceInit, FS_EmptySet, ConstantsAssumption DEF BudgetInv, Counted, Bounded

(* The loop pops a batch only below the budget, with nothing in flight.    *)
LEMMA BudgetLoop == BudgetInv /\ Loop => Counted' /\ Bounded'
  <1> SUFFICES ASSUME BudgetInv, Loop PROVE Counted' /\ Bounded'
    OBVIOUS
  <1> USE DEF history, counters, frontier
  <1>1. Visited' = Visited /\ Count' = Count
    BY DEF Loop, Seed, PopBatch, BatchDone, LeaveLoop, Close, Mark, Visited, Count
  <1>2. CASE Seed \/ BatchDone \/ LeaveLoop \/ Close \/ Mark
    <2>1. Ready' = Ready /\ InFlight' = InFlight
      BY <1>2 DEF Seed, BatchDone, LeaveLoop, Close, Mark, Ready, InFlight, Running, Fetching
    <2> QED
      BY <1>1, <2>1 DEF BudgetInv, Counted, Bounded
  <1>3. CASE PopBatch
    <2>1. PICK batch \in Batches : at' = [u \in Urls |-> IF u \in batch THEN "ready" ELSE "none"]
      BY <1>3 DEF PopBatch
    <2>2. batch \subseteq Urls /\ Cardinality(batch) <= Concurrency
      BY ConstantsAssumption, Finite DEF Batches, BudgetInv, OnceInv, TypeOK
    <2>3. Ready' = batch /\ InFlight' = {} /\ InFlight = {}
      BY <1>3, <2>1, <2>2
      DEF PopBatch, Ready, InFlight, Running, Fetching, BudgetInv, OnceInv, Resting
    <2>4. Cardinality(Visited) <= Count /\ Count < MaxPages /\ Count \in Nat
      <3>1. Count \in Nat
        BY DEF BudgetInv, OnceInv, TypeOK, Count
      <3>2. Count < MaxPages
        BY <1>3, <3>1, ConstantsAssumption DEF PopBatch, Exhausted, Count
      <3>3. Cardinality(Visited) \in Nat /\ Cardinality(InFlight) = 0
        BY <2>3, FS_EmptySet, Finite DEF Visited
      <3> QED
        BY <3>1, <3>2, <3>3 DEF BudgetInv, Counted
    <2>5. Cardinality(Visited \union batch) <= Cardinality(Visited) + Cardinality(batch)
      <3>1. Visited \in SUBSET Urls /\ Visited \intersect batch \in SUBSET Urls
        BY DEF Visited
      <3>2. IsFiniteSet(Visited) /\ IsFiniteSet(batch)
        BY <2>2, <3>1, Finite
      <3>3. Cardinality(Visited \union batch)
                = Cardinality(Visited) + Cardinality(batch) - Cardinality(Visited \intersect batch)
        BY <3>2, FS_Union
      <3>4. /\ Cardinality(Visited) \in Nat /\ Cardinality(batch) \in Nat
            /\ Cardinality(Visited \intersect batch) \in Nat
        BY <2>2, <3>1, Finite
      <3> QED
        BY <3>3, <3>4
    <2>6. Cardinality(Visited) \in Nat /\ Cardinality(batch) \in Nat
          /\ Cardinality(Visited \union batch) \in Nat
      BY <2>2, Finite DEF Visited
    <2>7. Bounded'
      BY <1>1, <2>2, <2>3, <2>4, <2>5, <2>6, ConstantsAssumption DEF Bounded
    <2>8. Counted'
      BY <1>1, <2>3, <2>4, <2>6, FS_EmptySet DEF Counted
    <2> QED
      BY <2>7, <2>8
  <1> QED
    BY <1>2, <1>3 DEF Loop

(* The number of pages counted is a natural number, *)
LEMMA CountType == ASSUME TypeOK PROVE Count \in Nat
  BY DEF TypeOK, Count

(* as is any sum of three, *)
LEMMA SumType == \A a, b, c \in Nat : a + b + c \in Nat
  OBVIOUS

(* and so it is after a step. *)
LEMMA CountTypeNext == ASSUME TypeOK' PROVE Count' \in Nat
  <1>1. ingested' \in Nat /\ skipped' \in Nat /\ errors' \in Nat
    BY DEF TypeOK
  <1>2. ingested' + skipped' + errors' \in Nat
    BY <1>1, SumType
  <1>3. Count' = ingested' + skipped' + errors'
    BY DEF Count
  <1> QED
    BY <1>2, <1>3

(* A coroutine that begins puts its page in flight, and one that ends      *)
(* counts it.                                                              *)
LEMMA BudgetProcess ==
    ASSUME BudgetInv, TypeOK', NEW u \in Urls, Begins(u) \/ Refused(u) \/ GoesOn(u) \/ Ends(u)
    PROVE  Counted' /\ Bounded'
  <1> USE DEF BudgetInv, OnceInv
  <1>t. /\ Visited \in SUBSET Urls /\ Ready \in SUBSET Urls /\ InFlight \in SUBSET Urls
        /\ Visited' \in SUBSET Urls /\ Ready' \in SUBSET Urls /\ InFlight' \in SUBSET Urls
    BY DEF Visited, Ready, InFlight
  <1>c. Count \in Nat /\ Count' \in Nat
    BY CountType, CountTypeNext
  <1>f. ASSUME Visited' \union Ready' \subseteq Visited \union Ready PROVE Bounded'
    <2>1. Cardinality(Visited' \union Ready') <= Cardinality(Visited \union Ready)
      BY <1>t, <1>f, Finite, FS_Subset
    <2>2. /\ Cardinality(Visited \union Ready) \in Nat
          /\ Cardinality(Visited' \union Ready') \in Nat
      BY <1>t, Finite
    <2> QED
      BY <1>f, <2>1, <2>2, ConstantsAssumption DEF Bounded
  <1>1. CASE Begins(u)
    <2>1. Visited' = Visited \union {u} /\ u \notin Visited /\ Count' = Count
      BY <1>1 DEF Begins, Visited, Fresh, TypeOK, Count
    <2>2. InFlight' = InFlight \union {u} /\ u \notin InFlight /\ Ready' = Ready \ {u} /\ u \in Ready
      BY <1>1 DEF Begins, Goes, InFlight, Ready, Running, Fetching, TypeOK
    <2>3. /\ Cardinality(Visited') = Cardinality(Visited) + 1
          /\ Cardinality(InFlight') = Cardinality(InFlight) + 1
      BY <1>t, <2>1, <2>2, Finite, FS_AddElement
    <2>4. Cardinality(Visited) \in Nat /\ Cardinality(InFlight) \in Nat
      BY <1>t, Finite
    <2>5. Counted'
      BY <1>c, <2>1, <2>3, <2>4 DEF Counted
    <2> QED
      BY <1>f, <2>1, <2>2, <2>5
  <1>2. CASE Refused(u) \/ GoesOn(u)
    <2>1. Visited' = Visited /\ InFlight' = InFlight /\ Ready' \subseteq Ready /\ Count' = Count
      BY <1>2 DEF Refused, GoesOn, Goes, Visited, InFlight, Ready, Running, Fetching, TypeOK, Count
    <2> QED
      BY <1>f, <2>1 DEF Counted
  <1>3. CASE Ends(u)
    <2>1. Visited' = Visited /\ InFlight' = InFlight \ {u} /\ u \in InFlight /\ Ready' = Ready
      BY <1>3 DEF Ends, Goes, Visited, InFlight, Ready, Running, Fetching, TypeOK
    <2>2. Count' >= Count + 1
      BY <1>3 DEF Ends
    <2>3. Cardinality(InFlight') = Cardinality(InFlight) - 1
      BY <1>t, <2>1, Finite, FS_RemoveElement
    <2>4. Cardinality(Visited) \in Nat /\ Cardinality(InFlight) \in Nat
      BY <1>t, Finite
    <2>5. Counted'
      BY <1>c, <2>1, <2>2, <2>3, <2>4 DEF Counted
    <2> QED
      BY <1>f, <2>1, <2>5
  <1> QED
    BY <1>1, <1>2, <1>3

(* Every step keeps the account of pages and the bound on it. *)
LEMMA BudgetStep == BudgetInv /\ [Next]_vars => BudgetInv'
  <1> SUFFICES ASSUME BudgetInv, [Next]_vars PROVE BudgetInv'
    OBVIOUS
  <1>1. OnceInv' /\ TypeOK /\ TypeOK'
    BY OnceStep DEF BudgetInv, OnceInv
  <1>2. CASE Loop
    BY <1>1, <1>2, BudgetLoop DEF BudgetInv
  <1>3. CASE Stops
    <2>1. Visited' = Visited /\ InFlight' = InFlight /\ Ready' = Ready /\ Count' = Count
      BY <1>3 DEF Stops, Visited, InFlight, Ready, Running, Fetching, Count
    <2> QED
      BY <1>1, <2>1 DEF BudgetInv, Counted, Bounded
  <1>4. ASSUME NEW u \in Urls, Begins(u) \/ Refused(u) \/ GoesOn(u) \/ Ends(u) PROVE BudgetInv'
    BY <1>1, <1>4, BudgetProcess DEF BudgetInv
  <1> QED
    BY <1>1, <1>2, <1>3, <1>4, StepKinds

(* A crawl fetches fewer pages than its budget and one batch together, and *)
(* between the batches every page it fetched is counted.                   *)
THEOREM Budgeted == Spec => []BudgetHolds
  <1>1. BudgetInv => BudgetHolds
    <2> SUFFICES ASSUME BudgetInv PROVE BudgetHolds
      OBVIOUS
    <2>1. Visited \union Ready \in SUBSET Urls /\ Visited \in SUBSET Urls
      BY DEF Visited, Ready
    <2>2. Cardinality(Visited) <= Cardinality(Visited \union Ready)
      BY <2>1, Finite, FS_Subset
    <2>3. Cardinality(Visited) \in Nat /\ Cardinality(Visited \union Ready) \in Nat
      BY <2>1, Finite
    <2>4. phase \in {"loop", "closing", "marking", "done"} => InFlight = {}
      BY DEF BudgetInv, OnceInv, Resting, InFlight, Running, Fetching
    <2>5. Count \in Nat
      BY DEF BudgetInv, OnceInv, TypeOK, Count
    <2>6. phase \in {"loop", "closing", "marking", "done"} => Cardinality(Visited) <= Count
      BY <2>3, <2>4, <2>5, FS_EmptySet DEF BudgetInv, Counted
    <2> QED
      BY <2>2, <2>3, <2>6, ConstantsAssumption DEF BudgetInv, Bounded, BudgetHolds, Count
  <1> QED
    BY <1>1, BudgetInit, BudgetStep, PTL DEF Spec

-----------------------------------------------------------------------------
(* A URL that is known, queued or popped is one the crawl was told of, and *)
(* only fetched pages are followed.                                        *)
Discovered == IF phase = "seed" THEN {} ELSE Told

Heard ==
    /\ queue \union known \union Ready \subseteq Discovered
    /\ followed \subseteq Visited
    /\ phase = "seed" => followed = {} /\ \A u \in Urls : at[u] = "none"

TraversalInv == OnceInv /\ Heard

(* A crawl starts with nothing to fetch. *)
LEMMA HeardInit == Init => TraversalInv
  <1> SUFFICES ASSUME Init PROVE TraversalInv
    OBVIOUS
  <1> QED
    BY OnceInit DEF Init, TraversalInv, Heard, Ready, Discovered

(* No step makes up a URL. *)
LEMMA HeardStep == TraversalInv /\ [Next]_vars => TraversalInv'
  <1> SUFFICES ASSUME TraversalInv, [Next]_vars PROVE TraversalInv'
    OBVIOUS
  <1>1. OnceInv /\ OnceInv' /\ TypeOK
    BY OnceStep DEF TraversalInv, OnceInv
  <1> USE ConstantsAssumption
      DEF TraversalInv, Heard, Discovered, Told, OnceInv, TypeOK, Visited, Ready, history, frontier
  <1>2. ASSUME Loop PROVE Heard'
    <2>1. CASE Seed
      BY <2>1 DEF Seed, Push
    <2>2. CASE PopBatch
      BY <2>2 DEF PopBatch, Batches
    <2>3. CASE BatchDone \/ LeaveLoop
      BY <2>3 DEF BatchDone, LeaveLoop
    <2>4. CASE Close \/ Mark
      BY <2>4 DEF Close, Mark
    <2> QED
      BY <1>2, <2>1, <2>2, <2>3, <2>4 DEF Loop
  <1>3. CASE Stops
    BY <1>1, <1>3 DEF Stops
  <1>4. ASSUME NEW u \in Urls, Begins(u) \/ Refused(u) \/ GoesOn(u) \/ Ends(u) PROVE Heard'
    <2> USE DEF Goes, Running, Fetching, Alive, Fresh
    <2>1. CASE Begins(u)
      BY <2>1 DEF Begins
    <2>2. CASE Refused(u) \/ GoesOn(u)
      BY <2>2 DEF Refused, GoesOn
    <2>3. CASE Ends(u)
      BY <2>3 DEF Ends, Push
    <2> QED
      BY <1>4, <2>1, <2>2, <2>3
  <1> QED
    BY <1>1, <1>2, <1>3, <1>4, StepKinds DEF TraversalInv

-----------------------------------------------------------------------------
(* The crawl's steps are those of a traversal: the seeds begin it, a       *)
(* coroutine that begins is a visit, one that ends may follow its page,    *)
(* the job's last step stops it; the others leave it as it is.             *)
abstract == <<Discovered, visits, phase = "done">>

(* At first nothing is found or visited. *)
LEMMA TraversalInit == Init => T!Init
  BY DEF Init, T!Init

(* Every step of a crawl is a step of the traversal, or none. *)
LEMMA TraversalStep == TraversalInv /\ [Next]_vars => [T!Next]_abstract
  <1> SUFFICES ASSUME TraversalInv, [Next]_vars PROVE [T!Next]_abstract
    OBVIOUS
  <1> USE ConstantsAssumption
      DEF TraversalInv, OnceInv, TypeOK, abstract, Discovered, Told, T!Next, history, frontier
  <1>1. ASSUME Loop PROVE [T!Next]_abstract
    <2>1. CASE Seed
      <3>1. followed = {} /\ followed' = {} /\ phase = "seed" /\ phase' = "loop" /\ visits' = visits
        BY <2>1 DEF Seed, Heard
      <3>2. Discovered = {} /\ Discovered' = Seeds
        BY <3>1
      <3> QED
        BY <3>1, <3>2 DEF T!Begin
    <2>2. CASE PopBatch \/ BatchDone \/ LeaveLoop \/ Close
      BY <2>2 DEF PopBatch, BatchDone, LeaveLoop, Close
    <2>3. CASE Mark
      BY <2>3 DEF Mark, T!Stop
    <2> QED
      BY <1>1, <2>1, <2>2, <2>3 DEF Loop
  <1>2. CASE Stops
    <2>1. CASE phase = "seed" /\ phase' # "seed"
      <3>1. followed = {} /\ Discovered = {} /\ Discovered' = Seeds
        BY <1>2, <2>1 DEF Stops, Heard
      <3> QED
        BY <1>2, <2>1, <3>1 DEF Stops, T!Begin
    <2>2. CASE phase = "seed" <=> phase' = "seed"
      BY <1>2, <2>2 DEF Stops
    <2> QED
      BY <1>2, <2>1, <2>2 DEF Stops
  <1>3. ASSUME NEW u \in Urls, Begins(u) \/ Refused(u) \/ GoesOn(u) \/ Ends(u)
        PROVE  [T!Next]_abstract
    <2>1. phase # "seed" /\ phase' # "seed" /\ phase # "done" /\ phase' # "done"
      BY <1>3 DEF Begins, Refused, GoesOn, Ends, Alive
    <2>2. CASE Begins(u)
      <3>1. u \in Discovered /\ u \notin Disallowed /\ visits[u] = 0
        BY <2>1, <2>2 DEF Begins, Heard, Ready, Fresh
      <3>2. visits' = [visits EXCEPT ![u] = 1] /\ Discovered' = Discovered
        BY <2>1, <2>2, <3>1 DEF Begins
      <3> QED
        BY <2>1, <3>1, <3>2 DEF T!Visit
    <2>3. CASE Refused(u) \/ GoesOn(u)
      BY <2>1, <2>3 DEF Refused, GoesOn
    <2>4. CASE Ends(u)
      <3>1. visits[u] = 1 /\ visits' = visits
        BY <2>4 DEF Ends, Fresh
      <3>2. followed' = followed \/ followed' = followed \union {u}
        BY <2>4 DEF Ends
      <3>3. Discovered' = Discovered \/ Discovered' = Discovered \union Links[u]
        BY <2>1, <3>2
      <3> QED
        BY <2>1, <3>1, <3>3 DEF T!Follow
    <2> QED
      BY <1>3, <2>2, <2>3, <2>4
  <1> QED
    BY <1>1, <1>2, <1>3, StepKinds

(* A crawl implements a traversal of its site: Crawl => Traversal, for      *)
(* every site, every limit, every number of concurrent fetches and         *)
(* whatever fails.                                                         *)
THEOREM Implements == Spec => IsTraversal
  BY HeardInit, HeardStep, TraversalInit, TraversalStep, PTL
  DEF Spec, IsTraversal, T!Spec, abstract, Discovered
-----------------------------------------------------------------------------
(* The pages a crawl fetches: what a product's entity holds.  An entity is  *)
(* a record e of fields, variants and merged documents, as in MergeInto.   *)

(* What e holds is from the documents merged into it. *)
Sourced(p, e) ==
    /\ e.merged \subseteq DOMAIN Documents[site[p]]
    /\ e.fields \in [Fields -> e.merged \union {"none"}]
    /\ \A v \in e.variants : v.from \in DOMAIN SOURCE_PRIORITY

Offering(p, e, f) == {o \in e.merged : f \in Offer(p, o).fields}

(* Each field of e has the value of the best document that offers it. *)
Preferred(p, e) ==
    \A f \in Fields :
        IF Offering(p, e, f) = {} THEN e.fields[f] = "none"
        ELSE /\ e.fields[f] \in Offering(p, e, f)
             /\ \A o \in Offering(p, e, f) : PriorityOf(p, e.fields[f]) >= PriorityOf(p, o)

(* The variants of d that have a SKU are in e, from no lesser source. *)
Retains(d, e) ==
    \A v \in d.variants : v.sku # "" => \E w \in e.variants : w.sku = v.sku /\ Rank(w) >= Rank(v)

(* What a step may make of p's entity. *)
Sound(p, e) == Sourced(p, e) /\ Preferred(p, e) /\ Retains(Entity(p), e)

Extracting ==
    /\ site \in [Pages -> DOMAIN Sites]
    /\ \A p \in Pages : Sourced(p, Entity(p)) /\ Preferred(p, Entity(p))
    /\ DOMAIN entity = Pages /\ DOMAIN variants = Pages /\ DOMAIN merged = Pages

(* Every document is an offer of a source that has a priority. *)
LEMMA SourcesRanked ==
    ASSUME NEW p \in Pages, site[p] \in DOMAIN Sites, NEW o \in DOMAIN Documents[site[p]]
    PROVE  Source(p, o) \in DOMAIN SOURCE_PRIORITY
  <1> DEFINE s == Sites[site[p]]
  <1>1. Source(p, o) = Document(s, o).source
    BY DEF Source, Documents
  <1>2. DOMAIN SOURCE_PRIORITY =
           {"shopify_json", "graphql", "xhr_api", "jsonld", "hydration", "dom", "llm"}
    BY DEF SOURCE_PRIORITY
  <1>3. Classify(s.responses[o]).source \in {"graphql", "xhr_api"}
    BY DEF Classify
  <1>4. Document(s, o).source \in DOMAIN SOURCE_PRIORITY
    <2> HIDE DEF s
    <2> QED
      BY <1>2, <1>3 DEF Document
  <1> QED
    BY <1>1, <1>4

(* Priorities are numbers, and none is below any of them. *)
LEMMA PrioritiesAreNumbers ==
    /\ \A source \in DOMAIN SOURCE_PRIORITY : SOURCE_PRIORITY[source] \in 10..100
    /\ \A p \in Pages : site[p] \in DOMAIN Sites =>
          /\ PriorityOf(p, "none") = -1
          /\ \A o \in DOMAIN Documents[site[p]] \union {"none"} : PriorityOf(p, o) \in Int
          /\ \A o \in DOMAIN Documents[site[p]] : o # "none" => PriorityOf(p, o) > -1
  <1>1. \A source \in DOMAIN SOURCE_PRIORITY : SOURCE_PRIORITY[source] \in 10..100
    BY DEF SOURCE_PRIORITY
  <1> QED
    BY <1>1, SourcesRanked DEF PriorityOf

(* The list of variants that replaces the entity's keeps each SKU with the  *)
(* better of its sources.                                                  *)
LEMMA MergeRetains ==
    ASSUME NEW old, NEW source \in DOMAIN SOURCE_PRIORITY, NEW data,
           \A v \in old : v.from \in DOMAIN SOURCE_PRIORITY
    PROVE  /\ \A v \in MergeVariants(old, source, data) : v.from \in DOMAIN SOURCE_PRIORITY
           /\ \A v \in old : v.sku # "" =>
                 \E w \in MergeVariants(old, source, data) : w.sku = v.sku /\ Rank(w) >= Rank(v)
  <1> DEFINE new      == ProductVariants(data, source)
             existing == {v \in old : v.sku # ""}
             taken    == {n \in new : n.sku = "" \/ \A v \in existing : v.sku = n.sku => Rank(n) >= Rank(v)}
             kept     == {v \in existing : \A n \in taken : n.sku # v.sku}
  <1>1. MergeVariants(old, source, data) = IF new = {} THEN old ELSE kept \union taken
    BY DEF MergeVariants
  <1>2. \A v \in new : v.from = source
    BY DEF ProductVariants
  <1>3. \A v \in old : Rank(v) \in Int
    BY PrioritiesAreNumbers DEF Rank
  <1>4. ASSUME NEW v \in old, v.sku # "", v \notin kept
        PROVE  \E w \in taken : w.sku = v.sku /\ Rank(w) >= Rank(v)
    <2> HIDE DEF new
    <2> QED BY <1>4
  <1>5. ASSUME NEW v \in MergeVariants(old, source, data) PROVE v.from \in DOMAIN SOURCE_PRIORITY
    <2> HIDE DEF new
    <2> QED BY <1>1, <1>2, <1>5
  <1>6. ASSUME NEW v \in old, v.sku # ""
        PROVE  \E w \in MergeVariants(old, source, data) : w.sku = v.sku /\ Rank(w) >= Rank(v)
    <2>1. Rank(v) >= Rank(v)
      BY <1>3
    <2>2. CASE new = {}
      BY <1>1, <1>6, <2>1, <2>2
    <2>3. CASE new # {} /\ v \in kept
      <3> HIDE DEF kept, taken, new
      <3> QED BY <1>1, <1>6, <2>1, <2>3
    <2>4. CASE new # {} /\ v \notin kept
      <3>1. PICK w \in taken : w.sku = v.sku /\ Rank(w) >= Rank(v)
        BY <1>4, <1>6, <2>4
      <3> HIDE DEF kept, taken, new
      <3> QED BY <1>1, <2>4, <3>1
    <2> QED BY <2>2, <2>3, <2>4
  <1> QED
    BY <1>5, <1>6

(* Merging one more document keeps all of this. *)
LEMMA MergeSound ==
    ASSUME NEW p \in Pages, site[p] \in DOMAIN Sites,
           NEW e, Sound(p, e), Sourced(p, Entity(p)),
           NEW o \in DOMAIN Documents[site[p]]
    PROVE  Sound(p, MergeInto(p, e, o))
  <1> DEFINE data == Offer(p, o)
             d    == MergeInto(p, e, o)
  <1>1. CASE data = NoOffer
    BY <1>1 DEF MergeInto
  <1>2. CASE data # NoOffer
    <2>1. /\ d.fields = MergeFields(p, e.fields, o, data)
          /\ d.variants = MergeVariants(e.variants, Source(p, o), data)
          /\ d.merged = e.merged \union {o}
      BY <1>2 DEF MergeInto
    <2> HIDE DEF d
    <2>2. Source(p, o) \in DOMAIN SOURCE_PRIORITY
      BY SourcesRanked
    <2>3. /\ \A v \in d.variants : v.from \in DOMAIN SOURCE_PRIORITY
          /\ Retains(e, d)
      <3>1. \A v \in e.variants : v.from \in DOMAIN SOURCE_PRIORITY
        BY DEF Sound, Sourced
      <3>2. /\ \A v \in MergeVariants(e.variants, Source(p, o), data) : v.from \in DOMAIN SOURCE_PRIORITY
            /\ \A v \in e.variants : v.sku # "" =>
                  \E w \in MergeVariants(e.variants, Source(p, o), data) :
                      w.sku = v.sku /\ Rank(w) >= Rank(v)
        BY ONLY <2>2, <3>1, MergeRetains
      <3> QED BY <2>1, <3>2 DEF Retains
    <2>4. ASSUME NEW f \in Fields
          PROVE  d.fields[f] = IF f \in data.fields /\ PriorityOf(p, o) > PriorityOf(p, e.fields[f])
                               THEN o ELSE e.fields[f]
      BY <2>1 DEF MergeFields
    <2>5. d.fields \in [Fields -> d.merged \union {"none"}]
      BY <2>1 DEF MergeFields, Sound, Sourced
    <2>6. Sourced(p, d)
      BY <2>1, <2>3, <2>5 DEF Sound, Sourced
    <2>7. Preferred(p, d)
      <3> SUFFICES ASSUME NEW f \in Fields
                   PROVE  IF Offering(p, d, f) = {} THEN d.fields[f] = "none"
                          ELSE /\ d.fields[f] \in Offering(p, d, f)
                               /\ \A x \in Offering(p, d, f) : PriorityOf(p, d.fields[f]) >= PriorityOf(p, x)
        BY DEF Preferred
      <3>1. Offering(p, d, f) = IF f \in data.fields THEN Offering(p, e, f) \union {o}
                                ELSE Offering(p, e, f)
        BY <2>1 DEF Offering
      <3>2. /\ e.fields[f] \in DOMAIN Documents[site[p]] \union {"none"}
            /\ \A x \in Offering(p, e, f) : x \in DOMAIN Documents[site[p]]
        BY DEF Sound, Sourced, Offering
      <3>3. /\ PriorityOf(p, e.fields[f]) \in Int /\ PriorityOf(p, o) \in Int
            /\ \A x \in Offering(p, e, f) : PriorityOf(p, x) \in Int
            /\ PriorityOf(p, "none") = -1 /\ (o # "none" => PriorityOf(p, o) > -1)
        BY <3>2, PrioritiesAreNumbers
      <3>4. IF Offering(p, e, f) = {} THEN e.fields[f] = "none"
            ELSE /\ e.fields[f] \in Offering(p, e, f)
                 /\ \A x \in Offering(p, e, f) : PriorityOf(p, e.fields[f]) >= PriorityOf(p, x)
        BY DEF Sound, Preferred
      <3>5. CASE f \notin data.fields
        BY <2>4, <3>1, <3>4, <3>5
      <3>6. CASE f \in data.fields /\ Offering(p, e, f) = {}
        BY <2>4, <3>1, <3>3, <3>4, <3>6
      <3>7. CASE f \in data.fields /\ Offering(p, e, f) # {}
        BY <2>4, <3>1, <3>3, <3>4, <3>7
      <3> QED
        BY <3>5, <3>6, <3>7
    <2>8. Retains(Entity(p), d)
      <3>1. /\ \A v \in Entity(p).variants : Rank(v) \in Int
            /\ \A v \in e.variants : Rank(v) \in Int
            /\ \A v \in d.variants : Rank(v) \in Int
        BY <2>3, PrioritiesAreNumbers DEF Sound, Sourced, Rank
      <3> SUFFICES ASSUME NEW v \in Entity(p).variants, v.sku # ""
                   PROVE  \E x \in d.variants : x.sku = v.sku /\ Rank(x) >= Rank(v)
        BY DEF Retains
      <3>2. PICK w \in e.variants : w.sku = v.sku /\ Rank(w) >= Rank(v)
        BY DEF Sound, Retains
      <3>3. PICK x \in d.variants : x.sku = w.sku /\ Rank(x) >= Rank(w)
        BY <2>3, <3>2 DEF Retains
      <3>4. Rank(v) \in Int /\ Rank(w) \in Int /\ Rank(x) \in Int
        BY ONLY <3>1, v \in Entity(p).variants, w \in e.variants, x \in d.variants
      <3>5. Rank(x) >= Rank(v)
        BY ONLY <3>2, <3>3, <3>4
      <3> QED
        BY <3>2, <3>3, <3>5
    <2> QED
      BY <2>6, <2>7, <2>8 DEF Sound, d
  <1> QED
    BY <1>1, <1>2

(* An entity as it is holds what it holds. *)
LEMMA AsItIs ==
    ASSUME Extracting, NEW p \in Pages
    PROVE  Sound(p, Entity(p))
  <1>1. \A v \in Entity(p).variants : Rank(v) \in Int
    BY PrioritiesAreNumbers DEF Extracting, Sourced, Rank
  <1>2. \A v \in Entity(p).variants : Rank(v) >= Rank(v)
    BY <1>1
  <1> QED
    BY <1>2 DEF Extracting, Sound, Retains

KeepsSkus ==
    \A p \in Pages : \A v \in variants[p] :
        v.sku # "" => \E w \in variants'[p] : w.sku = v.sku /\ Rank(w) >= Rank(v)

(* A step that makes of one entity what is sound keeps the others. *)
LEMMA EntityStep ==
    ASSUME Extracting, NEW p \in Pages, NEW e, Sound(p, e), Becomes(p, e), UNCHANGED site
    PROVE  Extracting' /\ KeepsSkus
  <1>1. ASSUME NEW q \in Pages
        PROVE  /\ Entity(q)'.fields = IF q = p THEN e.fields ELSE Entity(q).fields
               /\ Entity(q)'.variants = IF q = p THEN e.variants ELSE Entity(q).variants
               /\ Entity(q)'.merged = IF q = p THEN e.merged ELSE Entity(q).merged
    BY DEF Extracting, Becomes, Entity
  <1>2. ASSUME NEW q \in Pages
        PROVE  Sourced(q, Entity(q))' /\ Preferred(q, Entity(q))'
    <2>1. PICK d : /\ Sourced(q, d) /\ Preferred(q, d)
                   /\ Entity(q)'.fields = d.fields /\ Entity(q)'.variants = d.variants
                   /\ Entity(q)'.merged = d.merged
      <3>1. CASE q = p
        BY <1>1, <3>1 DEF Sound
      <3>2. CASE q # p
        BY <1>1, <3>2 DEF Extracting
      <3> QED BY <3>1, <3>2
    <2>2. Sourced(q, Entity(q))'
      BY <2>1 DEF Sourced
    <2>3. \A o : /\ Offer(q, o)' = Offer(q, o)
                 /\ PriorityOf(q, o)' = PriorityOf(q, o)
      BY DEF Offer, PriorityOf, Source
    <2>4. \A f \in Fields : Offering(q, Entity(q), f)' = Offering(q, d, f)
      BY <2>1, <2>3 DEF Offering
    <2>5. Preferred(q, Entity(q))'
      BY <2>1, <2>3, <2>4 DEF Preferred
    <2> QED BY <2>2, <2>5
  <1>3. KeepsSkus
    <2> SUFFICES ASSUME NEW q \in Pages, NEW v \in variants[q], v.sku # ""
                 PROVE  \E w \in variants'[q] : w.sku = v.sku /\ Rank(w) >= Rank(v)
      BY DEF KeepsSkus
    <2>1. CASE q = p
      BY <1>1, <2>1 DEF Sound, Retains, Entity
    <2>2. CASE q # p
      BY <1>1, <2>2, AsItIs DEF Sound, Retains, Entity
    <2> QED BY <2>1, <2>2
  <1> QED
    BY <1>2, <1>3 DEF Extracting, Becomes

(* As does a step that touches no entity. *)
LEMMA NoEntityStep ==
    ASSUME Extracting, UNCHANGED <<site, product>>
    PROVE  Extracting' /\ KeepsSkus
  <1>1. KeepsSkus
    BY AsItIs DEF KeepsSkus, Sound, Retains, Entity, product
  <1>2. ASSUME NEW q \in Pages
        PROVE  Sourced(q, Entity(q))' /\ Preferred(q, Entity(q))'
    <2>1. Sourced(q, Entity(q)) /\ Preferred(q, Entity(q))
      BY DEF Extracting
    <2>2. Entity(q)' = Entity(q)
      BY DEF Entity, product
    <2>3. \A o : /\ Offer(q, o)' = Offer(q, o)
                 /\ PriorityOf(q, o)' = PriorityOf(q, o)
      BY DEF Offer, PriorityOf, Source
    <2>4. \A f \in Fields : Offering(q, Entity(q), f)' = Offering(q, Entity(q), f)
      BY <2>2, <2>3 DEF Offering
    <2> QED BY <2>1, <2>2, <2>3, <2>4 DEF Sourced, Preferred
  <1> QED
    BY <1>1, <1>2 DEF Extracting, product

(* The documents every page has, and those it loads. *)
LEMMA DocumentsOf ==
    ASSUME NEW p \in Pages, site[p] \in DOMAIN Sites
    PROVE  /\ {"shopify_json", "jsonld", "hydration", "rendered_hydration", "dom", "rendered_dom"}
                 \subseteq DOMAIN Documents[site[p]]
           /\ DOMAIN Page(p).responses \subseteq DOMAIN Documents[site[p]]
  BY DEF Documents, Page

(* Whatever a strategy makes of an entity is sound. *)
LEMMA OutcomesSound ==
    ASSUME Extracting, NEW p \in Pages, NEW strategy \in Strategies,
           NEW e \in Outcomes(p, strategy)
    PROVE  Sound(p, e)
  <1> DEFINE old == Entity(p)
  <1>1. site[p] \in DOMAIN Sites /\ Sourced(p, old) /\ Sound(p, old)
    BY AsItIs DEF Extracting
  <1>2. ASSUME NEW d, Sound(p, d), NEW o \in DOMAIN Documents[site[p]]
        PROVE  Sound(p, MergeInto(p, d, o))
    BY <1>1, <1>2, MergeSound
  <1> HIDE DEF old
  <1>3. /\ Sound(p, Hydrate(p, old)) /\ Sound(p, Reparse(p, old)) /\ Sound(p, Scan(p, old))
        /\ Sound(p, AskLLM(p, old)) /\ \A d \in AskForVariants(p, old) : Sound(p, d)
    BY <1>1, <1>2, DocumentsOf DEF Hydrate, Reparse, Scan, AskLLM, AskForVariants
  <1>4. ASSUME NEW d \in Intercept(p, old) PROVE Sound(p, d)
    <2>1. PICK captured \in SUBSET DOMAIN Page(p).responses :
              \/ d = old
              \/ \E r \in Kept(p, captured, "graphql") \union Kept(p, captured, "xhr_api") :
                    d = MergeInto(p, old, r)
              \/ \E a, b \in Kept(p, captured, "graphql") \union Kept(p, captured, "xhr_api") :
                    d = MergeInto(p, MergeInto(p, old, a), b)
      BY <1>4 DEF Intercept
    <2>2. \A source : Kept(p, captured, source) \subseteq DOMAIN Documents[site[p]]
      BY <1>1, DocumentsOf DEF Kept
    <2> QED
      BY <1>1, <1>2, <2>1, <2>2
  <1>5. \/ e \in {Hydrate(p, old), Reparse(p, old), Scan(p, old), AskLLM(p, old)}
        \/ e \in Intercept(p, old) \/ e \in AskForVariants(p, old)
    BY DEF Outcomes, Strategies, old
  <1> QED
    BY <1>3, <1>4, <1>5

(* Every step of a page's coroutine keeps all of this. *)
LEMMA ScrapeStep ==
    ASSUME Extracting, [ScrapeNext]_scrapeVars
    PROVE  Extracting' /\ KeepsSkus
  <1>1. CASE UNCHANGED scrapeVars
    BY <1>1, NoEntityStep DEF scrapeVars, product
  <1>2. ASSUME NEW p \in Pages, Step(p) PROVE Extracting' /\ KeepsSkus
    <2>1. site[p] \in DOMAIN Sites /\ Sourced(p, Entity(p)) /\ Sound(p, Entity(p))
      BY AsItIs DEF Extracting
    <2>2. ASSUME NEW d, Sound(p, d), NEW o \in DOMAIN Documents[site[p]]
          PROVE  Sound(p, MergeInto(p, d, o))
      BY <2>1, <2>2, MergeSound
    <2>3. CASE ProductHtml(p)
      <3>1. CASE UNCHANGED <<site, product>>
        BY <3>1, NoEntityStep
      <3>2. CASE ~UNCHANGED <<site, product>>
        <4> DEFINE json == MergeInto(p, Entity(p), "shopify_json")
                   read == MergeInto(p, MergeInto(p, json, "hydration"), "dom")
        <4>1. UNCHANGED site /\ (Becomes(p, json) \/ Becomes(p, read))
          BY <2>3, <3>2 DEF ProductHtml, product
        <4>2. Sound(p, json) /\ Sound(p, read)
          BY <2>1, <2>2, DocumentsOf
        <4> HIDE DEF json, read
        <4> QED BY <4>1, <4>2, EntityStep
      <3> QED BY <3>1, <3>2
    <2>4. CASE Rendered(p) /\ ~UNCHANGED product
      <3>1. UNCHANGED site /\ Becomes(p, WithRendered(p))
        BY <2>4 DEF Rendered
      <3>2. Sound(p, WithRendered(p))
        BY <2>1, <2>2, DocumentsOf DEF WithRendered
      <3> QED BY <3>1, <3>2, EntityStep
    <2>5. CASE Deepen(p)
      <3>1. UNCHANGED site /\ \E strategy \in Strategies : \E e \in Outcomes(p, strategy) : Becomes(p, e)
        BY <2>5 DEF Deepen
      <3> QED BY <3>1, OutcomesSound, EntityStep
    <2>6. CASE UNCHANGED <<site, product>>
      BY <2>6, NoEntityStep
    <2>7. CASE Fetch(p) /\ ~ProductHtml(p)
      BY <2>7, <2>6 DEF Fetch, Scrape, ProductJson, Static, Identity, Curl, HTTP2, Parse
    <2>8. CASE Browse(p) /\ ~Rendered(p)
      BY <2>8, <2>6 DEF Browse, AskPool, PoolStarts, TakeSlot
    <2>9. CASE DeepenByRendering(p) \/ Finish(p)
      BY <2>9, <2>6 DEF DeepenByRendering, Finish
    <2>10. CASE Rendered(p) /\ UNCHANGED product
      BY <2>10, <2>6 DEF Rendered
    <2> QED
      BY <1>2, <2>3, <2>4, <2>5, <2>7, <2>8, <2>9, <2>10 DEF Step, Browse, Fetch, DeepLoop
  <1> QED
    BY <1>1, <1>2 DEF ScrapeNext

(* A page is fetched with an empty entity. *)
LEMMA ScrapeStarts == ScrapeInit => Extracting
  <1> SUFFICES ASSUME ScrapeInit, NEW p \in Pages
               PROVE  Sourced(p, Entity(p)) /\ Preferred(p, Entity(p))
    BY DEF ScrapeInit, Extracting
  <1>1. /\ Entity(p).merged = {} /\ Entity(p).variants = {}
        /\ Entity(p).fields = [f \in Fields |-> "none"]
    BY DEF ScrapeInit, Entity
  <1> QED
    BY <1>1 DEF Sourced, Preferred, Offering

(* In whatever order the strategies and the browsers' answers come, each   *)
(* field of a product has the value of the best source that offered it, and *)
(* is empty only if none did (ProductEntity.merge).                        *)
THEOREM BestSources == ScrapeSpec => []BestSourceWins
  <1>1. Extracting => BestSourceWins
    BY DEF Extracting, Preferred, Offering, Entity, BestSourceWins
  <1>2. Extracting /\ [ScrapeNext]_scrapeVars => Extracting'
    BY ScrapeStep
  <1> QED
    BY <1>1, <1>2, ScrapeStarts, PTL DEF ScrapeSpec

(* No pass of the loop takes from a product a variant that has a SKU, nor  *)
(* replaces it by what a lesser source says of it (_merge_variants).       *)
THEOREM VariantsStay == ScrapeSpec => SkusAreKept
  <1>1. Extracting /\ [ScrapeNext]_scrapeVars => Extracting'
    BY ScrapeStep
  <1>2. Extracting /\ [ScrapeNext]_scrapeVars => KeepsSkus
    BY ScrapeStep
  <1> QED
    BY <1>1, <1>2, ScrapeStarts, PTL DEF ScrapeSpec, SkusAreKept, KeepsSkus

-----------------------------------------------------------------------------
(* Induction and recursion up to a number. *)

(* There is a least of some numbers: what comes up to it is smallest.       *)
LEMMA Least ==
    ASSUME NEW n \in Nat, NEW S \in SUBSET (0..n), S # {}
    PROVE  \E i \in S : \A j \in S : i <= j
  <1> DEFINE These == {0..i : i \in S}
  <1>1. These \subseteq FiniteSubsetsOf(0..n)
    <2>1. IsFiniteSet(0..n)
      BY FS_Interval
    <2>2. These \subseteq SUBSET (0..n)
      OBVIOUS
    <2> QED
      BY <2>1, <2>2, FS_FiniteSubsetsOfFinite
  <1>2. These # {}
    OBVIOUS
  <1> HIDE DEF These
  <1>3. PICK t \in These : \A u \in These : ~(<<u, t>> \in StrictSubsetOrdering(0..n))
    BY <1>1, <1>2, FS_StrictSubsetOrderingWellFounded, WFMin
  <1>4. PICK i \in S : t = 0..i
    BY DEF These
  <1>5. ASSUME NEW j \in S, j < i PROVE FALSE
    <2>1. 0..j \in These
      BY DEF These
    <2>2. i \in 0..n /\ j \in 0..n
      OBVIOUS
    <2>3. 0..j \subseteq 0..i /\ 0..j \subseteq 0..n /\ 0..i \subseteq 0..n
      BY <1>5, <2>2
    <2>4. i \in 0..i /\ i \notin 0..j
      BY <1>5, <2>2
    <2>5. <<0..j, 0..i>> \in StrictSubsetOrdering(0..n)
      BY <2>3, <2>4 DEF StrictSubsetOrdering
    <2> QED
      BY <1>3, <1>4, <2>1, <2>5
  <1>6. \A j \in S : i <= j
    BY <1>5
  <1> QED
    BY <1>6

(* Induction up to n.                                                      *)
LEMMA Induction ==
    ASSUME NEW n \in Nat, NEW S, 0 \in S, \A i \in 1..n : i - 1 \in S => i \in S
    PROVE  0..n \subseteq S
  <1> DEFINE These == {i \in 0..n : i \notin S}
  <1>1. CASE These = {}
    BY <1>1
  <1>2. CASE These # {}
    <2>1. These \in SUBSET (0..n)
      OBVIOUS
    <2> HIDE DEF These
    <2>2. PICK i \in These : \A j \in These : i <= j
      BY <1>2, <2>1, Least
    <2>3. i \in 0..n /\ i \notin S
      BY DEF These
    <2>4. i \in 1..n /\ i - 1 \in 0..n
      BY <2>3
    <2>5. i - 1 \notin These
      BY <2>2, <2>4
    <2> QED
      BY <2>3, <2>4, <2>5 DEF These
  <1> QED
    BY <1>1, <1>2

(* A function defined by recursion up to n, which exists.                  *)
Recurs(f, n, base, next) == f[0] = base /\ \A i \in 1..n : f[i] = next[i][f[i - 1]]

LEMMA Recursion ==
    ASSUME NEW n \in Nat, NEW V, NEW base \in V, NEW next \in [1..n -> [V -> V]]
    PROVE  \E f \in [0..n -> V] : Recurs(f, n, base, next)
  <1> DEFINE Upto(k, f) == Recurs(f, k, base, next)
             S == {k \in 0..n : \E f \in [0..k -> V] : Upto(k, f)}
  <1>1. 0 \in S
    <2> DEFINE g == [i \in 0..0 |-> base]
    <2>1. g \in [0..0 -> V] /\ Upto(0, g)
      BY DEF Recurs
    <2>2. 0 \in 0..n
      OBVIOUS
    <2> HIDE DEF g, Upto
    <2> QED
      BY <2>1, <2>2
  <1>2. ASSUME NEW k \in 1..n, k - 1 \in S PROVE k \in S
    <2>1. PICK f \in [0..(k - 1) -> V] : Upto(k - 1, f)
      BY <1>2
    <2> DEFINE g == [i \in 0..k |-> IF i = k THEN next[k][f[k - 1]] ELSE f[i]]
    <2>2. g \in [0..k -> V]
      OBVIOUS
    <2>3. Upto(k, g)
      <3>1. g[0] = base
        BY <2>1 DEF Recurs
      <3>2. ASSUME NEW i \in 1..k PROVE g[i] = next[i][g[i - 1]]
        <4>1. CASE i = k
          BY <4>1
        <4>2. CASE i # k
          <5>1. i \in 1..(k - 1)
            BY <4>2
          <5>2. f[i] = next[i][f[i - 1]]
            BY <2>1, <5>1 DEF Recurs
          <5>3. g[i] = f[i] /\ g[i - 1] = f[i - 1]
            BY <5>1
          <5> QED
            BY <5>2, <5>3
        <4> QED
          BY <4>1, <4>2
      <3> QED
        BY <3>1, <3>2 DEF Recurs
    <2> HIDE DEF g, Upto
    <2> QED
      BY <2>2, <2>3
  <1> HIDE DEF S
  <1>3. 0..n \subseteq S
    BY <1>1, <1>2, Induction
  <1>4. n \in S
    BY <1>3
  <1> QED
    BY <1>4 DEF S

-----------------------------------------------------------------------------
(* Sequences: what the community modules' operators make of them. *)

(* Two sequences together have what each of them has.                      *)
LEMMA RangeOfConcat ==
    ASSUME NEW S, NEW s \in Seq(S), NEW t \in Seq(S)
    PROVE  Range(s \o t) = Range(s) \union Range(t)
  <1>1. PICK m \in Nat : m = Len(s) /\ DOMAIN s = 1..m
    BY LenProperties
  <1>2. PICK n \in Nat : n = Len(t) /\ DOMAIN t = 1..n
    BY LenProperties
  <1>3. /\ DOMAIN (s \o t) = 1..m + n
        /\ \A i \in 1..m + n : (s \o t)[i] = IF i <= m THEN s[i] ELSE t[i - m]
    BY <1>1, <1>2, ConcatProperties, LenProperties
  <1>4. \A i \in 1..m : i \in 1..m + n /\ i <= m
    OBVIOUS
  <1>5. \A i \in 1..n : m + i \in 1..m + n /\ ~(m + i <= m) /\ m + i - m = i
    OBVIOUS
  <1>6. \A i \in 1..m + n : i \in 1..m \/ (~(i <= m) /\ i - m \in 1..n)
    OBVIOUS
  <1>7. Range(s) \subseteq Range(s \o t)
    BY <1>1, <1>3, <1>4 DEF Range
  <1>8. Range(t) \subseteq Range(s \o t)
    <2> SUFFICES ASSUME NEW i \in 1..n PROVE t[i] \in Range(s \o t)
      BY <1>2 DEF Range
    <2>1. (s \o t)[m + i] = t[i]
      BY <1>3, <1>5
    <2> QED
      BY <1>3, <1>5, <2>1 DEF Range
  <1>9. Range(s \o t) \subseteq Range(s) \union Range(t)
    <2> SUFFICES ASSUME NEW i \in 1..m + n PROVE (s \o t)[i] \in Range(s) \union Range(t)
      BY <1>3 DEF Range
    <2> QED
      BY <1>1, <1>2, <1>3, <1>6 DEF Range
  <1> QED
    BY <1>7, <1>8, <1>9

(* FlattenSeq is a function defined by recursion.                          *)
LEMMA FlattenRecursion ==
    ASSUME NEW S, NEW seqs \in Seq(Seq(S)), seqs # <<>>
    PROVE  \E f \in [1..Len(seqs) -> Seq(S)] :
              /\ f[1] = seqs[1] /\ \A i \in 2..Len(seqs) : f[i] = f[i - 1] \o seqs[i]
              /\ FlattenSeq(seqs) = f[Len(seqs)]
  <1> DEFINE Flattens(f) == f = [i \in 1..Len(seqs) |-> IF i = 1 THEN seqs[i] ELSE f[i - 1] \o seqs[i]]
  <1>1. PICK n \in Nat : n = Len(seqs)
    BY LenProperties
  <1>2. n # 0
    BY <1>1, EmptySeq
  <1> DEFINE next == [i \in 1..n |-> [s \in Seq(S) |-> s \o seqs[i]]]
  <1>3. next \in [1..n -> [Seq(S) -> Seq(S)]]
    <2>1. ASSUME NEW i \in 1..n, NEW s \in Seq(S) PROVE s \o seqs[i] \in Seq(S)
      BY <1>1, ElementOfSeq, ConcatProperties
    <2> QED
      BY <2>1
  <1>4. PICK g \in [0..n -> Seq(S)] : g[0] = <<>> /\ \A i \in 1..n : g[i] = next[i][g[i - 1]]
    <2>1. <<>> \in Seq(S)
      BY EmptySeq
    <2> DEFINE V == Seq(S)
               base == <<>>
    <2>2. base \in V /\ next \in [1..n -> [V -> V]]
      BY <1>3, <2>1
    <2> HIDE DEF next, V, base
    <2>3. \E g \in [0..n -> V] : Recurs(g, n, base, next)
      BY <1>1, <2>2, Recursion
    <2> QED
      BY <2>3 DEF V, base, Recurs
  <1> DEFINE f == [i \in 1..n |-> g[i]]
  <1>5. f[1] = seqs[1]
    <2>1. 0 \in 0..n /\ 1 \in 1..n /\ 1 - 1 = 0
      BY <1>2
    <2>2. g[1] = <<>> \o seqs[1]
      BY <1>4, <2>1
    <2>3. seqs[1] \in Seq(S)
      BY <1>1, <2>1, ElementOfSeq
    <2> QED
      BY <2>1, <2>2, <2>3, ConcatEmptySeq
  <1>6. ASSUME NEW i \in 2..n PROVE f[i] = f[i - 1] \o seqs[i]
    <2>1. i \in 1..n /\ i - 1 \in 1..n
      OBVIOUS
    <2>2. g[i - 1] \in Seq(S)
      BY <1>4, <2>1
    <2> QED
      BY <1>4, <2>1, <2>2
  <1>7. Flattens(f)
    <2>1. \A i \in 1..n : i = 1 \/ i \in 2..n
      OBVIOUS
    <2> HIDE DEF f
    <2>2. f = [i \in 1..n |-> f[i]]
      BY DEF f
    <2>3. \A i \in 1..n : f[i] = IF i = 1 THEN seqs[i] ELSE f[i - 1] \o seqs[i]
      BY <1>5, <1>6, <2>1
    <2> QED
      BY <1>1, <2>2, <2>3
  <1> DEFINE F == CHOOSE h : Flattens(h)
  <1>8. FlattenSeq(seqs) = F[n]
    BY <1>1, <1>2 DEF FlattenSeq
  <1>9. Flattens(F)
    BY <1>7
  <1> HIDE DEF F
  <1>10. F[1] = seqs[1] /\ \A i \in 2..n : F[i] = F[i - 1] \o seqs[i]
    <2>1. \A i \in 2..n : i \in 1..n /\ i # 1
      OBVIOUS
    <2>2. 1 \in 1..n
      BY <1>2
    <2> QED
      BY <1>1, <1>9, <2>1, <2>2
  <1>11. F \in [1..n -> Seq(S)]
    <2> DEFINE These == {0} \union {i \in 1..n : F[i] \in Seq(S)}
    <2>1. ASSUME NEW i \in 1..n, i - 1 \in These PROVE i \in These
      <3>1. seqs[i] \in Seq(S)
        BY <1>1, ElementOfSeq
      <3>2. CASE i = 1
        BY <1>10, <3>1, <3>2
      <3>3. CASE i # 1
        <4>1. i \in 2..n /\ i - 1 # 0
          BY <3>3
        <4>2. F[i - 1] \in Seq(S)
          BY <2>1, <4>1
        <4>3. F[i - 1] \o seqs[i] \in Seq(S)
          BY <3>1, <4>2, ConcatProperties
        <4> QED
          BY <1>10, <4>1, <4>3
      <3> QED
        BY <3>2, <3>3
    <2>2. 0 \in These
      OBVIOUS
    <2> HIDE DEF These
    <2>3. 0..n \subseteq These
      BY <2>1, <2>2, Induction
    <2>4. \A i \in 1..n : F[i] \in Seq(S)
      BY <2>3 DEF These
    <2> QED
      BY <1>1, <1>9, <2>4
  <1> QED
    BY <1>1, <1>8, <1>10, <1>11

(* Of sequences, their concatenation is one and has what they have.         *)
LEMMA Flattened ==
    ASSUME NEW S, NEW seqs \in Seq(Seq(S))
    PROVE  /\ FlattenSeq(seqs) \in Seq(S)
           /\ Range(FlattenSeq(seqs)) = UNION {Range(seqs[i]) : i \in DOMAIN seqs}
  <1>1. CASE seqs = <<>>
    <2>1. FlattenSeq(seqs) = <<>> /\ DOMAIN seqs = {}
      BY <1>1, EmptySeq DEF FlattenSeq
    <2>2. Range(<<>>) = {}
      BY DEF Range
    <2> QED
      BY <2>1, <2>2, EmptySeq
  <1>2. CASE seqs # <<>>
    <2>1. PICK n \in Nat : n = Len(seqs)
      BY LenProperties
    <2>2. n # 0 /\ DOMAIN seqs = 1..n
      BY <1>2, <2>1, EmptySeq
    <2>3. PICK f \in [1..n -> Seq(S)] :
             /\ f[1] = seqs[1] /\ \A i \in 2..n : f[i] = f[i - 1] \o seqs[i]
             /\ FlattenSeq(seqs) = f[n]
      BY <1>2, <2>1, FlattenRecursion
    <2> DEFINE These == {0} \union {i \in 1..n : Range(f[i]) = UNION {Range(seqs[j]) : j \in 1..i}}
    <2>4. ASSUME NEW i \in 1..n, i - 1 \in These PROVE i \in These
      <3>1. CASE i = 1
        <4>1. {Range(seqs[j]) : j \in 1..1} = {Range(seqs[1])}
          OBVIOUS
        <4>2. Range(f[1]) = UNION {Range(seqs[j]) : j \in 1..1}
          BY <2>3, <4>1
        <4>3. 1 \in These
          BY <2>2, <4>2
        <4> QED
          BY <3>1, <4>3
      <3>2. CASE i # 1
        <4>1. i \in 2..n /\ i - 1 # 0 /\ i - 1 \in 1..n /\ 1..i = 1..(i - 1) \union {i}
          BY <3>2
        <4>2. Range(f[i - 1]) = UNION {Range(seqs[j]) : j \in 1..(i - 1)}
          BY <2>4, <4>1
        <4>3. f[i - 1] \in Seq(S) /\ seqs[i] \in Seq(S)
          BY <2>1, <2>3, <4>1, ElementOfSeq
        <4>4. Range(f[i - 1] \o seqs[i]) = Range(f[i - 1]) \union Range(seqs[i])
          BY <4>3, RangeOfConcat
        <4>5. f[i] = f[i - 1] \o seqs[i]
          BY <2>3, <4>1
        <4> QED
          BY <4>1, <4>2, <4>4, <4>5
      <3> QED
        BY <3>1, <3>2
    <2>5. 0 \in These
      OBVIOUS
    <2> HIDE DEF These
    <2>6. 0..n \subseteq These
      BY <2>4, <2>5, Induction
    <2>7. n \in These
      BY <2>6
    <2> QED
      BY <2>2, <2>3, <2>7 DEF These
  <1> QED
    BY <1>1, <1>2

(* The elements of a finite set, in some order.                             *)
LEMMA Listed ==
    ASSUME NEW S, IsFiniteSet(S)
    PROVE  SetToSeq(S) \in Seq(S)
  <1>1. PICK n \in Nat : n = Cardinality(S)
    BY FS_CardinalityType
  <1>2. \E f \in [1..n -> S] : IsInjective(f)
    BY <1>1, FS_CardinalityType DEF ExistsBijection, Bijection, Injection
  <1>3. SetToSeq(S) \in [1..n -> S]
    BY <1>1, <1>2 DEF SetToSeq
  <1> QED
    BY <1>1, <1>3, SeqDef

(* What a sequence has at some places is a sequence of these.               *)
LEMMA Placed ==
    ASSUME NEW S, NEW seq \in Seq(S), NEW places
    PROVE  /\ At(seq, places) \in Seq(S)
           /\ Range(At(seq, places)) = {seq[i] : i \in places \intersect DOMAIN seq}
  <1> DEFINE each == [i \in DOMAIN seq |-> IF i \in places THEN <<seq[i]>> ELSE <<>>]
  <1>1. PICK n \in Nat : n = Len(seq) /\ DOMAIN seq = 1..n
    BY LenProperties
  <1>2. \A i \in 1..n : each[i] \in Seq(S) /\ Range(each[i]) = IF i \in places THEN {seq[i]} ELSE {}
    <2> SUFFICES ASSUME NEW i \in 1..n
                 PROVE  each[i] \in Seq(S) /\ Range(each[i]) = IF i \in places THEN {seq[i]} ELSE {}
      OBVIOUS
    <2>1. seq[i] \in S
      BY <1>1, ElementOfSeq
    <2>2. <<seq[i]>> \in Seq(S) /\ Range(<<seq[i]>>) = {seq[i]}
      BY <2>1 DEF Range
    <2>3. <<>> \in Seq(S) /\ Range(<<>>) = {}
      BY DEF Range
    <2> QED
      BY <1>1, <2>2, <2>3
  <1>3. each \in [1..n -> Seq(S)]
    BY <1>1, <1>2
  <1>4. each \in Seq(Seq(S)) /\ DOMAIN each = 1..n
    BY <1>3, SeqDef
  <1>5. At(seq, places) = FlattenSeq(each)
    BY DEF At
  <1> HIDE DEF each
  <1>6. /\ FlattenSeq(each) \in Seq(S)
        /\ Range(FlattenSeq(each)) = UNION {Range(each[i]) : i \in DOMAIN each}
    BY <1>4, Flattened
  <1>7. UNION {Range(each[i]) : i \in 1..n} = {seq[i] : i \in places \intersect 1..n}
    BY <1>2
  <1> QED
    BY <1>1, <1>4, <1>5, <1>6, <1>7

(* How long a text is, up to each of its lines.                             *)
LEMMA LengthsAdd ==
    ASSUME NEW S, \A l \in S : l.length \in Nat, NEW lines \in Seq(S)
    PROVE  /\ Lengths(lines) \in [0..Len(lines) -> Nat] /\ Lengths(lines)[0] = 0
           /\ \A i \in 1..Len(lines) : Lengths(lines)[i] = Lengths(lines)[i - 1] + lines[i].length
  <1> DEFINE Adds(f) == f = [n \in 0..Len(lines) |-> IF n = 0 THEN 0 ELSE f[n - 1] + lines[n].length]
  <1>1. PICK n \in Nat : n = Len(lines)
    BY LenProperties
  <1>2. \A i \in 1..n : lines[i].length \in Nat
    BY <1>1, ElementOfSeq
  <1> DEFINE next == [i \in 1..n |-> [m \in Nat |-> m + lines[i].length]]
  <1>3. next \in [1..n -> [Nat -> Nat]]
    BY <1>2
  <1>4. PICK g \in [0..n -> Nat] : Recurs(g, n, 0, next)
    <2> HIDE DEF next
    <2> QED
      BY <1>1, <1>3, Recursion
  <1>5. g[0] = 0 /\ \A i \in 1..n : g[i] = g[i - 1] + lines[i].length
    <2>1. \A i \in 1..n : i - 1 \in 0..n
      OBVIOUS
    <2> QED
      BY <1>4, <2>1 DEF Recurs
  <1>6. Adds(g)
    <2>1. \A i \in 0..n : i = 0 \/ i \in 1..n
      OBVIOUS
    <2>2. g = [i \in 0..n |-> g[i]]
      OBVIOUS
    <2>3. \A i \in 0..n : g[i] = IF i = 0 THEN 0 ELSE g[i - 1] + lines[i].length
      BY <1>5, <2>1
    <2> QED
      BY <1>1, <2>2, <2>3
  <1> DEFINE F == CHOOSE h : Adds(h)
  <1>7. Lengths(lines) = F
    BY DEF Lengths
  <1>8. Adds(F)
    BY <1>6
  <1> HIDE DEF F
  <1>9. F[0] = 0 /\ \A i \in 1..n : F[i] = F[i - 1] + lines[i].length
    <2>1. 0 \in 0..n /\ \A i \in 1..n : i \in 0..n /\ i # 0
      OBVIOUS
    <2> QED
      BY <1>1, <1>8, <2>1
  <1>10. F \in [0..n -> Nat]
    <2> DEFINE These == {i \in 0..n : F[i] \in Nat}
    <2>1. ASSUME NEW i \in 1..n, i - 1 \in These PROVE i \in These
      <3>1. F[i - 1] \in Nat /\ lines[i].length \in Nat
        BY <1>2, <2>1
      <3>2. F[i] = F[i - 1] + lines[i].length
        BY <1>9
      <3> QED
        BY <3>1, <3>2
    <2>2. 0 \in These
      BY <1>9
    <2> HIDE DEF These
    <2>3. 0..n \subseteq These
      BY <2>1, <2>2, Induction
    <2>4. \A i \in 0..n : F[i] \in Nat
      BY <2>3 DEF These
    <2> QED
      BY <1>1, <1>8, <2>4
  <1> QED
    BY <1>1, <1>7, <1>9, <1>10

(* No text has no length.                                                  *)
LEMMA NoLength == Length(<<>>) = 0
  <1>1. <<>> \in Seq([length : Nat]) /\ Len(<<>>) = 0
    BY EmptySeq
  <1>2. \A l \in [length : Nat] : l.length \in Nat
    OBVIOUS
  <1>3. Lengths(<<>>)[0] = 0
    BY <1>1, <1>2, LengthsAdd
  <1> QED
    BY <1>1, <1>3 DEF Length

(* Of a text whose first line is within the limit some line is left.         *)
LEMMA CutLeaves ==
    ASSUME NEW S, \A l \in S : l.length \in Nat, NEW lines \in Seq(S), NEW limit \in Nat
    PROVE  /\ Cut(lines, limit) \in Seq(S)
           /\ lines # <<>> /\ lines[1].length <= limit => Cut(lines, limit) # <<>>
  <1>1. PICK n \in Nat : n = Len(lines)
    BY LenProperties
  <1>2. PICK f \in [0..n -> Nat] : /\ f = Lengths(lines) /\ f[0] = 0
                                  /\ \A i \in 1..n : f[i] = f[i - 1] + lines[i].length
    BY <1>1, LengthsAdd
  <1> DEFINE Fits(k) == f[k] <= limit /\ (k < n => f[k + 1] > limit)
             These == {i \in 0..n : i = n \/ f[i + 1] > limit}
  <1>3. PICK k \in 0..n : Fits(k)
    <2>1. n \in These /\ These \in SUBSET (0..n)
      OBVIOUS
    <2>2. PICK k \in These : \A j \in These : k <= j
      <3> HIDE DEF These
      <3> QED
        BY <2>1, Least
    <2>3. f[k] <= limit
      <3>1. CASE k = 0
        BY <1>2, <3>1
      <3>2. CASE k # 0
        <4>1. k - 1 \in 0..n /\ k - 1 # n /\ ~(k <= k - 1) /\ k - 1 + 1 = k /\ k \in 0..n
          BY <3>2
        <4>2. k - 1 \notin These
          <5> HIDE DEF These
          <5> QED
            BY <2>2, <4>1
        <4>3. ~(f[k] > limit)
          BY <4>1, <4>2
        <4>4. f[k] \in Nat
          BY <4>1
        <4> QED
          BY <4>3, <4>4
      <3> QED
        BY <3>1, <3>2
    <2> QED
      BY <2>3
  <1> DEFINE K == CHOOSE i \in 0..n : Fits(i)
  <1>4. K \in 0..n /\ Fits(K)
    BY <1>3
  <1>5. Cut(lines, limit) = SubSeq(lines, 1, K)
    BY <1>1, <1>2 DEF Cut
  <1> HIDE DEF K
  <1>6. \A i \in 1..K : lines[i] \in S
    BY <1>1, <1>4, ElementOfSeq
  <1>7. Cut(lines, limit) \in Seq(S) /\ Len(Cut(lines, limit)) = IF 1 <= K THEN K - 1 + 1 ELSE 0
    BY ONLY <1>4, <1>5, <1>6, SubSeqProperties
  <1>8. ASSUME lines # <<>>, lines[1].length <= limit PROVE Cut(lines, limit) # <<>>
    <2>1. n # 0
      BY <1>1, <1>8, EmptySeq
    <2>2. f[1] = lines[1].length
      <3>1. 1 \in 1..n /\ 1 - 1 = 0
        BY <2>1
      <3>2. lines[1].length \in Nat
        BY <1>1, <3>1, ElementOfSeq
      <3> QED
        BY <1>2, <3>1, <3>2
    <2>3. K # 0
      BY <1>4, <1>8, <2>1, <2>2
    <2>4. Len(Cut(lines, limit)) # 0
      BY <1>4, <1>7, <2>3
    <2> QED
      BY <2>4, EmptySeq
  <1> QED
    BY <1>7, <1>8

-----------------------------------------------------------------------------
(* The parts of a page: their lines, and what is indexed of them. *)
Said == [what : STRING, length : 1..LongestLine, tag : Tags]
Part == [kind : Kinds, in : SUBSET STRING, links : Nat, lines : Seq(Said)]
Indexed(kinds) == [kind : kinds, what : STRING, length : 1..LongestLine]
Forms == {"text", "row", "question", "answer"}

(* Some lines, written down as lines of a kind.                             *)
LEMMA LinesOf ==
    ASSUME NEW kind \in Kinds, NEW lines \in Seq(Said)
    PROVE  LET of == [j \in DOMAIN lines |-> Line(kind, lines[j].what, lines[j].length)]
           IN  of \in Seq(Indexed({kind})) /\ Range(of) = {Line(kind, l.what, l.length) : l \in Range(lines)}
  <1> DEFINE of == [j \in DOMAIN lines |-> Line(kind, lines[j].what, lines[j].length)]
  <1>1. PICK n \in Nat : n = Len(lines) /\ DOMAIN lines = 1..n
    BY LenProperties
  <1>2. \A j \in 1..n : lines[j] \in Said
    BY <1>1, ElementOfSeq
  <1>3. \A j \in 1..n : Line(kind, lines[j].what, lines[j].length) \in Indexed({kind})
    BY <1>2 DEF Said, Indexed, Line
  <1>4. of \in [1..n -> Indexed({kind})]
    BY <1>1, <1>3
  <1>5. of \in Seq(Indexed({kind}))
    BY <1>4, SeqDef
  <1>6. Range(of) = {Line(kind, l.what, l.length) : l \in Range(lines)}
    BY <1>1 DEF Range
  <1> QED
    BY <1>5, <1>6

(* Parts have lines.                                                       *)
LEMMA PartsAre ==
    ASSUME NEW parts \in Parts
    PROVE  /\ parts \in Seq(Part)
           /\ \E n \in Nat : n = Len(parts) /\ DOMAIN parts = 1..n
           /\ \A i \in DOMAIN parts : parts[i] \in Part /\ parts[i].kind \in Kinds /\ parts[i].lines \in Seq(Said)
  <1>1. parts \in Seq(Part)
    BY DEF Parts, Part, Said
  <1>2. \E n \in Nat : n = Len(parts) /\ DOMAIN parts = 1..n
    BY <1>1, LenProperties
  <1>3. \A i \in DOMAIN parts : parts[i] \in Part
    BY <1>1, <1>2, ElementOfSeq
  <1> QED
    BY <1>1, <1>2, <1>3 DEF Part

(* The text of parts has each of their lines.                               *)
LEMMA TextHas ==
    ASSUME NEW parts \in Parts
    PROVE  /\ Text(parts) \in Seq(Indexed({"text"}))
           /\ Range(Text(parts)) =
                 UNION {{Line("text", l.what, l.length) : l \in Range(parts[i].lines)} : i \in DOMAIN parts}
  <1> DEFINE of(i) == [j \in DOMAIN parts[i].lines |->
                          Line("text", parts[i].lines[j].what, parts[i].lines[j].length)]
             each == [i \in DOMAIN parts |-> of(i)]
  <1>1. PICK n \in Nat : n = Len(parts) /\ DOMAIN parts = 1..n
    BY PartsAre
  <1>2. \A i \in 1..n : /\ of(i) \in Seq(Indexed({"text"}))
                       /\ Range(of(i)) = {Line("text", l.what, l.length) : l \in Range(parts[i].lines)}
    <2> SUFFICES ASSUME NEW i \in 1..n
                 PROVE  /\ of(i) \in Seq(Indexed({"text"}))
                        /\ Range(of(i)) = {Line("text", l.what, l.length) : l \in Range(parts[i].lines)}
      OBVIOUS
    <2>1. PICK lines \in Seq(Said) : lines = parts[i].lines
      BY <1>1, PartsAre
    <2>2. PICK kind \in Kinds : kind = "text"
      BY DEF Kinds
    <2>3. LET in == [j \in DOMAIN lines |-> Line(kind, lines[j].what, lines[j].length)]
          IN  in \in Seq(Indexed({kind})) /\ Range(in) = {Line(kind, l.what, l.length) : l \in Range(lines)}
      BY <2>1, <2>2, LinesOf
    <2> QED
      BY <2>1, <2>2, <2>3
  <1> HIDE DEF of
  <1>3. each \in [1..n -> Seq(Indexed({"text"}))]
    BY <1>1, <1>2
  <1>4. each \in Seq(Seq(Indexed({"text"}))) /\ DOMAIN each = 1..n /\ \A i \in 1..n : each[i] = of(i)
    BY <1>1, <1>3, SeqDef
  <1>5. Text(parts) = FlattenSeq(each)
    BY DEF Text, of
  <1> HIDE DEF each
  <1>6. /\ FlattenSeq(each) \in Seq(Indexed({"text"}))
        /\ Range(FlattenSeq(each)) = UNION {Range(each[i]) : i \in DOMAIN each}
    BY <1>4, Flattened
  <1>7. {Range(each[i]) : i \in 1..n} =
           {{Line("text", l.what, l.length) : l \in Range(parts[i].lines)} : i \in 1..n}
    BY <1>2, <1>4
  <1> QED
    BY <1>1, <1>4, <1>5, <1>6, <1>7

(* Lines of some kinds are lines of more kinds.                             *)
LEMMA MoreKinds ==
    ASSUME NEW kinds, NEW more, kinds \subseteq more, NEW lines \in Seq(Indexed(kinds))
    PROVE  lines \in Seq(Indexed(more))
  <1>1. Indexed(kinds) \subseteq Indexed(more)
    BY DEF Indexed
  <1> QED
    BY <1>1, SeqMonotonic

(* The rows of a table.                                                     *)
LEMMA RowsHave ==
    ASSUME NEW part \in Part
    PROVE  /\ Rows(part) \in Seq(Indexed(Forms))
           /\ \A i \in DOMAIN part.lines : LET l == part.lines[i] IN
                 Line(IF l.tag = "row" THEN "row" ELSE "text", l.what, l.length) \in Range(Rows(part))
  <1>1. PICK lines \in Seq(Said) : lines = part.lines
    BY DEF Part
  <1>2. PICK n \in Nat : n = Len(lines) /\ DOMAIN lines = 1..n
    BY LenProperties
  <1>3. \A j \in 1..n : lines[j] \in Said
    BY <1>2, ElementOfSeq
  <1> DEFINE form(j) == Line(IF lines[j].tag = "row" THEN "row" ELSE "text", lines[j].what, lines[j].length)
  <1>4. \A j \in 1..n : form(j) \in Indexed(Forms)
    BY <1>3 DEF Said, Indexed, Line, Forms
  <1>5. Rows(part) = [j \in 1..n |-> form(j)]
    BY <1>1, <1>2 DEF Rows
  <1> HIDE DEF form
  <1>6. Rows(part) \in [1..n -> Indexed(Forms)]
    BY <1>4, <1>5
  <1>7. Rows(part) \in Seq(Indexed(Forms)) /\ \A j \in 1..n : form(j) \in Range(Rows(part))
    BY <1>5, <1>6, SeqDef DEF Range
  <1> QED
    BY <1>1, <1>2, <1>7 DEF form

(* What is asked and answered in an accordion.                              *)
LEMMA AskedHas ==
    ASSUME NEW part \in Part, NEW q, NEW a
    PROVE  /\ Asked(part, q, a) \in Seq(Indexed(Forms))
           /\ \A i \in (q \union a) \intersect DOMAIN part.lines :
                 \E l \in Range(Asked(part, q, a)) : l.what = part.lines[i].what /\ l.kind # "text"
  <1>1. PICK lines \in Seq(Said) : lines = part.lines
    BY DEF Part
  <1>2. PICK n \in Nat : n = Len(lines) /\ DOMAIN lines = 1..n
    BY LenProperties
  <1>3. \A j \in 1..n : lines[j] \in Said
    BY <1>2, ElementOfSeq
  <1> DEFINE form(j) == Line(IF j \in q THEN "question" ELSE "answer", lines[j].what, lines[j].length)
             all == [j \in 1..n |-> form(j)]
  <1>4. \A j \in 1..n : /\ form(j) \in Indexed(Forms)
                         /\ form(j).what = lines[j].what /\ form(j).kind # "text"
    BY <1>3 DEF Said, Indexed, Line, Forms
  <1>5. Asked(part, q, a) = At(all, q \union a)
    BY <1>1, <1>2 DEF Asked
  <1>6. DOMAIN all = 1..n /\ \A j \in 1..n : all[j] = form(j)
    OBVIOUS
  <1>7. all \in [1..n -> Indexed(Forms)]
    BY <1>4
  <1> HIDE DEF form, all
  <1>8. all \in Seq(Indexed(Forms))
    BY <1>7, SeqDef
  <1>9. /\ At(all, q \union a) \in Seq(Indexed(Forms))
        /\ Range(At(all, q \union a)) = {all[i] : i \in (q \union a) \intersect DOMAIN all}
    BY <1>8, Placed
  <1>10. ASSUME NEW i \in (q \union a) \intersect DOMAIN part.lines
         PROVE  \E l \in Range(Asked(part, q, a)) : l.what = part.lines[i].what /\ l.kind # "text"
    <2>1. i \in 1..n /\ i \in (q \union a) \intersect DOMAIN all
      BY <1>1, <1>2, <1>6
    <2>2. form(i) \in Range(Asked(part, q, a))
      BY <1>5, <1>6, <1>9, <2>1
    <2>3. form(i).what = part.lines[i].what /\ form(i).kind # "text"
      BY <1>1, <1>4, <2>1
    <2> QED
      BY <2>2, <2>3
  <1> QED
    BY <1>5, <1>9, <1>10

(* The section of a part has what the part tells, in lines that last.       *)
LEMMA SectionHas ==
    ASSUME NEW part \in Part
    PROVE  /\ Section(part) \in Seq(Indexed(Forms))
           /\ \A i \in Telling(part) :
                 \E l \in Range(Section(part)) : l.what = part.lines[i].what /\ Lasting(l)
  <1> DEFINE q == First(part, "question")
             a == First(part, "answer")
             body == DOMAIN part.lines \ q
  <1>1. q \subseteq DOMAIN part.lines /\ a \subseteq DOMAIN part.lines
    BY DEF First
  <1>2. <<>> \in Seq(Indexed(Forms))
    BY EmptySeq
  <1>3. CASE part.kind = "table"
    <2>1. Section(part) = Rows(part)
      BY <1>3 DEF Section
    <2>2. ASSUME NEW i \in Telling(part)
          PROVE  \E l \in Range(Rows(part)) : l.what = part.lines[i].what /\ Lasting(l)
      <3>1. /\ i \in DOMAIN part.lines
            /\ part.lines[i].tag = "row" \/ part.lines[i].length > 10
               \/ part.lines[i].what \in {"price", "heading"}
        BY <1>3 DEF Telling
      <3>2. PICK m : m = part.lines[i]
        OBVIOUS
      <3> DEFINE l == Line(IF m.tag = "row" THEN "row" ELSE "text", m.what, m.length)
      <3>3. l \in Range(Rows(part))
        BY <3>1, <3>2, RowsHave
      <3>4. l.what = m.what /\ Lasting(l)
        BY <3>1, <3>2 DEF Line, Lasting
      <3> QED
        BY <3>2, <3>3, <3>4
    <2> QED
      BY <2>1, <2>2, RowsHave
  <1>4. CASE part.kind = "details"
    <2>1. Section(part) = IF q = {} \/ body = {} THEN <<>> ELSE Asked(part, q, body)
      BY <1>4 DEF Section, Details
    <2>2. Telling(part) = IF q = {} \/ q = DOMAIN part.lines THEN {} ELSE DOMAIN part.lines
      BY <1>4 DEF Telling
    <2> HIDE DEF q
    <2>3. body = {} <=> q = DOMAIN part.lines
      BY <1>1
    <2>4. (q \union body) \intersect DOMAIN part.lines = DOMAIN part.lines
      BY <1>1
    <2> HIDE DEF body
    <2>5. CASE q = {} \/ body = {}
      BY <1>2, <2>1, <2>2, <2>3, <2>5
    <2>6. CASE ~(q = {} \/ body = {})
      <3>1. Section(part) = Asked(part, q, body) /\ Telling(part) = DOMAIN part.lines
        BY <2>1, <2>2, <2>3, <2>6
      <3>2. \A i \in DOMAIN part.lines : \E l \in Range(Asked(part, q, body)) :
               l.what = part.lines[i].what /\ l.kind # "text"
        BY <2>4, AskedHas
      <3>3. Asked(part, q, body) \in Seq(Indexed(Forms))
        BY AskedHas
      <3> QED
        BY <3>1, <3>2, <3>3 DEF Lasting
    <2> QED
      BY <2>5, <2>6
  <1>5. CASE part.kind = "faq"
    <2> DEFINE Differ == \E i \in q, j \in a : part.lines[i].what # part.lines[j].what
    <2>1. Section(part) = IF Differ THEN Asked(part, q, a) ELSE <<>>
      BY <1>5 DEF Section, Faq
    <2>2. Telling(part) = {i \in q \union a : Differ}
      BY <1>5 DEF Telling
    <2> HIDE DEF q, a, Differ
    <2>3. CASE ~Differ
      BY <1>2, <2>1, <2>2, <2>3
    <2>4. CASE Differ
      <3>1. Section(part) = Asked(part, q, a)
            /\ Telling(part) \subseteq (q \union a) \intersect DOMAIN part.lines
        BY <1>1, <2>1, <2>2, <2>4
      <3>2. \A i \in Telling(part) : \E l \in Range(Asked(part, q, a)) :
               l.what = part.lines[i].what /\ l.kind # "text"
        BY <3>1, AskedHas
      <3>3. Asked(part, q, a) \in Seq(Indexed(Forms))
        BY AskedHas
      <3> QED
        BY <3>1, <3>2, <3>3 DEF Lasting
    <2> QED
      BY <2>3, <2>4
  <1>6. CASE part.kind \notin {"table", "details", "faq"}
    <2>1. Telling(part) = {}
      BY <1>6 DEF Telling
    <2>2. Section(part) = Text(<<part>>) \/ Section(part) = <<>>
      BY <1>6 DEF Section
    <2>3. Text(<<part>>) \in Seq(Indexed(Forms))
      <3>1. <<part>> \in Parts
        BY DEF Parts, Part, Said
      <3>2. Text(<<part>>) \in Seq(Indexed({"text"}))
        BY <3>1, TextHas
      <3>3. {"text"} \subseteq Forms
        BY DEF Forms
      <3> QED
        BY <3>2, <3>3, MoreKinds
    <2> QED
      BY <1>2, <2>1, <2>2, <2>3
  <1> QED
    BY <1>3, <1>4, <1>5, <1>6

(* The sections of a kind are those of its parts.                           *)
LEMMA SectionsHave ==
    ASSUME NEW parts \in Parts, NEW kind
    PROVE  /\ Sections(parts, kind) \in Seq(Indexed(Forms))
           /\ \A i \in DOMAIN parts : parts[i].kind = kind =>
                 Range(Section(parts[i])) \subseteq Range(Sections(parts, kind))
  <1> DEFINE S == Indexed(Forms)
             each == [i \in DOMAIN parts |-> IF parts[i].kind = kind THEN Section(parts[i]) ELSE <<>>]
  <1>1. PICK n \in Nat : n = Len(parts) /\ DOMAIN parts = 1..n
    BY PartsAre
  <1>2. \A i \in 1..n : Section(parts[i]) \in Seq(S)
    BY <1>1, PartsAre, SectionHas
  <1> HIDE DEF S
  <1>3. each \in [1..n -> Seq(S)]
    <2>1. <<>> \in Seq(S)
      BY EmptySeq
    <2> QED
      BY <1>1, <1>2, <2>1
  <1>4. \A i \in 1..n : parts[i].kind = kind => each[i] = Section(parts[i])
    BY <1>1
  <1>5. Sections(parts, kind) = FlattenSeq(each)
    BY DEF Sections
  <1> HIDE DEF each
  <1>6. each \in Seq(Seq(S)) /\ DOMAIN each = 1..n
    BY <1>3, SeqDef
  <1>7. /\ FlattenSeq(each) \in Seq(S)
        /\ Range(FlattenSeq(each)) = UNION {Range(each[i]) : i \in DOMAIN each}
    BY <1>6, Flattened
  <1>8. \A i \in 1..n : Range(each[i]) \subseteq Range(FlattenSeq(each))
    BY <1>6, <1>7
  <1> QED
    BY <1>1, <1>4, <1>5, <1>7, <1>8 DEF S

(* Some of the parts of a page.                                             *)
LEMMA SomeParts ==
    ASSUME NEW parts \in Parts, NEW places
    PROVE  /\ At(parts, places) \in Parts
           /\ Range(At(parts, places)) = {parts[i] : i \in places \intersect DOMAIN parts}
  <1>1. Parts = Seq(Part)
    BY DEF Parts, Part, Said
  <1> QED
    BY <1>1, Placed

(* The semantic sections of a document have what its tables and accordions  *)
(* tell.                                                                    *)
LEMMA SemanticHas ==
    ASSUME NEW parts \in Parts
    PROVE  /\ Semantic(parts) \in Seq(Indexed(Forms))
           /\ \A part \in Range(parts) : \A i \in Telling(part) :
                 \E l \in Range(Semantic(parts)) : l.what = part.lines[i].what /\ Lasting(l)
  <1> DEFINE S == Indexed(Forms)
             t == Sections(parts, "table")
             d == Sections(parts, "details")
             q == Sections(parts, "faq")
             x == Sections(parts, "panel")
  <1>1. t \in Seq(S) /\ d \in Seq(S) /\ q \in Seq(S) /\ x \in Seq(S)
    BY SectionsHave
  <1>2. Semantic(parts) = t \o d \o q \o x
    BY DEF Semantic
  <1>3. ASSUME NEW part \in Range(parts), NEW i \in Telling(part)
        PROVE  \E l \in Range(t) \union Range(d) \union Range(q) : l.what = part.lines[i].what /\ Lasting(l)
    <2>1. PICK j \in DOMAIN parts : part = parts[j]
      BY <1>3 DEF Range
    <2>2. part \in Part
      BY <2>1, PartsAre
    <2>3. PICK l \in Range(Section(part)) : l.what = part.lines[i].what /\ Lasting(l)
      BY <1>3, <2>2, SectionHas
    <2>4. part.kind \in {"table", "details", "faq"}
      BY <1>3 DEF Telling
    <2>5. Range(Section(part)) \subseteq Range(Sections(parts, part.kind))
      BY <2>1, SectionsHave
    <2> QED
      BY <2>3, <2>4, <2>5
  <1> HIDE DEF t, d, q, x, S
  <1>4. \A a, b \in Seq(S) : a \o b \in Seq(S) /\ Range(a \o b) = Range(a) \union Range(b)
    BY ConcatProperties, RangeOfConcat
  <1>5. /\ t \o d \o q \o x \in Seq(S)
        /\ Range(t \o d \o q \o x) = Range(t) \union Range(d) \union Range(q) \union Range(x)
    <2>1. t \o d \in Seq(S) /\ Range(t \o d) = Range(t) \union Range(d)
      BY <1>1, <1>4
    <2>2. t \o d \o q \in Seq(S) /\ Range(t \o d \o q) = Range(t) \union Range(d) \union Range(q)
      BY <1>1, <1>4, <2>1
    <2> QED
      BY <1>1, <1>4, <2>2
  <1> QED
    BY <1>2, <1>3, <1>5 DEF S

(* Cleaning leaves the first of equal lines, if it lasts and is no noise.   *)
LEMMA CleanLeaves ==
    ASSUME NEW S, NEW lines \in Seq(S), NEW l \in Range(lines), Lasting(l), l.what \notin Noise
    PROVE  \E c \in Range(Clean(lines)) : c.what = l.what
  <1>1. PICK n \in Nat : n = Len(lines) /\ DOMAIN lines = 1..n
    BY LenProperties
  <1> DEFINE These == {i \in 1..n : lines[i] = l}
  <1>2. PICK k \in 1..n : lines[k] = l /\ \A j \in 1..(k - 1) : lines[j] # l
    <2>1. These # {} /\ These \in SUBSET (0..n)
      BY <1>1 DEF Range
    <2>2. PICK k \in These : \A j \in These : k <= j
      <3> HIDE DEF These
      <3> QED
        BY <1>1, <2>1, Least
    <2>3. ASSUME NEW j \in 1..(k - 1) PROVE lines[j] # l
      <3>1. k \in 1..n
        OBVIOUS
      <3>2. j \in 1..n /\ ~(k <= j)
        BY <3>1
      <3> QED
        BY <2>2, <3>2
    <2> QED
      BY <2>2, <2>3
  <1> DEFINE Worthy(i) ==
                /\ lines[i].what \notin Noise
                /\ lines[i].length < 100 => \A j \in 1..(i - 1) : lines[j] # lines[i]
                /\ Lasting(lines[i])
             places == {i \in DOMAIN lines : Worthy(i)}
  <1>3. k \in places
    BY <1>1, <1>2
  <1>4. Clean(lines) = At(lines, places)
    BY DEF Clean
  <1> HIDE DEF places
  <1>5. lines[k] \in Range(At(lines, places))
    <2>1. k \in places \intersect DOMAIN lines
      BY <1>1, <1>3
    <2> QED
      BY <2>1, Placed
  <1> QED
    BY <1>2, <1>4, <1>5

-----------------------------------------------------------------------------
(* What the passes of the extractor read is a text, a sequence of lines,    *)
(* whatever the page's states, blocks and keys are. *)
IsText(lines) == \E S : lines \in Seq(S)

(* Two texts together have what each of them has.                          *)
LEMMA Together ==
    ASSUME NEW a, NEW b, IsText(a), IsText(b)
    PROVE  /\ IsText(a \o b)
           /\ Range(a) \subseteq Range(a \o b) /\ Range(b) \subseteq Range(a \o b)
           /\ a \o b = <<>> => a = <<>> /\ b = <<>>
  <1>1. PICK A : a \in Seq(A)
    BY DEF IsText
  <1>2. PICK B : b \in Seq(B)
    BY DEF IsText
  <1>3. a \in Seq(A \union B) /\ b \in Seq(A \union B)
    <2>1. A \subseteq A \union B /\ B \subseteq A \union B
      OBVIOUS
    <2> QED
      BY <1>1, <1>2, <2>1, SeqMonotonic
  <1>4. a \o b \in Seq(A \union B) /\ Range(a \o b) = Range(a) \union Range(b)
    BY <1>3, ConcatProperties, RangeOfConcat
  <1>5. a \o b = <<>> => a = <<>> /\ b = <<>>
    BY <1>3, ConcatEqualIffEmpty
  <1> QED
    BY <1>4, <1>5 DEF IsText

(* Nothing, a line, and two lines are texts.                                *)
LEMMA AText ==
    /\ IsText(<<>>)
    /\ \A l : IsText(<<l>>)
    /\ \A l, m : IsText(<<l, m>>)
  <1>1. <<>> \in Seq({})
    BY EmptySeq
  <1>2. \A l : <<l>> \in Seq({l})
    OBVIOUS
  <1>3. \A l, m : <<l, m>> \in Seq({l, m})
    OBVIOUS
  <1> QED
    BY <1>1, <1>2, <1>3 DEF IsText

(* A set of ten, or of fewer, is finite.                                    *)
LEMMA Few ==
    \A a, b, c, d, e, f, g, h, i, j : IsFiniteSet({a, b, c, d, e, f, g, h, i, j})
  <1>1. \A S, x : IsFiniteSet(S) => IsFiniteSet(S \union {x})
    BY FS_AddElement
  <1> SUFFICES ASSUME NEW a, NEW b, NEW c, NEW d, NEW e, NEW f, NEW g, NEW h, NEW i, NEW j
               PROVE  IsFiniteSet({a, b, c, d, e, f, g, h, i, j})
    OBVIOUS
  <1>2. IsFiniteSet({})
    BY FS_EmptySet
  <1>3. IsFiniteSet({} \union {a} \union {b} \union {c} \union {d} \union {e} \union {f} \union {g}
                    \union {h} \union {i} \union {j})
    BY <1>1, <1>2
  <1>4. {} \union {a} \union {b} \union {c} \union {d} \union {e} \union {f} \union {g}
           \union {h} \union {i} \union {j} = {a, b, c, d, e, f, g, h, i, j}
    OBVIOUS
  <1> QED
    BY <1>3, <1>4

(* A line for each of some keys.                                           *)
LEMMA LineForEach ==
    ASSUME NEW A, IsFiniteSet(A), NEW f, DOMAIN f = A
    PROVE  IsText(SetToSeq({f[k] : k \in A}))
  <1> DEFINE These == {f[k] : k \in A}
             g == [k \in A |-> f[k]]
  <1>1. g \in Surjection(A, These)
    BY DEF Surjection
  <1> HIDE DEF g
  <1>2. IsFiniteSet(These)
    <2> HIDE DEF These
    <2> QED
      BY <1>1, FS_Surjection
  <1> QED
    BY <1>2, Listed DEF IsText

(* A product has finitely many fields,                                      *)
LEMMA FieldsAreFinite == IsFiniteSet(Fields)
  <1> DEFINE some == {"title", "price", "availability", "brand", "material", "color", "size_options",
                      "shipping_info", "return_policy", "sku"}
             others == {"description", "handle", "product_type", "tags", "currency", "care_instructions",
                        "title", "price", "brand", "sku"}
  <1>1. Fields \in SUBSET (some \union others)
    BY DEF Fields, Core, Attributes, Logistics
  <1>2. IsFiniteSet(some) /\ IsFiniteSet(others)
    BY Few
  <1> HIDE DEF some, others
  <1>3. IsFiniteSet(some \union others)
    BY <1>2, FS_Union
  <1> QED
    BY <1>1, <1>3, FS_Subset

(* so what is written down of it is a text;                                 *)
LEMMA HydratedIsText == ASSUME NEW page PROVE IsText(Hydrated(page))
  <1> DEFINE offer == Hydration(page.states)
             shown == (offer.fields \intersect Fields) \ {"handle", "currency", "description"}
             first == SetToSeq({Line("text", f, LineLength) : f \in shown})
             second == IF offer.variants = {} THEN <<>>
                       ELSE <<Line("text", "variants", LineLength * Cardinality(offer.variants))>>
             third == <<Line("text", "description", offer.length), Line("text", "sources", LineLength)>>
  <1>1. Hydrated(page) = <<>> \/ Hydrated(page) = first \o second \o third
    BY DEF Hydrated
  <1>2. IsText(first)
    <2> HIDE DEF offer
    <2>1. IsFiniteSet(shown)
      <3>1. shown \in SUBSET Fields
        OBVIOUS
      <3> HIDE DEF shown
      <3> QED
        BY <3>1, FieldsAreFinite, FS_Subset
    <2> HIDE DEF shown
    <2> DEFINE f == [k \in shown |-> Line("text", k, LineLength)]
    <2>2. DOMAIN f = shown /\ {Line("text", k, LineLength) : k \in shown} = {f[k] : k \in shown}
      OBVIOUS
    <2> HIDE DEF f
    <2>3. IsText(SetToSeq({f[k] : k \in shown}))
      BY <2>1, <2>2, LineForEach
    <2> QED
      BY <2>2, <2>3
  <1>3. IsText(second) /\ IsText(third)
    BY AText
  <1> HIDE DEF first, second, third
  <1>4. IsText(first \o second)
    BY <1>2, <1>3, Together
  <1>5. IsText(first \o second \o third)
    BY <1>3, <1>4, Together
  <1> QED
    BY <1>1, <1>5, AText

(* and so it is of a JSON-LD block                                          *)
LEMMA WrittenIsFinite == ASSUME NEW type PROVE IsFiniteSet(Written(type))
  <1> DEFINE some == {"price", "availability", "brand", "sku", "description", "material", "color", "size",
                      "weight", "category"}
             others == {"author", "datePublished", "mainEntity", "address", "telephone", "openingHours",
                        "priceRange", "servesCuisine", "startDate", "location"}
  <1>1. Written(type) \in SUBSET (some \union others)
    BY DEF Written
  <1>2. IsFiniteSet(some) /\ IsFiniteSet(others)
    BY Few
  <1> HIDE DEF some, others
  <1>3. IsFiniteSet(some \union others)
    BY <1>2, FS_Union
  <1> QED
    BY <1>1, <1>3, FS_Subset

(* that is read,                                                            *)
LEMMA StructuredIsText == ASSUME NEW page PROVE IsText(Structured(page))
  <1> DEFINE block == Block(page.blocks)
             Size1(k) == IF k \in {"description", "mainEntity"} THEN block.node.length ELSE LineLength
             A == block.node.keys \intersect Written(block.type)
             first == <<Line("text", "name", LineLength)>>
             second == SetToSeq({Line("text", k, Size1(k)) : k \in A})
  <1>1. Structured(page) = <<>> \/ Structured(page) = first \o second
    BY DEF Structured
  <1>2. IsText(second)
    <2>1. IsFiniteSet(A)
      <3>1. A \in SUBSET Written(block.type)
        OBVIOUS
      <3> HIDE DEF A, block
      <3> QED
        BY <3>1, WrittenIsFinite, FS_Subset
    <2> HIDE DEF A, block
    <2> DEFINE f == [k \in A |-> Line("text", k, Size1(k))]
    <2>2. DOMAIN f = A /\ {Line("text", k, Size1(k)) : k \in A} = {f[k] : k \in A}
      OBVIOUS
    <2> HIDE DEF f
    <2>3. IsText(SetToSeq({f[k] : k \in A}))
      BY <2>1, <2>2, LineForEach
    <2> QED
      BY <2>2, <2>3
  <1>3. IsText(first)
    BY AText
  <1> HIDE DEF first, second
  <1>4. IsText(first \o second)
    BY <1>2, <1>3, Together
  <1> QED
    BY <1>1, <1>4, AText

(* and of the Open Graph keys.                                              *)
LEMMA OpenGraphIsText == ASSUME NEW og PROVE IsText(OpenGraph(og))
  <1> DEFINE A == {"title", "price"} \union (og \intersect {"brand", "availability", "description"})
             all == {"title", "price", "brand", "availability", "description",
                     "title", "price", "brand", "availability", "description"}
  <1>1. OpenGraph(og) = <<>> \/ OpenGraph(og) = SetToSeq({Line("text", k, LineLength) : k \in A})
    BY DEF OpenGraph
  <1>2. IsFiniteSet(A)
    <2>1. A \in SUBSET all
      OBVIOUS
    <2>2. IsFiniteSet(all)
      BY Few
    <2> HIDE DEF A, all
    <2> QED
      BY <2>1, <2>2, FS_Subset
  <1> HIDE DEF A
  <1> DEFINE f == [k \in A |-> Line("text", k, LineLength)]
  <1>3. DOMAIN f = A /\ {Line("text", k, LineLength) : k \in A} = {f[k] : k \in A}
    OBVIOUS
  <1> HIDE DEF f
  <1>4. IsText(SetToSeq({f[k] : k \in A}))
    BY <1>2, <1>3, LineForEach
  <1> QED
    BY <1>1, <1>3, <1>4, AText

-----------------------------------------------------------------------------
(* What the passes over the document leave of it. *)

(* A text that has lines is cut to one that has lines, as each is within    *)
(* the limits.                                                             *)
LEMMA CutOfText ==
    ASSUME NEW parts \in Parts, NEW limit \in Nat
    PROVE  /\ IsText(Text(parts)) /\ IsText(Cut(Text(parts), limit))
           /\ Text(parts) # <<>> /\ limit >= LongestLine => Cut(Text(parts), limit) # <<>>
  <1> DEFINE lines == Text(parts)
             S == Indexed({"text"})
  <1>1. lines \in Seq(S)
    BY TextHas
  <1>2. \A l \in S : l.length \in Nat /\ l.length <= LongestLine
    BY DEF Indexed, LongestLine
  <1> HIDE DEF lines, S
  <1>3. /\ Cut(lines, limit) \in Seq(S)
        /\ lines # <<>> /\ lines[1].length <= limit => Cut(lines, limit) # <<>>
    BY <1>1, <1>2, CutLeaves
  <1>4. ASSUME lines # <<>>, limit >= LongestLine PROVE lines[1].length <= limit
    <2>1. 1 \in 1..Len(lines)
      BY <1>1, <1>4, EmptySeq
    <2>2. lines[1] \in S
      BY <1>1, <2>1, ElementOfSeq
    <2>3. lines[1].length \in Nat /\ lines[1].length <= LongestLine
      BY <1>2, <2>2
    <2> QED
      BY <1>4, <2>3 DEF LongestLine
  <1> QED
    BY <1>1, <1>3, <1>4 DEF IsText, lines

(* Parts that have a text still have one among more parts.                  *)
LEMMA MoreText ==
    ASSUME NEW parts \in Parts, NEW more \in Parts, Range(parts) \subseteq Range(more), Text(more) = <<>>
    PROVE  Text(parts) = <<>>
  <1>1. Range(Text(more)) = {}
    BY DEF Range
  <1>2. ASSUME NEW i \in DOMAIN more PROVE Range(more[i].lines) = {}
    <2>1. {Line("text", l.what, l.length) : l \in Range(more[i].lines)} \subseteq Range(Text(more))
      BY TextHas
    <2> QED
      BY <1>1, <2>1
  <1>3. \A i \in DOMAIN parts : Range(parts[i].lines) = {}
    <2> SUFFICES ASSUME NEW i \in DOMAIN parts PROVE Range(parts[i].lines) = {}
      OBVIOUS
    <2>1. parts[i] \in Range(more)
      BY DEF Range
    <2>2. PICK j \in DOMAIN more : more[j] = parts[i]
      BY <2>1 DEF Range
    <2> QED
      BY <1>2, <2>2
  <1>4. Range(Text(parts)) = {} /\ Text(parts) \in Seq(Indexed({"text"}))
    BY <1>3, TextHas
  <1>5. Len(Text(parts)) \in Nat /\ DOMAIN Text(parts) = 1..Len(Text(parts))
    BY <1>4, LenProperties
  <1>6. DOMAIN Text(parts) = {}
    BY <1>4 DEF Range
  <1>7. Len(Text(parts)) = 0
    BY <1>5, <1>6
  <1> QED
    BY <1>4, <1>7, EmptySeq

(* What is left of the document holds what is no boilerplate of it.         *)
Spared(parts, left) == left \in Parts /\ Range(Without(parts, Boilerplate)) \subseteq Range(left)

(* What a pass over the document returns.                                  *)
IsRead(read) == read = [lines |-> read.lines, left |-> read.left]

(* Without drops the parts that are in some element it is to drop.          *)
LEMMA WithoutIs ==
    ASSUME NEW parts \in Parts
    PROVE  Range(Without(parts, Boilerplate)) = {part \in Range(parts) : part.in \intersect Boilerplate = {}}
  <1> DEFINE clear == {i \in DOMAIN parts : parts[i].in \intersect Boilerplate = {}}
  <1>1. Without(parts, Boilerplate) = At(parts, clear)
    BY DEF Without
  <1>2. Range(At(parts, clear)) = {parts[i] : i \in clear \intersect DOMAIN parts}
    <2> HIDE DEF clear
    <2> QED
      BY SomeParts
  <1> QED
    BY <1>1, <1>2 DEF Range

(* Removing only boilerplate spares the rest.                               *)
LEMMA Sparing ==
    ASSUME NEW parts \in Parts
    PROVE  /\ Without(parts, Boilerplate) \in Parts
           /\ Spared(parts, parts) /\ Spared(parts, Without(parts, Boilerplate))
           /\ \A places : {i \in DOMAIN parts : parts[i].in \intersect Boilerplate = {}} \subseteq places
                             => Spared(parts, At(parts, places))
  <1> DEFINE clear == {i \in DOMAIN parts : parts[i].in \intersect Boilerplate = {}}
  <1>1. Without(parts, Boilerplate) = At(parts, clear)
    BY DEF Without
  <1> HIDE DEF clear
  <1>2. \A places : /\ At(parts, places) \in Parts
                    /\ Range(At(parts, places)) = {parts[i] : i \in places \intersect DOMAIN parts}
    BY SomeParts
  <1>3. Range(parts) = {parts[i] : i \in DOMAIN parts}
    BY DEF Range
  <1>4. Spared(parts, parts)
    BY <1>1, <1>2, <1>3 DEF Spared
  <1>5. \A places : clear \subseteq places => Spared(parts, At(parts, places))
    BY <1>1, <1>2 DEF Spared
  <1> QED
    BY <1>1, <1>2, <1>4, <1>5 DEF clear

(* The generic reading of HTML finds a text if there is one.                *)
LEMMA GenericFinds ==
    ASSUME NEW left \in Parts, GenericText(left, Long(left), Dense(left)) = <<>>
    PROVE  Text(left) = <<>>
  <1>1. \A e : Within(left, e) \in Parts
    BY SomeParts DEF Within
  <1>2. \A e : Size(left, e) # 0 => Text(Within(left, e)) # <<>>
    BY NoLength DEF Size
  <1>3. 4000 \in Nat /\ 4000 >= LongestLine /\ 2000 \in Nat /\ 2000 >= LongestLine
    BY DEF LongestLine
  <1>4. \A e : Size(left, e) # 0 => Cut(Text(Within(left, e)), 4000) # <<>>
    BY <1>1, <1>2, <1>3, CutOfText
  <1>5. CASE Long(left) # <<>>
    <2> DEFINE places == {i \in DOMAIN CONTENT : Size(left, CONTENT[i]) > 200}
    <2>1. CONTENT \in Seq({"main", "article", "section"})
      BY DEF CONTENT
    <2>2. Long(left) = At(CONTENT, places)
      BY DEF Long
    <2> HIDE DEF places
    <2>3. /\ Long(left) \in Seq({"main", "article", "section"})
          /\ Range(Long(left)) = {CONTENT[i] : i \in places \intersect DOMAIN CONTENT}
      BY <2>1, <2>2, Placed
    <2>4. Head(Long(left)) \in Range(Long(left))
      <3>1. 1 \in DOMAIN Long(left)
        BY <1>5, <2>3, EmptySeq, LenProperties
      <3>2. Head(Long(left)) = Long(left)[1]
        BY <1>5, <2>3
      <3> QED
        BY <3>1, <3>2 DEF Range
    <2>5. Size(left, Head(Long(left))) > 200
      BY <2>3, <2>4 DEF places
    <2>6. Size(left, Head(Long(left))) # 0
      BY <2>5
    <2>7. GenericText(left, Long(left), Dense(left)) = Cut(Text(Within(left, Head(Long(left)))), 4000)
      BY <1>5 DEF GenericText
    <2> QED
      BY <1>4, <2>6, <2>7
  <1>6. CASE Long(left) = <<>> /\ Dense(left) # {}
    <2>1. PICK e : e = CHOOSE d \in Dense(left) : TRUE
      OBVIOUS
    <2>2. e \in Dense(left)
      BY <1>6, <2>1
    <2>3. Size(left, e) >= 100
      BY <2>2 DEF Dense, Most
    <2>4. Size(left, e) # 0
      BY <2>3
    <2>5. GenericText(left, Long(left), Dense(left)) = Cut(Text(Within(left, e)), 4000)
      BY <1>6, <2>1 DEF GenericText
    <2> QED
      BY <1>4, <2>4, <2>5
  <1>7. CASE Long(left) = <<>> /\ Dense(left) = {}
    <2>1. GenericText(left, Long(left), Dense(left)) = Cut(Text(left), 2000)
      BY <1>7 DEF GenericText
    <2> QED
      BY <1>3, <2>1, CutOfText
  <1> QED
    BY <1>5, <1>6, <1>7

(* It reads a text, and finds it empty only if the document has none.       *)
LEMMA GenericReads ==
    ASSUME NEW parts \in Parts, NEW og
    PROVE  LET read == GenericHtml(parts, og)
           IN  /\ IsRead(read) /\ IsText(read.lines) /\ Spared(parts, read.left)
               /\ read.lines = <<>> => Text(Without(parts, Boilerplate)) = <<>>
  <1> DEFINE left == Without(parts, Boilerplate)
             long == Long(left)
             dense == Dense(left)
  <1>1. left \in Parts /\ Spared(parts, parts) /\ Spared(parts, left)
    BY Sparing
  <1>2. GenericHtml(parts, og) = IF OpenGraph(og) # <<>> THEN [lines |-> OpenGraph(og), left |-> parts]
                                 ELSE [lines |-> GenericText(left, long, dense), left |-> left]
    BY DEF GenericHtml
  <1> HIDE DEF left
  <1>3. IsText(GenericText(left, long, dense))
    <2>1. \A e : Within(left, e) \in Parts
      BY <1>1, SomeParts DEF Within
    <2>2. 4000 \in Nat /\ 2000 \in Nat
      OBVIOUS
    <2>3. \A e : IsText(Cut(Text(Within(left, e)), 4000))
      BY <2>1, <2>2, CutOfText
    <2>4. IsText(Cut(Text(left), 2000))
      BY <1>1, <2>2, CutOfText
    <2> HIDE DEF long, dense
    <2> QED
      BY <2>3, <2>4 DEF GenericText
  <1>4. GenericText(left, long, dense) = <<>> => Text(left) = <<>>
    BY <1>1, GenericFinds
  <1> HIDE DEF long, dense
  <1> QED
    BY <1>1, <1>2, <1>3, <1>4, OpenGraphIsText DEF left, IsRead

(* Whatever the platform, its reading leaves the document that text.        *)
LEMMA PlatformReads ==
    ASSUME NEW page, page.parts \in Parts
    PROVE  IsText(ByPlatform(page).lines) /\ Spared(page.parts, ByPlatform(page).left)
  <1> DEFINE platform == Platform(page)
             present == SelectSeq(Containers(platform), LAMBDA e : Within(page.parts, e) # <<>>)
             found == Found(page, platform, present)
             title == Title(page)
  <1>1. ByPlatform(page) = Titled(found, title)
    BY DEF ByPlatform
  <1>2. \A e : Within(page.parts, e) \in Parts
    BY SomeParts DEF Within
  <1>3. IsText(WooCommerce(page.parts))
    <2> DEFINE tabs == At(page.parts, {i \in DOMAIN page.parts : "description" \in page.parts[i].in
                                                              /\ Length(page.parts[i].lines) > 50})
               tab == IF tabs = <<>> THEN <<>> ELSE Cut(Text(<<Head(tabs)>>), 3000)
    <2>1. IsText(tab)
      <3>1. tabs \in Parts
        BY SomeParts
      <3> HIDE DEF tabs
      <3>2. ASSUME tabs # <<>> PROVE <<Head(tabs)>> \in Parts
        <4>1. tabs \in Seq(Part) /\ Parts = Seq(Part)
          BY <3>1 DEF Parts, Part, Said
        <4>2. Head(tabs) \in Part
          BY <3>2, <4>1, HeadTailProperties
        <4> QED
          BY <4>1, <4>2
      <3>3. 3000 \in Nat
        OBVIOUS
      <3>4. tabs # <<>> => IsText(Cut(Text(<<Head(tabs)>>), 3000))
        BY <3>2, <3>3, CutOfText
      <3> QED
        BY <3>4, AText
    <2>2. IsText(Text(Within(page.parts, "price"))) /\ IsText(Text(Within(page.parts, "attributes")))
      <3>1. 2000 \in Nat
        OBVIOUS
      <3> QED
        BY <1>2, <3>1, CutOfText
    <2>3. WooCommerce(page.parts) = Text(Within(page.parts, "price")) \o tab \o Text(Within(page.parts, "attributes"))
      BY DEF WooCommerce
    <2> HIDE DEF tab
    <2>4. IsText(Text(Within(page.parts, "price")) \o tab)
      BY <2>1, <2>2, Together
    <2> QED
      BY <2>2, <2>3, <2>4, Together
  <1>4. ASSUME NEW container, NEW limit \in Nat
        PROVE  LET read == FromContainer(page.parts, container, Removed(platform), limit)
               IN  IsRead(read) /\ IsText(read.lines) /\ Spared(page.parts, read.left)
    <2> DEFINE places == {i \in DOMAIN page.parts :
                             container \in page.parts[i].in => page.parts[i].in \intersect Removed(platform) = {}}
               left == At(page.parts, places)
    <2>1. Removed(platform) \subseteq Boilerplate
      <3> HIDE DEF platform
      <3> QED
        BY DEF Removed, Boilerplate
    <2>2. {i \in DOMAIN page.parts : page.parts[i].in \intersect Boilerplate = {}} \subseteq places
      BY <2>1
    <2>3. Spared(page.parts, left)
      <3> HIDE DEF places
      <3> QED
        BY <2>2, Sparing
    <2>4. FromContainer(page.parts, container, Removed(platform), limit)
            = [lines |-> Cut(Text(Within(left, container)), limit), left |-> left]
      BY DEF FromContainer
    <2> HIDE DEF left
    <2>5. Within(left, container) \in Parts
      BY <2>3, SomeParts DEF Within, Spared
    <2>6. IsText(Cut(Text(Within(left, container)), limit))
      BY <2>5, CutOfText
    <2> QED
      BY <2>3, <2>4, <2>6 DEF IsRead
  <1>5. IsRead(found) /\ IsText(found.lines) /\ Spared(page.parts, found.left)
    <2> HIDE DEF platform, present
    <2>1. CASE platform = "woocommerce"
      <3>1. found = [lines |-> WooCommerce(page.parts), left |-> page.parts]
        BY <2>1 DEF Found
      <3>2. Spared(page.parts, page.parts)
        BY Sparing
      <3> QED
        BY <1>3, <3>1, <3>2 DEF IsRead
    <2>2. CASE platform # "woocommerce" /\ present # <<>>
      <3>1. Limit(platform) \in Nat
        BY DEF Limit
      <3>2. found = FromContainer(page.parts, Head(present), Removed(platform), Limit(platform))
        BY <2>2 DEF Found
      <3> QED
        BY <1>4, <3>1, <3>2
    <2>3. CASE platform # "woocommerce" /\ present = <<>>
      <3>1. found = GenericHtml(page.parts, IF platform = "generic" THEN page.og ELSE {})
        BY <2>3 DEF Found
      <3> QED
        BY <3>1, GenericReads
    <2> QED
      BY <2>1, <2>2, <2>3
  <1>6. IsText(title)
    <2> DEFINE h1 == Within(page.parts, "h1")
    <2>1. h1 # <<>> => IsText(Text(<<Head(h1)>>))
      <3>1. h1 \in Parts
        BY <1>2
      <3> HIDE DEF h1
      <3>2. ASSUME h1 # <<>> PROVE <<Head(h1)>> \in Parts
        <4>1. h1 \in Seq(Part) /\ Parts = Seq(Part)
          BY <3>1 DEF Parts, Part, Said
        <4>2. Head(h1) \in Part
          BY <3>2, <4>1, HeadTailProperties
        <4> QED
          BY <4>1, <4>2
      <3>3. 2000 \in Nat
        OBVIOUS
      <3> QED
        BY <3>2, <3>3, CutOfText
    <2>2. \/ h1 # <<>> /\ title = Text(<<Head(h1)>>)
          \/ title \in {<<Line("text", "title", LineLength)>>, <<>>}
      BY DEF Title
    <2> HIDE DEF title, h1
    <2> QED
      BY <2>1, <2>2, AText
  <1> HIDE DEF found, title
  <1>7. CASE Titled(found, title) = found
    BY <1>1, <1>5, <1>7
  <1>8. CASE Titled(found, title) # found
    <2>1. Titled(found, title) = [found EXCEPT !.lines = title \o found.lines]
      BY <1>8 DEF Titled
    <2>2. IsText(title \o found.lines)
      BY <1>5, <1>6, Together
    <2>3. Titled(found, title).left = found.left /\ Titled(found, title).lines = title \o found.lines
      BY <1>5, <2>1 DEF IsRead
    <2> QED
      BY <1>1, <1>5, <2>2, <2>3
  <1> QED
    BY <1>7, <1>8

-----------------------------------------------------------------------------
(* A pass that adds the semantic sections to what it read reads the tables. *)
LEMMA PassReads ==
    ASSUME NEW page, page.parts \in Parts, NEW pass, NEW lines, IsText(lines), lines # <<>>,
           NEW left, Spared(page.parts, left)
    PROVE  ReadsTables(page, Extracted(pass, lines \o Semantic(left)))
  <1> DEFINE text == Without(page.parts, Boilerplate)
             read == lines \o Semantic(left)
  <1>1. left \in Parts /\ Range(text) \subseteq Range(left)
    BY DEF Spared
  <1>2. IsText(Semantic(left))
    BY <1>1, SemanticHas DEF IsText
  <1>3. IsText(read) /\ Range(Semantic(left)) \subseteq Range(read) /\ read # <<>>
    BY <1>2, Together
  <1> HIDE DEF read, text
  <1>4. ASSUME NEW part \in Range(text), NEW i \in Telling(part), part.lines[i].what \notin Noise
        PROVE  \E c \in Range(Clean(read)) : c.what = part.lines[i].what
    <2>1. part \in Range(left)
      BY <1>1
    <2>2. PICK l \in Range(Semantic(left)) : l.what = part.lines[i].what /\ Lasting(l)
      BY <1>1, <1>4, <2>1, SemanticHas
    <2>3. PICK m \in Range(read) : m = l
      BY <1>3, <2>2
    <2>4. Lasting(m) /\ m.what \notin Noise
      BY <1>4, <2>2, <2>3
    <2>5. PICK S : read \in Seq(S)
      BY <1>3 DEF IsText
    <2>6. \E c \in Range(Clean(read)) : c.what = m.what
      BY <2>4, <2>5, CleanLeaves
    <2> QED
      BY <2>2, <2>3, <2>6
  <1>5. Extracted(pass, read).lines = read
    BY DEF Extracted
  <1>6. ReadsTables(page, Extracted(pass, read))
    BY <1>3, <1>4, <1>5 DEF ReadsTables, text
  <1> QED
    BY <1>6 DEF read

(* A document without a heading has none in what is left of it.             *)
LEMMA StillUnnamed ==
    ASSUME NEW page, NEW parts \in Parts, NEW left \in Parts, Range(left) \subseteq Range(parts),
           Unnamed(page, parts)
    PROVE  Unnamed(page, left)
  <1>1. \A some \in Parts : /\ Within(some, "h1") \in Seq(Part)
                             /\ Range(Within(some, "h1")) = {part \in Range(some) : "h1" \in part.in}
    <2> SUFFICES ASSUME NEW some \in Parts
                 PROVE  /\ Within(some, "h1") \in Seq(Part)
                        /\ Range(Within(some, "h1")) = {part \in Range(some) : "h1" \in part.in}
      OBVIOUS
    <2> DEFINE places == {i \in DOMAIN some : "h1" \in some[i].in}
    <2>1. Within(some, "h1") = At(some, places)
      BY DEF Within
    <2>2. /\ At(some, places) \in Parts
          /\ Range(At(some, places)) = {some[i] : i \in places \intersect DOMAIN some}
      <3> HIDE DEF places
      <3> QED
        BY SomeParts
    <2>3. Parts = Seq(Part)
      BY DEF Parts, Part, Said
    <2> QED
      BY <2>1, <2>2, <2>3 DEF Range
  <1>2. Range(Within(parts, "h1")) = {}
    BY DEF Unnamed, Range
  <1>3. Range(Within(left, "h1")) = {}
    BY <1>1, <1>2
  <1>4. Len(Within(left, "h1")) \in Nat /\ DOMAIN Within(left, "h1") = 1..Len(Within(left, "h1"))
    BY <1>1, LenProperties
  <1>5. DOMAIN Within(left, "h1") = {}
    BY <1>3 DEF Range
  <1>6. Len(Within(left, "h1")) = 0
    BY <1>4, <1>5
  <1>7. Within(left, "h1") = <<>>
    BY <1>1, <1>6, EmptySeq
  <1> QED
    BY <1>7 DEF Unnamed

(* However a page is read, its tables are indexed.                          *)
LEMMA Indexing ==
    ASSUME NEW page, page.parts \in Parts, page.main \in Parts, page.summary \in Parts
    PROVE  TablesAreIndexed(page)
  <1> DEFINE hydrated == Hydrated(page)
             structured == Structured(page)
             platform == ByPlatform(page)
  <1>1. IsText(hydrated) /\ IsText(structured) /\ IsText(platform.lines)
    BY HydratedIsText, StructuredIsText, PlatformReads
  <1>2. Spared(page.parts, page.parts) /\ Spared(page.parts, platform.left)
    BY Sparing, PlatformReads
  <1>3. Extract(page) = FirstEnough(page, hydrated, structured, platform)
    BY DEF Extract
  <1>4. \A lines, k : k \in Nat /\ Length(lines) > k => lines # <<>>
    BY NoLength
  <1> HIDE DEF hydrated, structured, platform
  <1>5. CASE Length(hydrated) > 150
    <2>1. Extract(page) = Extracted("hydration", hydrated \o Semantic(page.parts))
      BY <1>3, <1>5 DEF FirstEnough
    <2> QED
      BY <1>1, <1>2, <1>4, <1>5, <2>1, PassReads DEF TablesAreIndexed
  <1>6. CASE ~(Length(hydrated) > 150) /\ Unreadable(page)
    <2>1. Extract(page) = Extracted("failed", <<>>)
      BY <1>3, <1>6 DEF FirstEnough
    <2> QED
      BY <1>6, <2>1 DEF TablesAreIndexed, ReadsTables, Extracted
  <1> DEFINE Passed == ~(Length(hydrated) > 150) /\ ~Unreadable(page)
  <1>7. CASE Passed /\ Length(structured) > 100
    <2>1. Extract(page) = Extracted("jsonld", structured \o Semantic(page.parts))
      BY <1>3, <1>7 DEF FirstEnough
    <2> QED
      BY <1>1, <1>2, <1>4, <1>7, <2>1, PassReads DEF TablesAreIndexed
  <1> DEFINE Later == Passed /\ ~(Length(structured) > 100)
             text == Without(page.parts, Boilerplate)
  <1>8. CASE Later /\ Unnamed(page, page.parts)
    <2>1. Extract(page) = Extracted("failed", <<>>)
      BY <1>3, <1>8 DEF FirstEnough
    <2>2. text \in Parts /\ Range(text) \subseteq Range(page.parts)
      BY Sparing, WithoutIs
    <2>3. Unnamed(page, text)
      <3> HIDE DEF text
      <3> QED
        BY <1>8, <2>2, StillUnnamed
    <2> QED
      BY <2>1, <2>3 DEF TablesAreIndexed, ReadsTables, Extracted
  <1> DEFINE HasName == Later /\ ~Unnamed(page, page.parts)
  <1>9. CASE HasName /\ Length(platform.lines) > 150
    <2>1. Extract(page) = Extracted("platform", platform.lines \o Semantic(platform.left))
      BY <1>3, <1>9 DEF FirstEnough
    <2> QED
      BY <1>1, <1>2, <1>4, <1>9, <2>1, PassReads DEF TablesAreIndexed
  <1>10. CASE HasName /\ ~(Length(platform.lines) > 150)
    <2>1. CASE Extract(page) = Extracted("trafilatura", Text(page.main)) /\ Length(Text(page.main)) > 200
      <3>1. Text(page.main) # <<>>
        BY <1>4, <2>1
      <3> QED
        BY <2>1, <3>1 DEF TablesAreIndexed, ReadsTables, Extracted
    <2>2. CASE Extract(page) = Extracted("readability", Text(page.summary)) /\ Length(Text(page.summary)) > 200
      <3>1. Text(page.summary) # <<>>
        BY <1>4, <2>2
      <3> QED
        BY <2>2, <3>1 DEF TablesAreIndexed, ReadsTables, Extracted
    <2>3. CASE Extract(page) = Generic(page, GenericHtml(platform.left, page.og))
      <3> DEFINE left == platform.left
                 read == GenericHtml(left, page.og)
      <3>1. left \in Parts /\ Range(text) \subseteq Range(left)
        BY <1>2 DEF Spared
      <3> HIDE DEF left
      <3>2. /\ read.lines = <<>> => Text(Without(left, Boilerplate)) = <<>>
            /\ Spared(left, read.left)
        BY <3>1, GenericReads
      <3>3. Without(left, Boilerplate) \in Parts /\ text \in Parts
        BY <3>1, Sparing
      <3>4. Range(text) \subseteq Range(Without(left, Boilerplate))
        <4>1. \A parts \in Parts : Range(Without(parts, Boilerplate))
                                      = {part \in Range(parts) : part.in \intersect Boilerplate = {}}
          BY WithoutIs
        <4> QED
          BY <3>1, <4>1
      <3> HIDE DEF read, text
      <3>5. read.lines = <<>> => Text(text) = <<>>
        BY <3>2, <3>3, <3>4, MoreText
      <3>6. Unnamed(page, read.left) => Unnamed(page, text)
        BY <3>2, <3>3, <3>4, StillUnnamed DEF Spared
      <3>7. Generic(page, read) = IF Unnamed(page, read.left) THEN Extracted("failed", <<>>)
                                  ELSE Extracted("generic", read.lines)
        BY DEF Generic
      <3>8. Extract(page) = Generic(page, read)
        BY <2>3 DEF read, left
      <3>9. CASE Unnamed(page, read.left)
        BY <3>6, <3>7, <3>8, <3>9 DEF TablesAreIndexed, ReadsTables, Extracted, text
      <3>10. CASE ~Unnamed(page, read.left)
        BY <3>5, <3>7, <3>8, <3>10 DEF TablesAreIndexed, ReadsTables, Extracted, text
      <3> QED
        BY <3>9, <3>10
    <2> QED
      BY <1>3, <1>10, <2>1, <2>2, <2>3 DEF FirstEnough
  <1> QED
    BY <1>5, <1>6, <1>7, <1>8, <1>9, <1>10

(* Each page of a site is indexed, as fetched and as rendered.               *)
LEMMA EverySiteIsIndexed == IndexedSites = DOMAIN Sites
  <1> SUFFICES ASSUME NEW n \in DOMAIN Sites
               PROVE  TablesAreIndexed(Sites[n]) /\ TablesAreIndexed(RenderedPage(Sites[n]))
    BY DEF IndexedSites
  <1> DEFINE s == Sites[n]
  <1>1. {"states", "parts", "main", "summary"} \subseteq DOMAIN s
        /\ s.parts \in Parts /\ s.rendered.parts \in Parts /\ s.main \in Parts /\ s.summary \in Parts
    BY SiteAssumption
  <1>2. TablesAreIndexed(s)
    <2> HIDE DEF s
    <2> QED
      BY <1>1, Indexing
  <1>3. s.parts \o s.rendered.parts \in Parts
    <2> HIDE DEF s
    <2>1. Parts = Seq(Part)
      BY DEF Parts, Part, Said
    <2> QED
      BY <1>1, <2>1, ConcatProperties
  <1>4. /\ RenderedPage(s).parts = s.parts \o s.rendered.parts
        /\ RenderedPage(s).main = s.main /\ RenderedPage(s).summary = s.summary
    <2> HIDE DEF s
    <2> QED
      BY <1>1 DEF RenderedPage
  <1>5. TablesAreIndexed(RenderedPage(s))
    <2> HIDE DEF s
    <2> QED
      BY <1>1, <1>3, <1>4, Indexing
  <1> QED
    BY <1>2, <1>5

(* What a page offers is not lost, whatever the pages of the site are: a    *)
(* product has the best of its sources, and a page that is returned has     *)
(* what its tables and accordions tell indexed by the passes that read them, *)
(* and is empty only if it has no text, an unreadable price or an empty     *)
(* <title> and no other (UniversalExtractor, ProductEntity.merge).          *)
THEOREM NothingIsLost == ScrapeSpec => []NothingOfferedIsLost
  <1>1. Extracting => BestSourceWins
    BY DEF Extracting, Preferred, Offering, Entity, BestSourceWins
  <1>2. Extracting => \A p \in Pages : site[p] \in IndexedSites
    BY EverySiteIsIndexed DEF Extracting
  <1>3. Extracting => NothingOfferedIsLost
    BY <1>1, <1>2 DEF NothingOfferedIsLost
  <1>4. Extracting /\ [ScrapeNext]_scrapeVars => Extracting'
    BY ScrapeStep
  <1> QED
    BY <1>3, <1>4, ScrapeStarts, PTL DEF ScrapeSpec
=============================================================================
