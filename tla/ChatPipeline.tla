---------------------------- MODULE ChatPipeline ----------------------------
(***************************************************************************)
(* AIOrchestrator.process (app/orchestrator/orchestrator.py): the path of  *)
(* a chat query through tenant resolution, the conversation quota, the     *)
(* feature gates, the fast path, the semantic cache, governance, risk      *)
(* scoring, the model, metering and the cache write, with many requests    *)
(* being served at once by several server processes.                       *)
(*                                                                         *)
(* A slot is one request being served; Slots bounds how many are served    *)
(* concurrently.  Every await that reaches shared state (Redis, the        *)
(* database, the model) ends a step, so other slots run in between.        *)
(***************************************************************************)
EXTENDS Naturals, FiniteSets

CONSTANTS
    Slots,          \* requests in service at the same time
    Agents,         \* chat agents
    Orgs,           \* organizations
    OrgOf,          \* OrgOf[a]: the organization agent a belongs to
    Queries,        \* queries, as the pipeline tells them apart:
    Path,           \*   Path[q]: "fast", "contextual" or "plain"
    Allowed,        \*   Allowed[q]: the verdict of governance on q
    Risks,          \*   Risks[q]: the risk levels scoring may give q
    Reasoning,      \*   the queries with the reasoning intent
    Agentic,        \*   those, and the ones with the comparison intent
    Text,           \*   Text[q]: near-identical queries have the same text
    ConvLimit,      \* max_conversations_per_month (0: unlimited)
    TokenLimit,     \* max_tokens_per_month (0: unlimited)
    MaxArrivals,    \* bound on the number of requests
    MaxFaults       \* bound on errors and on changes made around the pipeline

Levels   == {"low", "high", "escalate"}
Models   == {"gpt-4o", "gpt-4o-mini"}
Features == {"gpt4o", "cache"}
Plans    == {{"cache"}, {"gpt4o", "cache"}}   \* features of the plans: free, and paid
Statuses == {"billable", "unbillable", "inactive"}

(* A check of retrieved context per loop but the last one. *)
MaxChecks == 2

ASSUME ConstantsAssumption ==
    /\ IsFiniteSet(Slots) /\ Slots # {}
    /\ Agents # {} /\ Queries # {}
    /\ OrgOf \in [Agents -> Orgs]
    /\ Path \in [Queries -> {"fast", "contextual", "plain"}]
    /\ Allowed \in [Queries -> BOOLEAN]
    /\ Risks \in [Queries -> SUBSET Levels \ {{}}]
    /\ Reasoning \subseteq Agentic
    /\ \A q \in Agentic : Path[q] # "fast"
    /\ ConvLimit \in Nat /\ TokenLimit \in Nat
    /\ MaxArrivals \in Nat /\ MaxFaults \in Nat

VARIABLES
    status,     \* status[o]: what resolving the tenant finds
    features,   \* features[o]: the features plan and overrides allow
    redis,      \* redis[o]: the token counter of the month
    cache,      \* semantic cache entries, <<agent, query, model of the answer>>
    pc,         \* where each slot is
    agent, query,   \* the request in the slot
    allow,      \* the features of the organization, read once per request
    model,      \* selected_model; the one in the response, for a cached answer
    seen,       \* the entries semantic_cache.set read before writing
    outcome,    \* what the request will be answered with
    metered,    \* record_chat calls made for the request
    arrivals, faults,   \* towards the bounds
    used,       \* history: used[o]: answers of the model
    unmetered,  \* history: those of them that no record_chat follows
    lost,       \* history: increments Redis refused
    had         \* history: had[o]: the features the organization ever had

request == <<agent, query>>
tenant  == <<status, features>>
bounds  == <<arrivals, faults>>
use     == <<used, unmetered>>
history == <<use, lost, had>>
vars == <<tenant, redis, cache, pc, request, allow, model, seen, outcome, metered,
          bounds, history>>

Places == {"idle", "resolve", "quota", "flags", "fast_llm", "lookup", "govern",
           "risk", "retrieve", "llm", "record", "check_tokens", "add_tokens",
           "store", "write", "finish", "reply"}
Outcomes == {"none", "inactive", "quota_exceeded", "answer", "fast_answer",
             "cached", "blocked", "escalated", "error"}

(* What an idle slot holds: a request's locals end with the request. *)
NoAgent == CHOOSE a \in Agents : TRUE
NoQuery == CHOOSE q \in Queries : TRUE

Init ==
    /\ status \in [Orgs -> Statuses]
    /\ features \in [Orgs -> Plans]
    /\ redis = [o \in Orgs |-> 0]
    /\ cache = {}
    /\ pc = [s \in Slots |-> "idle"]
    /\ agent = [s \in Slots |-> NoAgent]
    /\ query = [s \in Slots |-> NoQuery]
    /\ allow = [s \in Slots |-> {}]
    /\ model = [s \in Slots |-> "gpt-4o-mini"]
    /\ seen = [s \in Slots |-> {}]
    /\ outcome = [s \in Slots |-> "none"]
    /\ metered = [s \in Slots |-> 0]
    /\ arrivals = 0 /\ faults = 0
    /\ used = [o \in Orgs |-> 0]
    /\ unmetered = [o \in Orgs |-> 0]
    /\ lost = [o \in Orgs |-> 0]
    /\ had = features

-----------------------------------------------------------------------------
Org(s) == OrgOf[agent[s]]

Go(s, place) == pc' = [pc EXCEPT ![s] = place]

(* The request is going to be answered with this, and nothing else. *)
Answer(s, what) ==
    /\ Go(s, "reply")
    /\ outcome' = [outcome EXCEPT ![s] = what]

Add(counters, o, n) == [counters EXCEPT ![o] = @ + n]

(* model_router.select, then the plan gate on GPT-4o. *)
Select(q, level)   == IF level = "high" \/ q \in Reasoning THEN "gpt-4o" ELSE "gpt-4o-mini"
Gate(m, permitted) == IF m = "gpt-4o" /\ "gpt4o" \notin permitted THEN "gpt-4o-mini" ELSE m

(* Queries that are looked up in, and stored in, the semantic cache. *)
Cacheable(q, permitted) == Path[q] = "plain" /\ "cache" \in permitted

(* A caller hands over a query. *)
Arrive(s) ==
    /\ pc[s] = "idle"
    /\ arrivals < MaxArrivals
    /\ arrivals' = arrivals + 1
    /\ \E a \in Agents, q \in Queries :
          /\ agent' = [agent EXCEPT ![s] = a]
          /\ query' = [query EXCEPT ![s] = q]
    /\ Go(s, "resolve")
    /\ UNCHANGED <<tenant, redis, cache, allow, model, seen, outcome, metered,
                   faults, history>>

(* 1. Tenant.  An inactive organization is not found: resolve raises. *)
Resolve(s) ==
    /\ pc[s] = "resolve"
    /\ \/ status[Org(s)] = "billable" /\ Go(s, "quota") /\ UNCHANGED outcome
       \/ status[Org(s)] = "unbillable" /\ Answer(s, "inactive")
       \/ status[Org(s)] = "inactive" /\ Answer(s, "error")
    /\ UNCHANGED <<tenant, redis, cache, request, allow, model, seen, metered, bounds, history>>

(* 2. Conversation quota.  No caller of process passes is_new_conversation, *)
(* so neither this check nor record_chat ever increments the counter: it    *)
(* is read, and no limit is ever reached.                                   *)
ConversationsCounted == 0
Full(counter, limit) == limit > 0 /\ counter >= limit

CheckQuota(s) ==
    /\ pc[s] = "quota"
    /\ IF Full(ConversationsCounted, ConvLimit)
       THEN Answer(s, "quota_exceeded")
       ELSE Go(s, "flags") /\ UNCHANGED outcome
    /\ UNCHANGED <<tenant, redis, cache, request, allow, model, seen, metered, bounds, history>>

(* 3-4. Feature flags, intent, and the first model selection. *)
Flags(s) ==
    /\ pc[s] = "flags"
    /\ allow' = [allow EXCEPT ![s] = features[Org(s)]]
    /\ model' = [model EXCEPT ![s] = Gate(Select(query[s], "low"), features[Org(s)])]
    /\ \/ Path[query[s]] = "fast" /\ Go(s, "fast_llm")
       \/ Cacheable(query[s], features[Org(s)]) /\ Go(s, "lookup")
       \/ /\ Path[query[s]] # "fast" /\ ~Cacheable(query[s], features[Org(s)])
          /\ Go(s, "govern")
    /\ UNCHANGED <<tenant, redis, cache, request, seen, outcome, metered, bounds, history>>

(* 5a. Fast path: the model answers, and the request returns.  Neither      *)
(* governance nor risk scoring sees it, and nothing meters it.              *)
FastLLM(s) ==
    /\ pc[s] = "fast_llm"
    /\ Answer(s, "fast_answer")
    /\ used' = Add(used, Org(s), 1)
    /\ unmetered' = Add(unmetered, Org(s), 1)
    /\ UNCHANGED <<tenant, redis, cache, request, allow, model, seen, metered, bounds, lost, had>>

(* 5b. Cache: a near-identical question to the same agent is a hit, and the *)
(* response is the one that was stored, the model that made it included.    *)
Hits(s) == {e \in cache : e[1] = agent[s] /\ Text[e[2]] = Text[query[s]]}
Lookup_Unmetered(s) ==    \* mutant: a cache hit returns before record_chat
    /\ pc[s] = "lookup"
    /\ \/ \E e \in Hits(s) : Answer(s, "cached") /\ model' = [model EXCEPT ![s] = e[3]]
       \/ Hits(s) = {} /\ Go(s, "govern") /\ UNCHANGED <<outcome, model>>
    /\ UNCHANGED <<tenant, redis, cache, request, allow, seen, metered, bounds, history>>

Lookup(s) ==
    /\ pc[s] = "lookup"
    /\ \/ \E e \in Hits(s) :
             /\ Go(s, "record")
             /\ outcome' = [outcome EXCEPT ![s] = "cached"]
             /\ model' = [model EXCEPT ![s] = e[3]]
       \/ Hits(s) = {} /\ Go(s, "govern") /\ UNCHANGED <<outcome, model>>
    /\ UNCHANGED <<tenant, redis, cache, request, allow, seen, metered, bounds, history>>

Govern_FlagsOnly(s) ==    \* mutant: a violation is logged, the request goes on
    /\ pc[s] = "govern"
    /\ Go(s, "risk")
    /\ UNCHANGED <<tenant, redis, cache, request, allow, model, seen, outcome, metered, bounds, history>>

(* 6. Governance. *)
Govern(s) ==
    /\ pc[s] = "govern"
    /\ IF Allowed[query[s]] THEN Go(s, "risk") /\ UNCHANGED outcome ELSE Answer(s, "blocked")
    /\ UNCHANGED <<tenant, redis, cache, request, allow, model, seen, metered, bounds, history>>

ScoreRisk_Ungated(s) ==    \* mutant: the second selection skips the plan gate
    /\ pc[s] = "risk"
    /\ \/ /\ "escalate" \in Risks[query[s]]
          /\ Answer(s, "escalated")
          /\ UNCHANGED model
       \/ /\ \E level \in Risks[query[s]] \ {"escalate"} :
                model' = [model EXCEPT ![s] = Select(query[s], level)]
          /\ Go(s, "retrieve")
          /\ UNCHANGED outcome
    /\ UNCHANGED <<tenant, redis, cache, request, allow, seen, metered, bounds, history>>

(* 7. Risk: escalate, or select the model again with the risk level. *)
ScoreRisk(s) ==
    /\ pc[s] = "risk"
    /\ \/ /\ "escalate" \in Risks[query[s]]
          /\ Answer(s, "escalated")
          /\ UNCHANGED model
       \/ /\ \E level \in Risks[query[s]] \ {"escalate"} :
                model' = [model EXCEPT ![s] = Gate(Select(query[s], level), allow[s])]
          /\ Go(s, "retrieve")
          /\ UNCHANGED outcome
    /\ UNCHANGED <<tenant, redis, cache, request, allow, seen, metered, bounds, history>>

(* 8. Retrieval.  For an agentic query a model is asked whether the context *)
(* is enough, after each loop but the last: nothing meters these answers.   *)
Retrieve(s) ==
    /\ pc[s] = "retrieve"
    /\ \E checks \in 0..(IF query[s] \in Agentic THEN MaxChecks ELSE 0) :
          /\ used' = Add(used, Org(s), checks)
          /\ unmetered' = Add(unmetered, Org(s), checks)
    /\ Go(s, "llm")
    /\ UNCHANGED <<tenant, redis, cache, request, allow, model, seen, outcome, metered,
                   bounds, lost, had>>

(* 9-11. Context, the model's answer, the response. *)
CallModel(s) ==
    /\ pc[s] = "llm"
    /\ Go(s, "record")
    /\ outcome' = [outcome EXCEPT ![s] = "answer"]
    /\ used' = Add(used, Org(s), 1)
    /\ UNCHANGED <<tenant, redis, cache, request, allow, model, seen, metered, bounds,
                   unmetered, lost, had>>

-----------------------------------------------------------------------------
(* 12. record_chat counts the tokens, none for a cached answer: see         *)
(* Metering for its transaction.                                            *)
AfterRecord(s) == IF outcome[s] = "cached" THEN "reply" ELSE "check_tokens"

Record_Free(s) ==    \* mutant: the tokens of the answer are not passed
    /\ pc[s] = "record"
    /\ metered' = [metered EXCEPT ![s] = @ + 1]
    /\ Go(s, AfterRecord(s))
    /\ UNCHANGED <<tenant, redis, cache, request, allow, model, seen, outcome, bounds, history>>

Record(s) ==
    /\ pc[s] = "record"
    /\ metered' = [metered EXCEPT ![s] = @ + 1]
    /\ redis' = IF outcome[s] = "cached" THEN redis ELSE Add(redis, Org(s), 1)
    /\ Go(s, AfterRecord(s))
    /\ UNCHANGED <<tenant, cache, request, allow, model, seen, outcome, bounds, history>>

(* The token quota is checked after the fact and the verdict ignored; the  *)
(* check counts the tokens once more while there are tokens left.          *)
CheckTokens(s) ==
    /\ pc[s] = "check_tokens"
    /\ Go(s, IF TokenLimit > 0 /\ ~Full(redis[Org(s)], TokenLimit) THEN "add_tokens" ELSE "store")
    /\ UNCHANGED <<tenant, redis, cache, request, allow, model, seen, outcome, metered, bounds, history>>

AddTokens(s) ==
    /\ pc[s] = "add_tokens"
    /\ redis' = Add(redis, Org(s), 1)
    /\ Go(s, "store")
    /\ UNCHANGED <<tenant, cache, request, allow, model, seen, outcome, metered, bounds, history>>

(* 13. semantic_cache.set reads the agent's entries, embeds the query, and *)
(* writes the entries back with one more.                                  *)
Store(s) ==
    /\ pc[s] = "store"
    /\ IF Cacheable(query[s], allow[s])
       THEN Go(s, "write") /\ seen' = [seen EXCEPT ![s] = {e \in cache : e[1] = agent[s]}]
       ELSE Go(s, "finish") /\ UNCHANGED seen
    /\ UNCHANGED <<tenant, redis, cache, request, allow, model, outcome, metered, bounds, history>>

Write(s) ==
    /\ pc[s] = "write"
    /\ cache' = {e \in cache : e[1] # agent[s]} \union seen[s] \union {<<agent[s], query[s], model[s]>>}
    /\ seen' = [seen EXCEPT ![s] = {}]
    /\ Go(s, "finish")
    /\ UNCHANGED <<tenant, redis, request, allow, model, outcome, metered, bounds, history>>

(* Profile update and cost tracking (a task sent to the broker). *)
Finish(s) ==
    /\ pc[s] = "finish"
    /\ Go(s, "reply")
    /\ UNCHANGED <<tenant, redis, cache, request, allow, model, seen, outcome, metered, bounds, history>>

(* The caller has the response; the slot is free. *)
Reply(s) ==
    /\ pc[s] = "reply"
    /\ Go(s, "idle")
    /\ agent' = [agent EXCEPT ![s] = NoAgent]
    /\ query' = [query EXCEPT ![s] = NoQuery]
    /\ allow' = [allow EXCEPT ![s] = {}]
    /\ model' = [model EXCEPT ![s] = "gpt-4o-mini"]
    /\ outcome' = [outcome EXCEPT ![s] = "none"]
    /\ metered' = [metered EXCEPT ![s] = 0]
    /\ UNCHANGED <<tenant, redis, cache, seen, bounds, history>>

-----------------------------------------------------------------------------
(* An error, or a change from outside, within the bound. *)
Fault == faults < MaxFaults /\ faults' = faults + 1

(* An exception anywhere but in the parts that swallow theirs ends in the  *)
(* safe fallback: Redis, database, model, or the task broker at the end.   *)
Raises == {"resolve", "quota", "flags", "fast_llm", "govern", "risk", "retrieve",
           "llm", "check_tokens", "finish"}
Error(s) ==
    /\ Fault
    /\ pc[s] \in Raises
    /\ Answer(s, "error")
    /\ UNCHANGED <<tenant, redis, cache, request, allow, model, seen, metered,
                   arrivals, history>>

(* A failing increment is logged and swallowed, and the request goes on. *)
RecordFails(s) ==
    /\ Fault
    /\ \/ /\ pc[s] = "record"
          /\ metered' = [metered EXCEPT ![s] = @ + 1]
          /\ lost' = IF outcome[s] = "cached" THEN lost ELSE Add(lost, Org(s), 1)
          /\ Go(s, AfterRecord(s))
       \/ pc[s] = "add_tokens" /\ Go(s, "store") /\ UNCHANGED <<metered, lost>>
    /\ UNCHANGED <<tenant, redis, cache, request, allow, model, seen, outcome,
                   arrivals, use, had>>

(* A cache error on the way in is a miss, on the way out a write not made. *)
CacheFails(s) ==
    /\ Fault
    /\ \/ pc[s] = "lookup" /\ Go(s, "govern") /\ UNCHANGED seen
       \/ pc[s] \in {"store", "write"} /\ Go(s, "finish") /\ seen' = [seen EXCEPT ![s] = {}]
    /\ UNCHANGED <<tenant, redis, cache, request, allow, model, outcome, metered,
                   arrivals, history>>

-----------------------------------------------------------------------------
(* Around the pipeline: billing and administrators change the status of    *)
(* the organization and its features; an agent's entries expire or are     *)
(* cleared (DELETE /knowledge/cache).                                      *)
ChangeStatus(o) ==
    /\ Fault
    /\ \E st \in Statuses : status' = [status EXCEPT ![o] = st]
    /\ UNCHANGED <<features, redis, cache, pc, request, allow, model, seen, outcome, metered,
                   arrivals, history>>

ChangeFeatures(o) ==
    /\ Fault
    /\ \E fs \in SUBSET Features :
          /\ features' = [features EXCEPT ![o] = fs]
          /\ had' = [had EXCEPT ![o] = @ \union fs]
    /\ UNCHANGED <<status, redis, cache, pc, request, allow, model, seen, outcome, metered,
                   arrivals, use, lost>>

ClearCache(a) ==
    /\ Fault
    /\ cache' = {e \in cache : e[1] # a}
    /\ UNCHANGED <<tenant, redis, pc, request, allow, model, seen, outcome, metered,
                   arrivals, history>>

Step(s) ==
    \/ Resolve(s) \/ CheckQuota(s) \/ Flags(s) \/ FastLLM(s) \/ Lookup(s)
    \/ Govern(s) \/ ScoreRisk(s) \/ Retrieve(s) \/ CallModel(s) \/ Record(s)
    \/ CheckTokens(s) \/ AddTokens(s) \/ Store(s) \/ Write(s) \/ Finish(s) \/ Reply(s)

Failure(s) == Error(s) \/ RecordFails(s) \/ CacheFails(s)

Environment ==
    \/ \E o \in Orgs : ChangeStatus(o) \/ ChangeFeatures(o)
    \/ \E a \in Agents : ClearCache(a)

Next ==
    \/ \E s \in Slots : Arrive(s) \/ Step(s) \/ Failure(s)
    \/ Environment

Spec == Init /\ [][Next]_vars
=============================================================================
