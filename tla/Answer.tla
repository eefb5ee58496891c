-------------------------------- MODULE Answer --------------------------------
(***************************************************************************)
(* How one chat request becomes an answer: the plan made of its query      *)
(* (app/query_intelligence), what governance and risk scoring say of it    *)
(* (app/governance, app/risk), the structured lookup (app/structured/executor.py), retrieval with its      *)
(* keyword boost (app/rag/retriever.py), the agentic loop, the model's     *)
(* messages (app/orchestrator/context_manager.py) and the usage event, in  *)
(* the order of AIOrchestrator.process (app/orchestrator/orchestrator.py). *)
(*                                                                         *)
(* The request has one database session.  A statement that fails aborts    *)
(* the session's transaction, and every later statement fails until the    *)
(* session is rolled back, which some handlers do and some do not.         *)
(***************************************************************************)
EXTENDS Understanding

CONSTANTS
    Queries,        \* queries: text, size in tokens, and what governance and risk find
    Subjects,       \* what the last reply was about, or what a check finds missing: texts
    Chunks,         \* the organization's chunks: source, index, product, store, title
    Views,          \* what a query may match: [Chunks -> [sim, rank, like, terms]]
    Prompts,        \* sizes of an agent's custom prompt, 0 for none
    MemoryFacts,    \* sizes of the profile and memory facts, 0 for none
    Histories,      \* stored turns of a conversation: sequences of roles
    Requests,       \* how many requests the user may have made in five minutes
    MaxLoops,       \* max_loops
    MaxFaults,      \* bound on the faults of the database and the embeddings
    MAX_CONTEXT_TOKENS

ASSUME QueryAssumption ==
    /\ \A q \in Queries :
          /\ q.text \in Seq(STRING) /\ q.size \in Nat /\ {q.jailbreak, q.topic} \subseteq BOOLEAN
          /\ {q.fraud, q.pii, q.leakage} \subseteq Nat
    /\ \A c \in Chunks :
          /\ {c.product, c.store} \subseteq BOOLEAN /\ c.index \in Nat
          /\ \A d \in Chunks : d.index = c.index => d = c
    /\ \A v \in Views, c \in Chunks :
          {v[c].sim, v[c].rank} \subseteq 0..100 /\ {v[c].like, v[c].terms} \subseteq BOOLEAN
    /\ IsFiniteSet(Chunks)
    /\ Histories \subseteq Seq({"user", "assistant"})
    /\ Prompts \union MemoryFacts \subseteq Nat
    /\ Requests \subseteq Nat \ {0}
    /\ {MaxLoops, MaxFaults, MAX_CONTEXT_TOKENS} \subseteq Nat

VARIABLES
    query,
    wording, view,  \* what is searched for, and what it matches
    history,        \* the conversation's turns
    migrated,       \* the table has the fts column
    at,             \* the place in process
    plan, intent,   \* retrieval_plan, and the intent the request is treated as
    tx,             \* the session's transaction
    faults,
    found, results, \* what the vector search found, and what retrieve returns
    context,        \* rag_context, by what it is made of: chunks, or what takes their place
    loop,           \* retrievals that brought something
    messages,
    event, reply,   \* the usage event of record_chat, and the answer
    hit             \* history: a retrieval of this request had matches

inputs  == <<query, history, migrated>>
planned == <<plan, intent>>
search == <<wording, view, found, results, loop, hit>>
ending == <<event, reply>>
vars == <<inputs, at, planned, tx, faults, search, context, messages, ending>>

NoPlan == [made |-> FALSE]

Init ==
    /\ query \in Queries /\ view \in Views /\ wording = <<>>
    /\ history \in Histories /\ migrated \in BOOLEAN
    /\ at = "plan" /\ plan = NoPlan /\ intent = "general"
    /\ tx = "clean" /\ faults = 0
    /\ found = <<>> /\ results = <<>> /\ context = <<>>
    /\ loop = 0
    /\ messages = <<>>
    /\ event = "none" /\ reply = "none"
    /\ hit = FALSE

Go(place) == at' = place
Reply(value) == reply' = value /\ Go("done")

-----------------------------------------------------------------------------
(* The plan of a query. *)
BUSINESS_KEYWORDS  == {<<"product">>, <<"policy">>, <<"return">>, <<"delivery">>}
SUPPORT_KEYWORDS   == {<<"problem">>, <<"broken">>}
PRICING_KEYWORDS   == {<<"price">>, <<"cost">>}
SUMMARY_KEYWORDS   == {<<"summary">>}
REASONING_KEYWORDS == {<<"compare">>, <<"difference">>, <<"vs">>, <<"better">>}
FAQ_KEYWORDS       == {<<"what">>, <<"how">>, <<"why">>, <<"where">>, <<"tell", Space, "me">>}
DetailKeywords     == {<<"tell", Space, "me", Space, "about">>, <<"details">>}
FieldKeywords      == (_PRICE \ {<<"rate">>}) \union (_STOCK \ {<<"stock">>})
AttributeKeywords  == {<<"material">>, <<"fabric">>, <<"size">>, <<"color">>, <<"delivery">>, <<"return">>, <<"refund">>}
LocationKeywords   == {<<"store">>, <<"location">>, <<"chittagong">>, <<"ctg">>}

First(n, s) == SubSeq(s, 1, IF n < Len(s) THEN n ELSE Len(s))

(* What s has at some of its places, in the same order. *)
Kept(s, places) ==
    [n \in 1..Cardinality(places) |->
        s[CHOOSE i \in places : Cardinality({j \in places : j < i}) = n - 1]]

Last4(s)    == SubSeq(s, IF Len(s) > 4 THEN Len(s) - 3 ELSE 1, Len(s))

(* RequestRouter._classify_intent: what is left after the fast path. *)
Classified ==
    LET text == query.text
    IN  FirstOf(<<"business", "support", "pricing", "summary", "reasoning", "question">>,
                [business  |-> Mentions(text, BUSINESS_KEYWORDS),
                 support   |-> Mentions(text, SUPPORT_KEYWORDS),
                 pricing   |-> Mentions(text, PRICING_KEYWORDS),
                 summary   |-> Mentions(text, SUMMARY_KEYWORDS),
                 reasoning |-> Mentions(text, REASONING_KEYWORDS),
                 question  |-> Mentions(text, FAQ_KEYWORDS) \/ Last(text) = "?"])

length == 1 + Cardinality({i \in DOMAIN query.text : query.text[i] = Space})

Agentic == intent \in {"reasoning", "comparison"}

top_k ==
    IF plan.made THEN plan.route.top_k
    ELSE IF Mentions(query.text, DetailKeywords) THEN 8
    ELSE IF length <= 3 THEN 3 ELSE IF length <= 8 THEN 4 ELSE 6

(* A threshold of 0 is taken for none, and the default is used instead. *)
threshold ==
    LET asked == IF plan.made /\ ~Agentic THEN plan.route.threshold ELSE 25
    IN  IF asked = 0 THEN 70 ELSE asked

MakePlan ==
    /\ at = "plan"
    /\ plan' = NoPlan \/ plan' = Planned(query.text)
    /\ intent' = IF plan'.made /\ plan'.intent # "general" THEN plan'.intent ELSE Classified
    /\ Go("govern")
    /\ UNCHANGED <<inputs, tx, faults, search, context, messages, ending>>

-----------------------------------------------------------------------------
(* A statement of the session.  It breaks in an aborted transaction, when    *)
(* the database refuses it, and by a fault.                                  *)
Fault == faults < MaxFaults /\ faults' = faults + 1

Works(refused)  == tx = "clean" /\ ~refused /\ UNCHANGED <<tx, faults>>
Breaks(refused) == IF tx = "aborted" \/ refused THEN UNCHANGED faults ELSE Fault

Rollback   == tx' = "clean"
NoRollback == tx' = "aborted"

-----------------------------------------------------------------------------
(* Governance and risk scoring of the query's text. *)

(* Of the moderated texts those on a sensitive topic are blocked; a toxic    *)
(* word, personal data and the compliance rules change no more than the      *)
(* level of a text that is allowed.                                          *)
Governed == ~query.jailbreak /\ ~query.topic

Govern ==
    /\ at = "govern"
    /\ IF Governed THEN Go("risk") /\ UNCHANGED reply ELSE Reply("blocked")
    /\ UNCHANGED <<inputs, planned, tx, faults, search, context, messages, event>>

UpTo100(points) == IF points < 100 THEN points ELSE 100

Fraud   == UpTo100(25 * query.fraud)
PII     == UpTo100(25 * query.pii)
Leakage == UpTo100(30 * query.leakage)

(* The requests of the user are counted in Redis; if it fails, as none.      *)
Abuse(count) == UpTo100(5 * count)

(* combine_scores: the weights of fraud, abuse, pii and leakage add up to    *)
(* 90 of 100.                                                                *)
Weighted(count) == 30 * Fraud + 25 * Abuse(count) + 20 * PII + 15 * Leakage

Escalates(count) == Weighted(count) >= 70 * 90 \/ Fraud >= 75

ScoreRisk ==
    /\ at = "risk"
    /\ \E count \in Requests \union {0} :
          Go(IF Escalates(count) THEN "escalate" ELSE "gate")
    /\ UNCHANGED <<inputs, planned, tx, faults, search, context, messages, ending>>

(* The answer is the same whether the escalation could be stored or not. *)
Escalate ==
    /\ at = "escalate"
    /\ \/ Works(FALSE)
       \/ Breaks(FALSE) /\ NoRollback
    /\ Reply("escalated")
    /\ UNCHANGED <<inputs, planned, search, context, messages, event>>

CanExecute == plan.made /\ intent \in {"price", "stock"} /\ (plan.entities # {} \/ plan.retrieval # <<>>)

(* The feature gate of retrieval. *)
StartRetrieval ==
    /\ at = "gate"
    /\ \E rag_allowed \in BOOLEAN :
          Go(IF ~rag_allowed THEN "prompt" ELSE IF CanExecute THEN "lookup" ELSE "history")
    /\ UNCHANGED <<inputs, planned, tx, faults, search, context, messages, ending>>

-----------------------------------------------------------------------------
(* The structured lookup: StructuredExecutor.                                *)
IntentNoise == {<<"price">>, <<"how">>, <<"much">>, <<"cost">>, <<"available">>, <<"availability">>,
                <<"stock">>, <<"what">>, <<"the">>, <<"rate">>}

(* Without the marks at its ends. *)
Unmarked(word) ==
    LET kept == {i \in DOMAIN word : word[i] \notin MARKS}
    IN  IF kept = {} THEN <<>> ELSE SubSeq(word, Min(kept), Max(kept))

Long(term) == term # <<>> /\ ~(Len(term) = 1 /\ term[1] \in SHORT)

(* The entities come in the order of their kinds: SKUs, brands, categories,  *)
(* locations and names; those of one kind, which are kept in sets, in any.   *)
EntityOrders ==
    LET kinds == <<{<<p>> : p \in SKUS}, _KNOWN_BRANDS, _CATEGORY_KEYWORDS, _LOCATION_KEYWORDS>>
        names == plan.entities \ UNION Range1(kinds)
        Orders(k) == SetToSeqs(plan.entities \intersect k)
    IN  {a \o b \o c \o d \o e : a \in Orders(kinds[1]), b \in Orders(kinds[2]), c \in Orders(kinds[3]),
                                d \in Orders(kinds[4]), e \in Orders(names)}

(* Four entities, then the words of the retrieval's wording; no term twice,  *)
(* and six of them.                                                          *)
Terms(all) ==
    First(6, Kept(all, {i \in DOMAIN all :
        Long(all[i]) /\ \A j \in 1..(i - 1) : Lower(all[j]) # Lower(all[i])}))

SearchTerms ==
    LET Plain(words) == [i \in DOMAIN words |-> Lower(Unmarked(words[i]))]
        sought == {SelectSeq(Plain(words), LAMBDA w : w \notin IntentNoise) : words \in {Words(plan.retrieval)}}
    IN  {Terms(all) : all \in {First(4, order) \o words : order \in EntityOrders, words \in sought}}

(* The first four are joined by &: with one of several words it does not     *)
(* parse.                                                                    *)
Malformed(terms) == \E i \in DOMAIN terms : i <= 4 /\ Space \in Range1(terms[i])

UseFields == context' = <<"fields">> /\ Go("prompt")

Lookup ==
    /\ at = "lookup"
    /\ \E terms \in SearchTerms :
          IF terms = <<>>
          THEN Go("history") /\ UNCHANGED <<tx, faults, context>>
          ELSE LET refused == Malformed(terms) \/ ~migrated
                   rows    == {c \in Chunks : view[c].terms}
               IN  \/ Works(refused) /\ rows # {} /\ UseFields
                   \/ Works(refused) /\ rows = {} /\ Go("lookup_like") /\ UNCHANGED context
                   \/ Breaks(refused) /\ Rollback /\ Go("lookup_like") /\ UNCHANGED context
    /\ UNCHANGED <<inputs, planned, search, messages, ending>>

LookupLike ==
    /\ at = "lookup_like"
    /\ LET rows == {c \in Chunks : view[c].like}
       IN  \/ Works(FALSE) /\ rows # {} /\ UseFields
           \/ Works(FALSE) /\ rows = {} /\ Go("history") /\ UNCHANGED context
           \/ Breaks(FALSE) /\ Rollback /\ Go("history") /\ UNCHANGED context
    /\ UNCHANGED <<inputs, planned, search, messages, ending>>

-----------------------------------------------------------------------------
(* The wording of the retrieval: the plan's if it changed anything; a query  *)
(* that says little is enriched from the conversation.  Without Redis the    *)
(* request is given up.                                                      *)
BENGALI_PRONOUNS == {<<"_e", "_ti">>, <<"_set", "_i">>}

StopWords == {<<"how">>, <<"much">>, <<"what">>, <<"is">>, <<"the">>, <<"price">>, <<"cost">>, <<"tell">>,
              <<"me">>, <<"about">>, <<"show">>, <<"of">>}

SaysLittle ==
    \/ Mentions(query.text, BENGALI_PRONOUNS)
    \/ LET Says(w) == Lower(w) \notin StopWords /\ ~(Range1(w) \subseteq SHORT \union NUMBERS \union BENGALI)
           words   == Words(SelectSeq(query.text, LAMBDA p : p \notin MARKS))
       IN  Len(SelectSeq(words, Says)) <= 1

Enriched ==
    IF Names(query.text, LocationKeywords)
    THEN {<<"store", Space, "location", Space>> \o query.text}
    ELSE {query.text} \union {subject \o <<Space>> \o query.text : subject \in Subjects}

Word ==
    /\ at = "history"
    /\ IF plan.made /\ plan.transformed THEN wording' = plan.retrieval /\ UNCHANGED view
       ELSE IF SaysLittle /\ history # <<>> THEN wording' \in Enriched /\ view' \in Views
       ELSE wording' = query.text /\ UNCHANGED view
    /\ Go("retrieve")
    /\ UNCHANGED <<inputs, planned, tx, faults, found, results, loop, hit, context, messages, ending>>

NoHistory ==
    /\ at = "history"
    /\ Reply("fallback")
    /\ UNCHANGED <<inputs, planned, tx, faults, search, context, messages, event>>

-----------------------------------------------------------------------------
(* RAGRetriever.retrieve. *)
Hit(c, sim) == [chunk |-> c, sim |-> sim]
IsIn(c, s)  == \E i \in DOMAIN s : s[i].chunk = c

(* Hits by similarity, and by their order in the table. *)
Ranked(hits) ==
    LET Before(g, h) == g.sim > h.sim \/ (g.sim = h.sim /\ g.chunk.index < h.chunk.index)
    IN  [n \in 1..Cardinality(hits) |->
            CHOOSE h \in hits : Cardinality({g \in hits : Before(g, h)}) = n - 1]

Sorted(s) ==    \* by similarity, stable
    LET Before(i) == {j \in DOMAIN s : s[j].sim > s[i].sim \/ (s[j].sim = s[i].sim /\ j < i)}
    IN  [n \in DOMAIN s |-> s[CHOOSE i \in DOMAIN s : Cardinality(Before(i)) = n - 1]]

Similar  == {Hit(c, view[c].sim) : c \in {c \in Chunks : view[c].sim >= threshold}}
Nearest  == First(top_k, Ranked(Similar))

FullText == First(2 * top_k, Ranked({Hit(c, view[c].rank) : c \in {c \in Chunks : view[c].rank > 0}}))
Likes    == First(2 * top_k, Ranked({Hit(c, 45) : c \in {c \in Chunks : view[c].like}}))

Matches == Nearest # <<>> \/ (IF migrated THEN FullText ELSE Likes) # <<>>

AfterPin  == IF Names(wording, LocationKeywords) THEN "location" ELSE "keyword"
AfterNear == IF found' # <<>> /\ Head(found').chunk.product THEN "pin" ELSE AfterPin

Near ==
    /\ at = "retrieve"
    /\ hit' = (hit \/ Matches)
    /\ \/ Works(FALSE) /\ found' = Nearest
       \/ Breaks(FALSE) /\ NoRollback /\ found' = <<>>
    /\ Go(AfterNear)
    /\ UNCHANGED <<inputs, planned, wording, view, results, loop, context, messages, ending>>

NoEmbedding ==
    /\ at = "retrieve"
    /\ Fault
    /\ results' = <<>>
    /\ Go("returned")
    /\ UNCHANGED <<inputs, planned, tx, wording, view, found, loop, hit, context, messages, ending>>

(* All chunks of the best product's page come first. *)
Page == First(20, Ranked({Hit(c, 95) : c \in {c \in Chunks : c.source = Head(found).chunk.source}}))

Pinned(page) == page \o Kept(found, {i \in DOMAIN found : ~IsIn(found[i].chunk, page)})

Pin ==
    /\ at = "pin"
    /\ \/ Works(FALSE) /\ \E page \in {Page} : found' = Pinned(page)
       \/ Breaks(FALSE) /\ Rollback /\ UNCHANGED found
    /\ Go(AfterPin)
    /\ UNCHANGED <<inputs, planned, wording, view, results, loop, hit, context, messages, ending>>

(* The chunks of the store locations come first, in one piece. *)
Located ==
    LET stores == Ranked({Hit(c, 95) : c \in {c \in Chunks : c.store}})
    IN  IF stores = <<>> THEN found
        ELSE <<Head(stores)>> \o Kept(found, {i \in DOMAIN found : ~found[i].chunk.store})

Locate ==
    /\ at = "location"
    /\ \/ Works(FALSE) /\ found' = Located
       \/ Breaks(FALSE) /\ Rollback /\ UNCHANGED found
    /\ Go("keyword")
    /\ UNCHANGED <<inputs, planned, wording, view, results, loop, hit, context, messages, ending>>

Merged(keyword) ==
    found \o Kept(keyword, {i \in DOMAIN keyword : ~IsIn(keyword[i].chunk, found)})

(* One chunk per title, at the first one's place: the most similar one.      *)
SameTitle(s, i) ==
    {j \in DOMAIN s : j = i \/ (s[i].chunk.title # "" /\ s[j].chunk.title = s[i].chunk.title)}

Best(s, i) ==
    s[CHOOSE j \in SameTitle(s, i) : \A k \in SameTitle(s, i) :
          s[j].sim > s[k].sim \/ (s[j].sim = s[k].sim /\ j <= k)]

Deduplicated(s) ==
    LET firsts == {i \in DOMAIN s : \A j \in SameTitle(s, i) : i <= j}
    IN  Kept([i \in DOMAIN s |-> Best(s, i)], firsts)

SimpleField == Names(wording, FieldKeywords)

(* Each list is bound once it is made. *)
Retrieved(matches) ==
    /\ \E keyword \in {matches} : \E merged \in {Merged(keyword)} :
           \E all \in {IF keyword = <<>> THEN found ELSE First(top_k + Len(keyword), Sorted(merged))} :
               results' = IF SimpleField THEN Deduplicated(all) ELSE all
    /\ Go("returned")

Keyword_NoRollback ==    \* mutant: the aborted transaction is left to the ILIKE query
    /\ at = "keyword"
    /\ \/ Works(~migrated) /\ Retrieved(FullText)
       \/ Breaks(~migrated) /\ NoRollback /\ Go("keyword_like") /\ UNCHANGED results
    /\ UNCHANGED <<inputs, planned, wording, view, found, loop, hit, context, messages, ending>>

Keyword ==
    /\ at = "keyword"
    /\ \/ Works(~migrated) /\ Retrieved(FullText)
       \/ Breaks(~migrated) /\ Rollback /\ Go("keyword_like") /\ UNCHANGED results
    /\ UNCHANGED <<inputs, planned, wording, view, found, loop, hit, context, messages, ending>>

KeywordLike ==
    /\ at = "keyword_like"
    /\ \/ Works(FALSE) /\ Retrieved(Likes)
       \/ Breaks(FALSE) /\ NoRollback /\ Retrieved(<<>>)
    /\ UNCHANGED <<inputs, planned, wording, view, found, loop, hit, context, messages, ending>>

-----------------------------------------------------------------------------
(* What the retrieval is used for. *)
Contents == [i \in DOMAIN results |-> "chunk"]

Use ==
    /\ at = "returned" /\ ~Agentic
    /\ context' = Contents
    /\ Go(IF results = <<>> THEN "website" ELSE "prompt")
    /\ UNCHANGED <<inputs, planned, tx, faults, search, messages, ending>>

Website ==
    /\ at = "website"
    /\ \/ Works(FALSE) /\ context' \in {<<"website">>, <<>>}
       \/ Breaks(FALSE) /\ NoRollback /\ UNCHANGED context
    /\ Go("prompt")
    /\ UNCHANGED <<inputs, planned, search, messages, ending>>

(* _agentic_retrieve: what an earlier loop brought is kept when a later one  *)
(* brings nothing.                                                           *)
AfterLoops == IF intent = "comparison" /\ plan.made /\ plan.entities # {} THEN "graph" ELSE "prompt"

Gather_Resets ==    \* mutant: an empty retrieval empties the context
    /\ at = "returned" /\ Agentic
    /\ context' = Contents /\ loop' = loop + 1
    /\ Go(IF results = <<>> \/ loop' >= MaxLoops THEN AfterLoops ELSE "check")
    /\ UNCHANGED <<inputs, planned, tx, faults, wording, view, found, results, hit, messages, ending>>

Gather_Unbounded ==    \* mutant: max_loops is not looked at
    /\ at = "returned" /\ Agentic
    /\ IF results = <<>>
       THEN UNCHANGED context /\ Go(AfterLoops)
       ELSE context' = Contents /\ Go("check")
    /\ UNCHANGED <<inputs, planned, tx, faults, search, messages, ending>>

Gather ==
    /\ at = "returned" /\ Agentic
    /\ IF results = <<>>
       THEN UNCHANGED <<context, loop>> /\ Go(AfterLoops)
       ELSE /\ context' = Contents
            /\ loop' = loop + 1
            /\ Go(IF loop' = MaxLoops THEN AfterLoops ELSE "check")
    /\ UNCHANGED <<inputs, planned, tx, faults, wording, view, found, results, hit, messages, ending>>

(* The small model says yes, names nothing missing or fails; or what it says *)
(* is missing makes another query.                                           *)
Check ==
    /\ at = "check"
    /\ \/ Go(AfterLoops) /\ UNCHANGED <<wording, view>>
       \/ /\ Go("retrieve") /\ view' \in Views
          /\ \E missing \in Subjects : wording' = query.text \o <<Space>> \o missing
    /\ UNCHANGED <<inputs, planned, tx, faults, found, results, loop, hit, context, messages, ending>>

(* GraphReasoner.reason: failures are caught where the chunks are fetched.   *)
Graph ==
    /\ at = "graph"
    /\ Works(FALSE) \/ (Breaks(FALSE) /\ NoRollback)
    /\ context' \in {context, <<"graph">> \o context}
    /\ Go("prompt")
    /\ UNCHANGED <<inputs, planned, search, messages, ending>>

-----------------------------------------------------------------------------
(* ContextManager.build_messages, in tokens. *)
Message(role, what, size) == [role |-> role, what |-> what, size |-> size]

Structured == context = <<"fields">>
AsksField  == Names(query.text, FieldKeywords \union AttributeKeywords)

(* How many chunks, and how much of each. *)
ContextSize ==
    LET least == IF Structured THEN <<1, 150>>
                 ELSE IF AsksField THEN <<2, 200>>
                 ELSE IF Mentions(query.text, DetailKeywords) THEN <<4, 375>>
                 ELSE IF length <= 3 THEN <<2, 125>>
                 ELSE IF length <= 8 THEN <<3, 200>> ELSE <<4, 250>>
    IN  (IF Len(context) < least[1] THEN Len(context) ELSE least[1]) * least[2]

(* The product prompt has a place for the context; any other is followed by  *)
(* it.                                                                       *)
Opening(custom, facts) ==
    LET product == context # <<>> /\ Mentions(query.text, DetailKeywords) /\ ~AsksField /\ ~Structured /\ custom = 0
        prompt  == IF Structured THEN 80 ELSE IF custom > 0 THEN custom ELSE 350
        memory  == IF facts = 0 THEN <<>> ELSE <<Message("system", "facts", facts)>>
    IN  IF product
        THEN <<Message("system", "context", prompt + ContextSize)>> \o memory
        ELSE <<Message("system", "prompt", prompt)>> \o memory
             \o (IF context = <<>> THEN <<>> ELSE <<Message("system", "context", ContextSize)>>)

Asked == <<Message("user", "question", query.size)>>

Prompt ==
    /\ at = "prompt"
    /\ IF Structured
       THEN messages' = Opening(0, 0) \o Asked /\ Go("compress") /\ UNCHANGED <<tx, faults>>
       ELSE /\ \E facts \in MemoryFacts :
                  \/ Works(FALSE) /\ \E custom \in Prompts : messages' = Opening(custom, facts)
                  \/ Breaks(FALSE) /\ NoRollback /\ messages' = Opening(0, facts)
            /\ Go("turns")
    /\ UNCHANGED <<inputs, planned, search, context, ending>>

Turns(stored) ==
    LET last == Last4(stored)
    IN  [i \in DOMAIN last |->
            Message(last[i], "turn", IF last[i] = "assistant" THEN 75 ELSE 25)]

(* The turns come from Redis, or from the table when Redis has none of them. *)
LoadTurns ==
    /\ at = "turns"
    /\ \/ UNCHANGED <<tx, faults>> /\ messages' \in {messages \o Turns(history) \o Asked, messages \o Asked}
       \/ Works(FALSE) /\ messages' = messages \o Turns(history) \o Asked
       \/ Breaks(FALSE) /\ NoRollback /\ messages' = messages \o Asked
    /\ Go("compress")
    /\ UNCHANGED <<inputs, planned, search, context, ending>>

Size(s) == FoldLeft(LAMBDA sum, m : sum + m.size, 0, s)

(* _compress removes the oldest message that is not the system's; without    *)
(* one it goes on removing nothing.                                          *)
Trimmed(s) ==
    LET others == {i \in DOMAIN s : s[i].role # "system"}
    IN  IF others = {} THEN s
        ELSE RemoveAt(s, CHOOSE i \in others : \A j \in others : i <= j)

Compress ==
    /\ at = "compress"
    /\ IF Size(messages) > MAX_CONTEXT_TOKENS /\ Len(messages) > 2
       THEN messages' = Trimmed(messages) /\ UNCHANGED at
       ELSE Go("model") /\ UNCHANGED messages
    /\ UNCHANGED <<inputs, planned, tx, faults, search, context, ending>>

-----------------------------------------------------------------------------
Generate ==
    /\ at = "model"
    /\ \/ Go("meter") /\ UNCHANGED reply
       \/ Reply("fallback")
    /\ UNCHANGED <<inputs, planned, tx, faults, search, context, messages, event>>

(* record_chat: a statement that breaks takes the event with it. *)
Meter ==
    /\ at = "meter"
    /\ \/ Works(FALSE) /\ event' = "recorded"
       \/ Breaks(FALSE) /\ Rollback /\ event' = "lost"
    /\ Reply("answer")
    /\ UNCHANGED <<inputs, planned, search, context, messages>>

-----------------------------------------------------------------------------
Retrieve == Near \/ NoEmbedding \/ Pin \/ Locate \/ Keyword \/ KeywordLike

Next ==
    \/ MakePlan \/ Govern \/ ScoreRisk \/ Escalate
    \/ StartRetrieval \/ Lookup \/ LookupLike \/ Word \/ NoHistory
    \/ Retrieve
    \/ Use \/ Website \/ Gather \/ Check \/ Graph
    \/ Prompt \/ LoadTurns \/ Compress
    \/ Generate \/ Meter

Spec == Init /\ [][Next]_vars

(* The request is one coroutine: it goes on, or fails. *)
FairSpec == Spec /\ WF_vars(Next)
=============================================================================
