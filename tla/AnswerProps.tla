----------------------------- MODULE AnswerProps -----------------------------
(***************************************************************************)
(* What the way from a query to its answer promises, and one thing the     *)
(* compression of the messages does not keep.                              *)
(***************************************************************************)
EXTENDS Answer

Holds(what) == \E i \in DOMAIN messages : messages[i].what = what
SystemSize  == Size(SelectSeq(messages, LAMBDA m : m.role = "system"))

(* When some retrieval of the request matched a chunk, the model is given    *)
(* knowledge: not having the fts column, a full-text query that does not     *)
(* parse, a refined query that matches nothing and the compression of the    *)
(* messages never cost it (_keyword_search, _agentic_retrieve, _compress).   *)
KnowledgeReachesTheModel ==
    at = "model" /\ faults = 0 /\ hit => Holds("context") /\ context # <<"website">>

(* A usage event is lost only if a statement failed that could have worked:  *)
(* what the database refuses by itself is rolled back before the next        *)
(* statement (_keyword_search, StructuredExecutor._lookup_chunks).           *)
RefusedQueriesAreMetered == event = "lost" => faults > 0

(* No name is lost from the wording that is retrieved by: a word of its own  *)
(* that none of the dictionaries has, with its marks and digits or without,  *)
(* stands in it as it is written or transliterated, whatever the passes make *)
(* of the words around it (MultilingualNormalizer's "NEVER delete",          *)
(* QueryRewriter.rewrite, TypoCorrector.correct).  The structured lookup     *)
(* takes only the first terms of that wording (SearchTerms).                 *)
Listed ==
    (UNION {UNION {Range1(entry) : entry \in DOMAIN map} : map \in BengaliMaps \union WordMaps})
    \union (UNION {Range1(PHRASE_REWRITES[i][1]) : i \in DOMAIN PHRASE_REWRITES}) \union MARKS

Spelled(w) == LET d == Digits(w) IN [i \in DOMAIN d |-> IF d[i] \in DOMAIN PHONETIC THEN PHONETIC[d[i]] ELSE d[i]]

(* As it is written, with its digits, and as it is spelled; and each of them *)
(* as the look-ups read it.                                                  *)
Foreign(w) ==
    \A s \in {w, Digits(w), Spelled(w)}, bare \in {BARE, LETTERS} :
        Range1(s \o Lower(s) \o Bared(Lower(s), bare)) \intersect Listed = {}

NamesSurvive ==
    (at = "govern" /\ plan.made) =>
        \A w \in Range1(Words(query.text)) :
            Len(w) = 1 /\ Foreign(w) => Names(plan.retrieval, {Lower(Spelled(w))})

(* Every request is answered or given up, provided that the system's         *)
(* messages fit the budget (AIOrchestrator.process).                         *)
RequestsSettle == <>(at = "done" \/ SystemSize > MAX_CONTEXT_TOKENS)

(* The messages are trimmed "to stay within token budget", and the request   *)
(* goes on.  When three messages of the system exceed the budget by          *)
(* themselves, the loop removes nothing and does not end.                    *)
CompressionEnds == <>(at = "done")
=============================================================================
