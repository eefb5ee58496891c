------------------------------ MODULE Extraction ------------------------------
(***************************************************************************)
(* What becomes of a page a crawl fetches: WebScraper.scrape               *)
(* (app/crawler/scraper.py) with its chain of fetchers and the browser pool *)
(* the pages share, and, for a Shopify product, the entity merged from     *)
(* several sources (app/crawler/entity_model.py) by a loop that goes on    *)
(* extracting while the product is incomplete                              *)
(* (app/crawler/completeness_engine.py).                                   *)
(*                                                                         *)
(* The pages are coroutines of one event loop and share one domain.        *)
(***************************************************************************)
EXTENDS PageText

CONSTANTS
    Pages,          \* the pages being fetched
    Sites,          \* by name, what a page may be: see SiteAssumption
    PoolSize,       \* browsers in the pool
    MaxDeepPasses,
    Threshold       \* COMPLETENESS_THRESHOLD in thousandths

SOURCE_PRIORITY ==
    [shopify_json |-> 100, graphql |-> 90, xhr_api |-> 80, jsonld |-> 70,
     hydration |-> 60, dom |-> 40, llm |-> 10]

(* Two variants of one document have different SKUs, or none. *)
NodeShape(node) ==
    /\ node.length \in Nat /\ node.bad \in BOOLEAN
    /\ \A v \in node.variants : v.complete \in BOOLEAN
    /\ \A v, w \in node.variants : v.sku = w.sku /\ v.sku # "" => v = w

(* The texts of a page: a line that is longer than any limit counts as more *)
(* lines than one.                                                          *)
LongestLine == 2000

Kinds == {"text", "panel", "table", "details", "faq"}

Tags == {"row", "cell", "question", "answer", "other"}

Parts == Seq([kind : Kinds, in : SUBSET STRING, links : Nat,
              lines : Seq([what : STRING, length : 1..LongestLine, tag : Tags])])

(* What the shop's API, the page and the rendered page hold, and the        *)
(* responses the page loads; "grows" says rendering makes it longer.        *)
ASSUME SiteAssumption ==
    /\ PoolSize \in Nat \ {0} /\ {MaxDeepPasses, Threshold} \subseteq Nat
    /\ IsFiniteSet(Pages)
    /\ \A n \in DOMAIN Sites : LET s == Sites[n] IN
          /\ {"states", "parts", "main", "summary"} \subseteq DOMAIN s
          /\ {s.product, s.grows} \subseteq BOOLEAN
          /\ NodeShape(s.json) /\ ~s.json.bad
          /\ \A i \in DOMAIN s.states : NodeShape(s.states[i].node)
          /\ \A i \in DOMAIN s.rendered.states : NodeShape(s.rendered.states[i].node)
          /\ \A i \in DOMAIN s.blocks : NodeShape(s.blocks[i].node)
          /\ \A r \in DOMAIN s.responses : NodeShape(s.responses[r].node)
          /\ {s.parts, s.rendered.parts, s.main, s.summary} \subseteq Parts

(* The documents a product is read from, those of the page and of the shop  *)
(* and the responses, each an offer under the name of a source.              *)
Document(s, o) ==
    CASE o = "shopify_json"       -> [source |-> "shopify_json", offer |-> ShopifyJson(s.json)]
      [] o = "jsonld"             -> [source |-> "jsonld", offer |-> Jsonld(s.blocks)]
      [] o = "hydration"          -> [source |-> "hydration", offer |-> Hydration(s.states)]
      [] o = "rendered_hydration" -> [source |-> "hydration", offer |-> Hydration(s.rendered.states)]
      [] o = "dom"                -> [source |-> "dom", offer |-> Metafields(s.sections)]
      [] o = "rendered_dom"       -> [source |-> "dom", offer |-> Metafields(s.rendered.sections)]
      [] OTHER                    -> Classify(s.responses[o])

Documents ==
    [n \in DOMAIN Sites |->
        [o \in {"shopify_json", "jsonld", "hydration", "rendered_hydration", "dom", "rendered_dom"}
               \union DOMAIN Sites[n].responses |-> Document(Sites[n], o)]]

RenderedPage(s) == [s EXCEPT !.states = s.rendered.states, !.parts = @ \o s.rendered.parts]

(* The passes that read each site, as fetched and as rendered. *)
Passes         == [n \in DOMAIN Sites |-> Extract(Sites[n]).pass]
RenderedPasses == [n \in DOMAIN Sites |-> Extract(RenderedPage(Sites[n])).pass]

VARIABLES
    site,       \* the name of what each page is
    use_browser,    \* use_browser_if_needed, the crawl's render budget
    html,       \* whether a product's HTML page was fetched
    stage,      \* where the page's coroutine is
    entity,     \* entity[p][f]: the document whose value the field f holds
    variants,   \* the variants of p's entity
    passes, tried,  \* the deep extraction loop's counter and strategies
    result,     \* what scrape returned
    pool,       \* the browser pool: _initialized and _available
    failed,     \* _failed_domains has the domain
    merged      \* entity.sources_used and raw_sources

product == <<entity, variants, merged>>
loop    == <<passes, tried>>
browser == <<pool, failed>>
scrapeVars == <<site, use_browser, html, stage, product, loop, result, browser>>

Page(p)      == Sites[site[p]]
Offer(p, o)  == Documents[site[p]][o].offer
Source(p, o) == Documents[site[p]][o].source

ScrapeInit ==
    /\ site \in [Pages -> DOMAIN Sites]
    /\ use_browser \in [Pages -> BOOLEAN]
    /\ html = [p \in Pages |-> FALSE]
    /\ stage = [p \in Pages |-> "new"]
    /\ entity = [p \in Pages |-> [f \in Fields |-> "none"]]
    /\ variants = [p \in Pages |-> {}]
    /\ passes = [p \in Pages |-> 0]
    /\ tried = [p \in Pages |-> {}]
    /\ result = [p \in Pages |-> "pending"]
    /\ pool = "unborn" /\ failed = FALSE
    /\ merged = [p \in Pages |-> {}]

-----------------------------------------------------------------------------
(* The entity. *)
PriorityOf(p, o) == IF o = "none" THEN -1 ELSE SOURCE_PRIORITY[Source(p, o)]

MergeFields_Last(p, old, o, data) ==    \* mutant: the later source overwrites
    [f \in Fields |-> IF f \in data.fields THEN o ELSE old[f]]

MergeFields(p, old, o, data) ==
    [f \in Fields |->
        IF f \in data.fields /\ PriorityOf(p, o) > PriorityOf(p, old[f]) THEN o ELSE old[f]]

Rank(v) == SOURCE_PRIORITY[v.from]

ProductVariants(data, source) ==
    {[id |-> v.id, sku |-> v.sku, complete |-> v.complete, from |-> source] : v \in data.variants}

MergeVariants_Replaces(old, source, data) ==    \* mutant: the new list replaces the old one
    IF data.variants = {} THEN old ELSE ProductVariants(data, source)

(* existing_by_sku holds the variants that have a SKU: the others are not in *)
(* the list that replaces entity.variants.                                   *)
MergeVariants(old, source, data) ==
    LET new      == ProductVariants(data, source)
        existing == {v \in old : v.sku # ""}
        taken    == {n \in new : n.sku = "" \/ \A v \in existing : v.sku = n.sku => Rank(n) >= Rank(v)}
        kept     == {v \in existing : \A n \in taken : n.sku # v.sku}
    IN  IF new = {} THEN old ELSE kept \union taken

(* An offer merged into an entity e; an empty one (None) is not merged.      *)
MergeInto(p, e, o) ==
    LET data == Offer(p, o)
    IN  IF data = NoOffer THEN e
        ELSE [fields   |-> MergeFields(p, e.fields, o, data),
              variants |-> MergeVariants(e.variants, Source(p, o), data),
              merged   |-> e.merged \union {o}]

Entity(p) == [fields |-> entity[p], variants |-> variants[p], merged |-> merged[p]]

Becomes(p, e) ==
    /\ entity' = [entity EXCEPT ![p] = e.fields]
    /\ variants' = [variants EXCEPT ![p] = e.variants]
    /\ merged' = [merged EXCEPT ![p] = e.merged]

-----------------------------------------------------------------------------
(* CompletenessScore of p's entity. *)
Scored(p) ==
    [fields   |-> {f \in Fields : entity[p][f] # "none"},
     variants |-> variants[p],
     length   |-> IF entity[p]["description"] = "none" THEN 0
                  ELSE Offer(p, entity[p]["description"]).length]

IsComplete(p) == Score(Scored(p)) >= Threshold

(* The strategies for the weak dimensions, the LLM last.                     *)
Advised(p) ==
    LET e == Scored(p)
        If(weak, strategies) == IF weak THEN strategies ELSE <<>>
    IN  If(Has(e, Core) < 3, <<"hydration_state", "jsonld_reparse">>)
     \o If(SkuCoverage(e) < 500 \/ VariantCoverage(e) < 800,
           <<"network_intercept", "shopify_variants_api">>)
     \o If(Has(e, Attributes) < 2, <<"dom_deep_scan", "network_intercept">>)
     \o If(Has(e, Logistics) < 1, <<"dom_deep_scan">>)
     \o If(ContentQuality(e) < 500, <<"browser_render">>)
     \o <<"llm_fallback">>

Left(p) == SelectSeq(Advised(p), LAMBDA s : s \notin tried[p])

-----------------------------------------------------------------------------
(* scrape: from the URL to a document. *)
Go(p, place) == stage' = [stage EXCEPT ![p] = place]

Return(p, value) ==
    /\ result' = [result EXCEPT ![p] = value]
    /\ Go(p, "done")

Scrape(p) ==
    /\ stage[p] = "new"
    /\ Go(p, IF Page(p).product THEN "json" ELSE "static")
    /\ UNCHANGED <<site, use_browser, html, product, loop, result, browser>>

(* /products/<handle>.json answers with a product, or the page is fetched as *)
(* any other.                                                                *)
ProductJson(p) ==
    /\ stage[p] = "json"
    /\ \/ Go(p, "product_html")
       \/ Go(p, "static")
    /\ UNCHANGED <<site, use_browser, html, product, loop, result, browser>>

(* _build_shopify_entity.  A hydration state that cannot be normalized       *)
(* raises, and what the JSON offered is dropped with the exception.          *)
ProductHtml(p) ==
    /\ stage[p] = "product_html"
    /\ \E got \in BOOLEAN :
          IF got /\ Raises(Page(p).states)
          THEN Go(p, "static") /\ UNCHANGED <<html, product>>
          ELSE LET json == MergeInto(p, Entity(p), "shopify_json")
               IN  /\ html' = [html EXCEPT ![p] = got]
                   /\ Becomes(p, IF got THEN MergeInto(p, MergeInto(p, json, "hydration"), "dom")
                                        ELSE json)
                   /\ Go(p, "deep")
    /\ UNCHANGED <<site, use_browser, loop, result, browser>>

(* _fetch_static: a document; a block or a reset, which starts the fallbacks *)
(* while the crawl may still render; a body that cannot be decoded, asked    *)
(* for again without compression; or nothing (304, other statuses, no HTML,  *)
(* a timeout).                                                               *)
Static(p) ==
    /\ stage[p] = "static"
    /\ \/ Go(p, "parse") /\ UNCHANGED result
       \/ Go(p, "identity") /\ UNCHANGED result
       \/ use_browser[p] /\ Go(p, "render") /\ UNCHANGED result
       \/ Return(p, "nothing")
    /\ UNCHANGED <<site, use_browser, html, product, loop, browser>>

Identity(p) ==
    /\ stage[p] = "identity"
    /\ \/ Go(p, "parse") /\ UNCHANGED result
       \/ Return(p, "nothing")
    /\ UNCHANGED <<site, use_browser, html, product, loop, browser>>

(* The fallbacks after the browser: curl_cffi, then HTTP/2.                  *)
Curl(p) ==
    /\ stage[p] = "curl"
    /\ \/ Go(p, "parse")
       \/ Go(p, "h2")
    /\ UNCHANGED <<site, use_browser, html, product, loop, result, browser>>

HTTP2(p) ==
    /\ stage[p] = "h2"
    /\ \/ Go(p, "parse") /\ UNCHANGED result
       \/ Return(p, "nothing")
    /\ UNCHANGED <<site, use_browser, html, product, loop, browser>>

Parse(p) ==
    /\ stage[p] = "parse"
    /\ Return(p, Passes[site[p]])
    /\ UNCHANGED <<site, use_browser, html, product, loop, browser>>

-----------------------------------------------------------------------------
(* BrowserPool.render, for the fallback and for the browser_render strategy. *)
ForProduct(p) == merged[p] # {}

Unrendered(p) == IF ForProduct(p) THEN "deep" ELSE "curl"

(* _initialized is set before the browsers are launched: until they are, the *)
(* pool is taken for unavailable.                                            *)
AskPool(p) ==
    /\ stage[p] = "render"
    /\ \/ /\ failed \/ pool \in {"starting", "unavailable"}
          /\ Go(p, Unrendered(p))
          /\ UNCHANGED pool
       \/ /\ ~failed /\ pool = "unborn"
          /\ pool' = "starting"
          /\ Go(p, "starting")
       \/ /\ ~failed /\ pool = "ready"
          /\ Go(p, "slot")
          /\ UNCHANGED pool
    /\ UNCHANGED <<site, use_browser, html, product, loop, result, failed>>

PoolStarts(p) ==
    /\ stage[p] = "starting"
    /\ \/ pool' = "ready" /\ Go(p, "slot")
       \/ pool' = "unavailable" /\ Go(p, Unrendered(p))
    /\ UNCHANGED <<site, use_browser, html, product, loop, result, failed>>

TakeSlot_Leaks(p) ==    \* mutant: a failed rendering does not release its slot
    /\ stage[p] = "slot"
    /\ Cardinality({q \in Pages : stage[q] = "rendering"}) + (IF failed THEN 1 ELSE 0) < PoolSize
    /\ Go(p, "rendering")
    /\ UNCHANGED <<site, use_browser, html, product, loop, result, browser>>

TakeSlot(p) ==
    /\ stage[p] = "slot"
    /\ Cardinality({q \in Pages : stage[q] = "rendering"}) < PoolSize
    /\ Go(p, "rendering")
    /\ UNCHANGED <<site, use_browser, html, product, loop, result, browser>>

(* What the loop makes of a rendered page: it must be longer than the HTML   *)
(* the loop had, and a malformed state raises before anything is merged.     *)
WithRendered(p) ==
    IF (html[p] /\ ~Page(p).grows) \/ Raises(Page(p).rendered.states) THEN Entity(p)
    ELSE MergeInto(p, MergeInto(p, Entity(p), "rendered_hydration"), "rendered_dom")

Rendered(p) ==
    /\ stage[p] = "rendering"
    /\ \/ /\ ForProduct(p)
          /\ Becomes(p, WithRendered(p))
          /\ Go(p, "deep")
          /\ UNCHANGED <<result, failed>>
       \/ /\ ~ForProduct(p)
          /\ Return(p, RenderedPasses[site[p]])
          /\ UNCHANGED <<product, failed>>
       \/ /\ failed' = TRUE
          /\ Go(p, Unrendered(p))
          /\ UNCHANGED <<product, result>>
    /\ UNCHANGED <<site, use_browser, html, loop, pool>>

-----------------------------------------------------------------------------
(* DeepExtractionLoop.run. *)
MayDeepen(p) ==
    /\ stage[p] = "deep"
    /\ ~IsComplete(p)
    /\ passes[p] < MaxDeepPasses
    /\ Left(p) # <<>>

NextPass(p, strategy) ==
    /\ strategy = Head(Left(p))
    /\ passes' = [passes EXCEPT ![p] = @ + 1]
    /\ tried' = [tried EXCEPT ![p] = @ \union {strategy}]

(* What each strategy may make of the entity; one that raises is given up.  *)
Hydrate(p, e) ==
    IF html[p] /\ ~Raises(Page(p).states) THEN MergeInto(p, e, "hydration") ELSE e

Reparse(p, e) == IF html[p] THEN MergeInto(p, e, "jsonld") ELSE e

Scan(p, e) == IF html[p] THEN MergeInto(p, e, "dom") ELSE e

(* The browser captures some of the responses before its time is up; of the *)
(* captured ones the richest of each source are kept, and merged in the     *)
(* order in which their sources were first seen.                            *)
Kept(p, captured, source) ==
    LET of == {r \in captured : Source(p, r) = source /\ Offer(p, r) # NoOffer}
    IN  {r \in of : \A q \in of : Richness(Offer(p, r)) >= Richness(Offer(p, q))}

Intercept(p, e) ==
    UNION {LET graphql == Kept(p, captured, "graphql")
               api     == Kept(p, captured, "xhr_api")
               Merge(first, second) ==
                   {MergeInto(p, MergeInto(p, e, a), b) : a \in first, b \in second}
           IN  IF graphql = {} \/ api = {}
               THEN {MergeInto(p, e, r) : r \in graphql \union api}
                    \union (IF graphql \union api = {} THEN {e} ELSE {})
               ELSE Merge(graphql, api) \union Merge(api, graphql)
           : captured \in SUBSET DOMAIN Page(p).responses}

AskForVariants(p, e) == {e, MergeInto(p, e, "shopify_json")}

(* The LLM is not asked about an entity that is not poor or a page that is  *)
(* not long, and its prompt cannot be formatted, as its braces are taken    *)
(* for fields: the strategy changes nothing.                                *)
AskLLM(p, e) == e

(* Rendering is the other strategy: it waits for a browser.                  *)
Strategies == {"hydration_state", "jsonld_reparse", "network_intercept", "shopify_variants_api",
               "dom_deep_scan", "llm_fallback"}

Outcomes(p, strategy) ==
    LET e == Entity(p)
    IN  CASE strategy = "hydration_state"      -> {Hydrate(p, e)}
          [] strategy = "jsonld_reparse"       -> {Reparse(p, e)}
          [] strategy = "network_intercept"    -> Intercept(p, e)
          [] strategy = "shopify_variants_api" -> AskForVariants(p, e)
          [] strategy = "dom_deep_scan"        -> {Scan(p, e)}
          [] strategy = "llm_fallback"         -> {AskLLM(p, e)}

Deepen(p) ==
    /\ MayDeepen(p)
    /\ \E strategy \in Strategies :
          /\ NextPass(p, strategy)
          /\ \E e \in Outcomes(p, strategy) : Becomes(p, e)
    /\ UNCHANGED <<site, use_browser, html, stage, result, browser>>

DeepenByRendering(p) ==
    /\ MayDeepen(p)
    /\ NextPass(p, "browser_render")
    /\ Go(p, "render")
    /\ UNCHANGED <<site, use_browser, html, product, result, browser>>

Finish(p) ==
    /\ stage[p] = "deep" /\ ~MayDeepen(p)
    /\ Return(p, "product")
    /\ UNCHANGED <<site, use_browser, html, product, loop, browser>>

-----------------------------------------------------------------------------
Fetch(p) == Scrape(p) \/ ProductJson(p) \/ ProductHtml(p) \/ Static(p) \/ Identity(p)
            \/ Curl(p) \/ HTTP2(p) \/ Parse(p)

Browse(p) == AskPool(p) \/ PoolStarts(p) \/ TakeSlot(p) \/ Rendered(p)

DeepLoop(p) == Deepen(p) \/ DeepenByRendering(p) \/ Finish(p)

Step(p) == Fetch(p) \/ Browse(p) \/ DeepLoop(p)

ScrapeNext == \E p \in Pages : Step(p)

ScrapeSpec == ScrapeInit /\ [][ScrapeNext]_scrapeVars

(* Every request and every rendering has a time limit, and a semaphore wakes *)
(* its waiters in order.                                                     *)
FairScrape ==
    /\ ScrapeSpec
    /\ \A p \in Pages : WF_scrapeVars(Step(p) /\ stage[p] # "slot") /\ SF_scrapeVars(TakeSlot(p))
=============================================================================
