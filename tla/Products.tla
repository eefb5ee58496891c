------------------------------- MODULE Products -------------------------------
(***************************************************************************)
(* What the assistant knows of a product page: each crawl of the page      *)
(* makes a document, Chunking cuts it, and its chunks are committed one    *)
(* after the other (app/rag/ingestion.py, app/rag/vector_store.py) beside  *)
(* those of earlier crawls.  A product is read by its URL by putting one   *)
(* entity together from those chunks (app/rag/product_retriever.py), and   *)
(* its completeness decides what of it is told                             *)
(* (app/services/product_formatter.py).                                    *)
(***************************************************************************)
EXTENDS Chunking, Completeness

CONSTANTS
    FetchLimit,     \* the LIMIT of _fetch_chunks_by_url
    FULL_THRESHOLD, PARTIAL_THRESHOLD,  \* in thousandths
    Threshold,      \* COMPLETENESS_THRESHOLD, too
    Discovered,     \* entities a deep extraction may find at the page's APIs
    VariantLines,   \* of the lines that offer a variant, by their field: its sku, and
                    \* whether a price can be read off it
    CellLength,     \* how long a cell of a description is, in characters
    ShopPages,      \* the documents of a Shopify shop's pages
    Pages,          \* bound: the documents a page that is crawled again has
    MaxVersions     \* bound: how often the page is crawled

ASSUME PagesAssumption ==
    /\ Pages \subseteq Documents
    /\ {FetchLimit, MaxVersions, CellLength, FULL_THRESHOLD, PARTIAL_THRESHOLD, Threshold} \subseteq Nat
    /\ PARTIAL_THRESHOLD <= FULL_THRESHOLD

VARIABLES
    version,    \* the crawl in hand
    stage,      \* where its ingestion is
    rows,       \* document_chunks with the page's URL as their source
    crawled,    \* crawled_pages: the crawls that were logged, with their scores
    snapshots,  \* product_snapshots, oldest first
    prices,     \* product_price_history
    answered    \* what a reader was answered

log  == <<crawled, snapshots, prices>>
productVars == <<chunkVars, version, stage, rows, log, answered>>

Replied(mode, shown, answer) == [mode |-> mode, shown |-> shown, answer |-> answer]
NoReply == Replied("none", {}, "none")

ProductsInit ==
    /\ ChunkInit
    /\ version = 1 /\ stage = "chunk" /\ rows = {} /\ answered = NoReply
    /\ crawled = {} /\ snapshots = <<>> /\ prices = <<>>

-----------------------------------------------------------------------------
(* DocumentIngestion.ingest *)
CutChunks ==
    /\ stage = "chunk" /\ ChunkStep
    /\ UNCHANGED <<version, stage, rows, log>>

(* All chunks are embedded before the first is stored. *)
Embed ==
    /\ stage = "chunk" /\ phase = "done"
    /\ stage' = "store"
    /\ UNCHANGED <<chunkVars, version, rows, log>>

(* _parse_chunk_content: a chunk gives the fields whose labels it has.  A    *)
(* description and the variants go on until one of some labels, or to the    *)
(* end of the chunk.                                                         *)
Labels(c, fields) == Begins(c) /\ Field(c) \in fields

Block(text, label, ends) ==
    {k \in 1..Len(text) : \E b \in 1..k :
        Labels(text[b], {label}) /\ \A j \in (b + 1)..k : ~Labels(text[j], ends)}

BlockEnds == {"shipping_info", "return_policy", "care_instructions"}

DescriptionLength(text) ==
    CellLength * Cardinality(Block(text, "description", BlockEnds \union {"variants"}))

(* _parse_variants_block: every line of the block but its label is taken for *)
(* a variant; its title is read off its first cell, its price off the        *)
(* second and its sku off the third, as far as the chunk has them.           *)
Reaches(text, l, o) ==
    \E k \in 1..Len(text) : text[k] = <<l, IF o < doc.lines[l].length THEN o ELSE doc.lines[l].length>>

Variant(text, l) ==
    LET offer == IF doc.lines[l].field \in DOMAIN VariantLines THEN VariantLines[doc.lines[l].field]
                 ELSE [sku |-> "", priced |-> FALSE]
    IN  [line |-> l, sku |-> IF Reaches(text, l, 3) THEN offer.sku ELSE "",
         complete |-> offer.priced /\ Reaches(text, l, 2)]

Variants(text) ==
    {Variant(text, l) : l \in {m \in {text[k][1] : k \in Block(text, "variants", BlockEnds)} :
        doc.lines[m].kind # "break" /\ doc.lines[m].field # "variants"}}

Fields(text) ==
    ({Field(text[k]) : k \in {j \in 1..Len(text) : Begins(text[j])}} \ ({"none", "variants"} \union DOMAIN VariantLines))
    \union IF Variants(text) = {} THEN {} ELSE {"variants"}

Parsed(text) ==
    [fields |-> Fields(text), variants |-> Variants(text), length |-> DescriptionLength(text)]

(* The chunks of a specification, and all those of a Shopify page, are       *)
(* sources of high priority (_infer_source); the former are merged first.    *)
Row(i) ==
    LET read == Parsed(chunks[i].text)
        spec == chunks[i].type = "product_spec"
    IN  [version |-> version, index |-> i - 1, spec |-> spec, high |-> spec \/ doc \in ShopPages,
         fields |-> read.fields, variants |-> read.variants, length |-> read.length]

Stored == {row.index : row \in {r \in rows : r.version = version}}

Upsert ==
    /\ stage = "store" /\ Cardinality(Stored) < Len(chunks)
    /\ rows' = rows \union {Row(Cardinality(Stored) + 1)}
    /\ UNCHANGED <<chunkVars, version, stage, log>>

Ingested ==
    /\ stage = "store" /\ Cardinality(Stored) = Len(chunks)
    /\ stage' = "log"
    /\ UNCHANGED <<chunkVars, version, rows, log>>

(* The embedding, or a row's INSERT, fails: the rows before it stay. *)
IngestFails ==
    /\ \/ stage = "chunk" /\ phase = "done"
       \/ stage = "store" /\ Cardinality(Stored) < Len(chunks)
    /\ stage' = "failed"
    /\ UNCHANGED <<chunkVars, version, rows, log>>

(* The crawl logs the page, with the score its extraction gave it: only a  *)
(* page that was read as a product of its platform has one.  A row that    *)
(* cannot be written is left out.                                          *)
Unscored == -1

Scores == {Unscored, Score(Parsed(Text))}

LogPage ==
    /\ stage = "log"
    /\ stage' = "track"
    /\ \/ UNCHANGED crawled
       \/ \E score \in Scores : crawled' = crawled \union {[version |-> version, score |-> score]}
    /\ UNCHANGED <<chunkVars, version, rows, snapshots, prices>>

(* ProductTemporalTracker.track: a snapshot, and a line of price history   *)
(* when the price differs from that of the snapshot before.  The entity    *)
(* the crawl gives it has a title and is in stock, nothing else.           *)
NoPrice == 0
Tracked == [price |-> NoPrice, availability |-> "In Stock"]

PriceChanged(new) ==
    snapshots # <<>> /\ new.price # NoPrice /\ snapshots[Len(snapshots)].price # new.price

Track ==
    /\ stage = "track"
    /\ stage' = "stored"
    /\ \/ UNCHANGED <<snapshots, prices>>
       \/ /\ snapshots' = Append(snapshots, Tracked)
          /\ prices' = IF PriceChanged(Tracked)
                       THEN Append(prices, <<snapshots[Len(snapshots)].price, Tracked.price>>) ELSE prices
    /\ UNCHANGED <<chunkVars, version, rows, crawled>>

(* The page is crawled again, changed or not. *)
Recrawl ==
    /\ stage \in {"stored", "failed"} /\ version < MaxVersions
    /\ version' = version + 1
    /\ stage' = "chunk"
    /\ doc \in Pages /\ doc' \in Pages
    /\ phase' = "begin" /\ line' = 1 /\ in_table' = FALSE /\ in_faq' = FALSE
    /\ parent' = 0 /\ chunks' = <<>>
    /\ UNCHANGED <<current, queue, start, pieces, rows, log>>

-----------------------------------------------------------------------------
(* _fetch_chunks_by_url: up to FetchLimit rows by chunk_index; among rows  *)
(* of one index the database chooses.                                      *)
Fetches_Newest(stored) ==    \* mutant: the chunks of the latest crawl are read
    {{r \in stored : \A s \in stored : s.version <= r.version}}

Fetches(stored) ==
    IF Cardinality(stored) <= FetchLimit THEN {stored}
    ELSE {page \in SUBSET stored :
             /\ Cardinality(page) = FetchLimit
             /\ \A r \in page, s \in stored \ page : r.index <= s.index}

(* _reconstruct_entity: the rows of one index come in an order the database *)
(* chooses, which ranks the crawls.                                        *)
Ranks(versions) ==
    {rank \in [versions -> 1..Cardinality(versions)] : \A v, w \in versions : rank[v] = rank[w] => v = w}

Orders(page) == [{r.index : r \in page} -> Ranks({r.version : r \in page})]

Precedes(r, q, order) ==
    \/ r.spec /\ ~q.spec
    \/ r.spec = q.spec /\ r.index < q.index
    \/ r.spec = q.spec /\ r.index = q.index /\ order[r.index][r.version] < order[q.index][q.version]

Higher(r, q) == r.high /\ ~q.high

(* ProductEntity.merge: a field stays what the first row says of it, unless *)
(* a source of higher priority says otherwise; here only the length of the *)
(* description depends on that.                                            *)
Firsts(page, order) ==
    LET has == {r \in page : "description" \in r.fields}
    IN  IF has = {} THEN {0}
        ELSE {r.length : r \in {r \in has : \A q \in has \ {r} :
                Higher(r, q) \/ (r.high = q.high /\ Precedes(r, q, order))}}

(* _merge_variants: of the variants of one sku the last one stays, unless   *)
(* one of a source of higher priority came before it; those without a sku   *)
(* are forgotten when a later row has variants.                             *)
Survives(v, r, page, order) ==
    IF v.sku = "" THEN \A q \in page \ {r} : q.variants = {} \/ Precedes(q, r, order)
    ELSE /\ \A w \in r.variants : w.sku = v.sku => w.line <= v.line
         /\ \A q \in page \ {r} :
                (\E w \in q.variants : w.sku = v.sku) =>
                    Higher(r, q) \/ (r.high = q.high /\ Precedes(q, r, order))

(* An entity has a field if a chunk it is put together from gives it, or     *)
(* its metadata, which has the title.                                        *)
MetaFields(row) == {"title"}

Reconstruct(page) ==
    UNION {{[fields   |-> UNION {r.fields \union MetaFields(r) : r \in page},
             variants |-> {v \in UNION {r.variants : r \in page} :
                              \E r \in page : v \in r.variants /\ Survives(v, r, page, order)},
             length   |-> length] : length \in Firsts(page, order)} : order \in Orders(page)}

(* The fused entity replaces the reconstructed one: every chunk is a       *)
(* source, and what it gives is what its metadata says of the product's    *)
(* fields.                                                                 *)
Fuse(page) == [fields |-> UNION {MetaFields(r) : r \in page}, variants |-> {}, length |-> 0]

-----------------------------------------------------------------------------
(* ProductEntityFormatter *)
Mode(entity) ==
    LET score == Score(entity)
    IN  IF score >= FULL_THRESHOLD THEN "FULL"
        ELSE IF score >= PARTIAL_THRESHOLD THEN "PARTIAL"
        ELSE "FALLBACK"

FallbackMode_Url == {"title"}    \* mutant: of an incomplete product nothing but its name and URL are shown

FallbackMode == Core
PartialMode  == Core \union {"sku", "variants", "description"}

FullMode ==
    PartialMode
    \union {"product_type", "material", "color", "size_options", "shipping_info",
            "return_policy", "care_instructions"}

Shown(mode) ==
    CASE mode = "FULL"    -> FullMode
      [] mode = "PARTIAL" -> PartialMode
      [] OTHER            -> FallbackMode

Format(entity) == entity.fields \intersect Shown(Mode(entity))

(* The model is asked for an answer unless there is too little to tell it. *)
Replies(entity) ==
    \E answer \in IF Mode(entity) = "FALLBACK" THEN {"none"} ELSE {"none", "generated"} :
        answered' = Replied(Mode(entity), Format(entity), answer)

QueryByUrl ==    \* query_by_url
    IF rows = {} THEN answered' = Replied("FALLBACK", {}, "incomplete")
    ELSE \E page \in Fetches(rows) : \E entity \in Reconstruct(page) : Replies(entity)

(* check_completeness *)
CheckCompleteness ==
    IF rows = {} THEN answered' = Replied("FALLBACK", {}, "not found")
    ELSE \E page \in Fetches(rows) : \E entity \in Reconstruct(page) :
            answered' = Replied(Mode(entity), MissingFields(entity), "missing")

(* ProductRetriever.retrieve, for a page: a search finds rows by their     *)
(* vectors or by their words (none, one or all of them here); what is put  *)
(* together from them is replaced by what they are fused to.               *)
Found == {{}, rows} \union {{r} : r \in rows}

Fused(found) == IF found = {} THEN {} ELSE {Fuse(found)}

(* A product that is not complete is extracted again if the reader asks    *)
(* for it: no page is fetched for that, only its APIs are asked.           *)
Deepened(entity) ==
    {entity} \union
        IF Score(entity) >= Threshold THEN {} ELSE {[d EXCEPT !.fields = entity.fields \union @] : d \in Discovered}

Query ==    \* query, when the page is the first of those found
    \E found \in Found :
        \/ Fused(found) = {} /\ answered' = Replied("FALLBACK", {}, "no products")
        \/ \E fused \in Fused(found) : \E entity \in Deepened(fused) : Replies(entity)

(* list_incomplete_products, and the dashboard's distribution of scores:   *)
(* a page without a score is in the latter only.                           *)
ListIncomplete ==
    answered' = Replied("list", {c.version : c \in {c \in crawled : c.score # Unscored /\ c.score < PARTIAL_THRESHOLD}}, "none")

Dashboard ==
    answered' = Replied("dashboard", [full     |-> {c.version : c \in {c \in crawled : c.score >= FULL_THRESHOLD}},
                                   fallback |-> {c.version : c \in {c \in crawled : c.score < PARTIAL_THRESHOLD}}], "none")

PriceHistory == answered' = Replied("prices", prices, "none")

Reads ==
    /\ QueryByUrl \/ Query \/ CheckCompleteness \/ ListIncomplete \/ Dashboard \/ PriceHistory
    /\ UNCHANGED <<chunkVars, version, stage, rows, log>>

ProductsNext ==
    \/ (CutChunks \/ Embed \/ Upsert \/ Ingested \/ IngestFails \/ LogPage \/ Track \/ Recrawl) /\ answered' = NoReply
    \/ stage # "chunk" /\ answered = NoReply /\ Reads    \* bound: a reader between two steps

ProductsSpec == ProductsInit /\ [][ProductsNext]_productVars
=============================================================================
