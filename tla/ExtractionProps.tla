--------------------------- MODULE ExtractionProps ---------------------------
(***************************************************************************)
(* What the extraction of a page promises, stated over Extraction.         *)
(***************************************************************************)
EXTENDS Extraction

(* In whatever order the strategies ran, each field has the value of a       *)
(* source no merged source that offers the field outranks, and a field is    *)
(* empty only if no source offered it (ProductEntity.merge).                 *)
BestSourceWins ==
    \A p \in Pages, f \in Fields :
        LET offering == {o \in merged[p] : f \in Offer(p, o).fields}
        IN  IF offering = {} THEN entity[p][f] = "none"
            ELSE /\ entity[p][f] \in offering
                 /\ \A o \in offering : PriorityOf(p, entity[p][f]) >= PriorityOf(p, o)

(* What the extraction is to tell of a part: of a table, the rows of several *)
(* cells and the cells that are no short words; of a <details> that has a    *)
(* summary and a body, all; of any other accordion, the first question and   *)
(* the first answer, if they differ.                                         *)
Telling(part) ==
    LET q == First(part, "question")
        a == First(part, "answer")
        all == DOMAIN part.lines
    IN  CASE part.kind = "table" ->
                {i \in all : \/ part.lines[i].tag = "row" \/ part.lines[i].length > 10
                            \/ part.lines[i].what \in {"price", "heading"}}
          [] part.kind = "details" -> IF q = {} \/ q = all THEN {} ELSE all
          [] part.kind = "faq" ->
                {i \in q \union a : \E j \in q, k \in a : part.lines[j].what # part.lines[k].what}
          [] OTHER -> {}

(* However a page that is no product is read, what its tables and accordions *)
(* tell is indexed if the pass reads them, but for noise and the elements    *)
(* that hold no text of the page, and it is read as empty only if it has no  *)
(* text, a price in its JSON-LD that cannot be read, or an empty <title> and *)
(* no other title in its text (UniversalExtractor).                          *)
ReadsTables(page, read) ==
    LET text == Without(page.parts, Boilerplate)
        said == {l.what : l \in Range(Clean(read.lines))}
    IN  /\ read.pass \in {"hydration", "jsonld", "platform"} =>
              \A part \in Range(text) : \A i \in Telling(part) : part.lines[i].what \in said \union Noise
        /\ read.lines = <<>> => Text(text) = <<>> \/ Unreadable(page) \/ Unnamed(page, text)

TablesAreIndexed(page) == ReadsTables(page, Extract(page))

(* What a page offers is not lost: neither a product's best source nor the   *)
(* tables of a page that was returned.                                       *)
IndexedSites ==
    {n \in DOMAIN Sites : TablesAreIndexed(Sites[n]) /\ TablesAreIndexed(RenderedPage(Sites[n]))}

NothingOfferedIsLost ==
    /\ BestSourceWins
    /\ \A p \in Pages : result[p] \notin {"pending", "nothing", "product"} => site[p] \in IndexedSites

(* A pass of the loop never takes from a product a variant that has a SKU,   *)
(* nor replaces it with what a lesser source says of it (_merge_variants).   *)
SkusAreKept ==
    [][\A p \in Pages : \A v \in variants[p] :
          v.sku # "" => \E w \in variants'[p] : w.sku = v.sku /\ Rank(w) >= Rank(v)]_scrapeVars

(* Each page the crawl fetches is returned or given up, however the browsers *)
(* fail and whichever pages wait for them (BrowserPool.render).              *)
PagesSettle == <>(\A p \in Pages : result[p] # "pending")
=============================================================================
