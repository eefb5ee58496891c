------------------------------ MODULE PageText ------------------------------
(***************************************************************************)
(* The text indexed for a page that is not read as a Shopify product: the  *)
(* passes of UniversalExtractor.extract (app/crawler/universal_extractor.py)*)
(* and ContentCleaner.clean (app/crawler/content_cleaner.py).              *)
(*                                                                         *)
(* A page is its hydration states and JSON-LD blocks (see Offers), the     *)
(* marks of its platform, its Open Graph keys, what its <title> is, and its *)
(* parts in document order: the kind of each, the elements it is in, how   *)
(* much of it is links, and its lines, each of some length.  A line of a   *)
(* table is a row of several cells or one cell, one of an accordion a      *)
(* question, an answer or neither.  Two lines that are equal are equal     *)
(* texts.  trafilatura and readability are libraries: "main" and "summary" *)
(* are the parts they take for the text.                                   *)
(***************************************************************************)
EXTENDS Offers

LineLength == 20

Line(kind, what, length) == [kind |-> kind, what |-> what, length |-> length]

(* How long a text is, up to each of its lines and in all.                 *)
Lengths(lines) ==
    LET upTo[n \in 0..Len(lines)] == IF n = 0 THEN 0 ELSE upTo[n - 1] + lines[n].length IN upTo

Length(lines) == Lengths(lines)[Len(lines)]

(* What a sequence has at some of its places.                              *)
At(seq, places) == FlattenSeq([i \in DOMAIN seq |-> IF i \in places THEN <<seq[i]>> ELSE <<>>])

(* get_text of some parts, and its first characters, in whole lines.       *)
Text(parts) ==
    FlattenSeq([i \in DOMAIN parts |->
        [j \in DOMAIN parts[i].lines |-> Line("text", parts[i].lines[j].what, parts[i].lines[j].length)]])

Cut(lines, limit) ==
    SubSeq(lines, 1, CHOOSE n \in 0..Len(lines) :
        /\ Lengths(lines)[n] <= limit
        /\ n < Len(lines) => Lengths(lines)[n + 1] > limit)

Within(parts, element) == At(parts, {i \in DOMAIN parts : element \in parts[i].in})

Without(parts, elements) == At(parts, {i \in DOMAIN parts : parts[i].in \intersect elements = {}})

-----------------------------------------------------------------------------
(* Tables, accordions and tab panels of what is left in the document.  The *)
(* cells of a row are joined by bars: a row of one cell has none.          *)
Rows(part) ==
    [j \in DOMAIN part.lines |->
        Line(IF part.lines[j].tag = "row" THEN "row" ELSE "text", part.lines[j].what, part.lines[j].length)]

(* find gives the first of the elements of a tag.                          *)
First(part, tag) ==
    {i \in DOMAIN part.lines : part.lines[i].tag = tag /\ \A j \in 1..(i - 1) : part.lines[j].tag # tag}

Asked(part, question, answer) ==
    At([j \in DOMAIN part.lines |->
            Line(IF j \in question THEN "question" ELSE "answer", part.lines[j].what, part.lines[j].length)],
       question \union answer)

(* <details>: its summary, and all that is not its summary.                *)
Details(part) ==
    LET label == First(part, "question")
        body  == DOMAIN part.lines \ label
    IN  IF label = {} \/ body = {} THEN <<>> ELSE Asked(part, label, body)

(* An element of class faq or accordion: its first question and its first  *)
(* answer, whatever else is in it.                                         *)
Faq(part) ==
    LET q == First(part, "question")
        a == First(part, "answer")
    IN  IF \E i \in q, j \in a : part.lines[i].what # part.lines[j].what THEN Asked(part, q, a) ELSE <<>>

Section(part) ==
    CASE part.kind = "table"   -> Rows(part)
      [] part.kind = "details" -> Details(part)
      [] part.kind = "faq"     -> Faq(part)
      [] part.kind = "panel" /\ Length(part.lines) > 50 -> Text(<<part>>)
      [] OTHER -> <<>>

Sections(parts, kind) ==
    FlattenSeq([i \in DOMAIN parts |-> IF parts[i].kind = kind THEN Section(parts[i]) ELSE <<>>])

Semantic_Rows(parts) ==    \* mutant: accordions are skipped like hidden content
    Sections(parts, "table")

Semantic(parts) ==
    Sections(parts, "table") \o Sections(parts, "details") \o Sections(parts, "faq")
    \o Sections(parts, "panel")

-----------------------------------------------------------------------------
(* Hydration: a ProductEntity is written down, a line for each field.      *)
Hydrated(page) ==
    LET offer == Hydration(page.states)
        shown == (offer.fields \intersect Fields) \ {"handle", "currency", "description"}
    IN  IF Raises(page.states) \/ ~({"title", "price"} \subseteq offer.fields) THEN <<>>
        ELSE SetToSeq({Line("text", f, LineLength) : f \in shown})
             \o (IF offer.variants = {} THEN <<>>
                 ELSE <<Line("text", "variants", LineLength * Cardinality(offer.variants))>>)
             \o <<Line("text", "description", offer.length), Line("text", "sources", LineLength)>>

(* JSON-LD: what is written down of a block of each type. *)
Written(type) ==
    CASE type = "Product" -> {"price", "availability", "brand", "sku", "description",
                              "material", "color", "size", "weight", "category"}
      [] type \in {"Article", "BlogPosting", "NewsArticle"} -> {"author", "datePublished", "description"}
      [] type = "FAQPage" -> {"mainEntity"}
      [] type = "LocalBusiness" -> {"address", "telephone", "openingHours", "priceRange", "description"}
      [] type = "Restaurant" ->
            {"address", "telephone", "openingHours", "servesCuisine", "priceRange", "description"}
      [] type = "Event" -> {"startDate", "location", "price", "description"}
      [] OTHER -> {}

Structured(page) ==
    LET block == Block(page.blocks)
        Size(k) == IF k \in {"description", "mainEntity"} THEN block.node.length ELSE LineLength
    IN  IF Written(block.type) = {} THEN <<>>
        ELSE <<Line("text", "name", LineLength)>>
             \o SetToSeq({Line("text", k, Size(k)) : k \in block.node.keys \intersect Written(block.type)})

(* The price of a Product that is not a number ends the whole extraction. *)
Unreadable(page) == Block(page.blocks).type = "Product" /\ Block(page.blocks).node.bad

-----------------------------------------------------------------------------
(* The platform is told by the first mark the document has. *)
PLATFORMS == <<"shopify", "woocommerce", "wordpress", "nextjs", "magento", "gitbook", "zendesk", "discourse">>

Platform(page) ==
    LET seen == SelectSeq(PLATFORMS, LAMBDA m : m \in page.marks)
    IN  IF seen # <<>> THEN Head(seen)
        ELSE IF "generator" \in page.marks THEN "wordpress" ELSE "generic"

(* The containers of a platform's text, and the elements removed from it. *)
Containers(platform) ==
    CASE platform = "wordpress" -> <<"entry_content", "post_content", "article_content", "article",
                                     "main_content", "page_content">>
      [] platform = "shopify"   -> <<"article">>
      [] platform = "magento"   -> <<"product_info", "description", "product_details">>
      [] platform \in {"gitbook", "zendesk", "discourse"} ->
            <<"article", "main", "content", "markdown_body", "article_body">>
      [] platform = "nextjs"    -> <<"main", "next_root">>
      [] OTHER                  -> <<>>

Removed(platform) ==
    CASE platform = "wordpress" -> {"nav", "aside"}
      [] platform \in {"gitbook", "zendesk", "discourse", "nextjs"} -> {"nav"}
      [] OTHER -> {}

Limit(platform) == IF platform \in {"gitbook", "zendesk", "discourse"} THEN 5000 ELSE 4000

Boilerplate == {"nav", "footer", "header", "aside", "form", "iframe"}

(* _extract_generic_html of what is left of the document. *)
OpenGraph(og) ==
    IF og \intersect {"price:amount", "sale_price"} = {} THEN <<>>
    ELSE SetToSeq({Line("text", k, LineLength) :
                     k \in {"title", "price"} \union (og \intersect {"brand", "availability", "description"})})

Size(parts, e)   == Length(Text(Within(parts, e)))
Weight(parts, e) == Size(parts, e) - FoldLeft(LAMBDA n, part : n + part.links, 0, Within(parts, e))

Most(elements, Measure(_)) == {e \in elements : \A f \in elements : Measure(e) >= Measure(f)}

Dense(parts) ==
    LET S(e) == Size(parts, e)
        W(e) == Weight(parts, e)
    IN  Most(Most({e \in {"main", "article", "section", "div", "inner_div"} : S(e) >= 100 /\ W(e) > 0}, W), S)

CONTENT == <<"main", "article", "section">>

Long(parts) == At(CONTENT, {i \in DOMAIN CONTENT : Size(parts, CONTENT[i]) > 200})

GenericText(left, long, dense) ==
    IF long # <<>> THEN Cut(Text(Within(left, Head(long))), 4000)
    ELSE IF dense # {} THEN Cut(Text(Within(left, CHOOSE e \in dense : TRUE)), 4000)
    ELSE Cut(Text(left), 2000)

GenericHtml(parts, og) ==
    LET left == Without(parts, Boilerplate)
    IN  IF OpenGraph(og) # <<>> THEN [lines |-> OpenGraph(og), left |-> parts]
        ELSE [lines |-> GenericText(left, Long(left), Dense(left)), left |-> left]

(* The product of a WooCommerce page: its price, its first long tab, and   *)
(* its table of attributes.                                                *)
WooCommerce(parts) ==
    LET tabs == At(parts, {i \in DOMAIN parts : "description" \in parts[i].in /\ Length(parts[i].lines) > 50})
    IN  Text(Within(parts, "price"))
        \o (IF tabs = <<>> THEN <<>> ELSE Cut(Text(<<Head(tabs)>>), 3000))
        \o Text(Within(parts, "attributes"))

(* What is removed from a container is removed from the document. *)
FromContainer(parts, container, removed, limit) ==
    LET left == At(parts, {i \in DOMAIN parts :
                             container \in parts[i].in => parts[i].in \intersect removed = {}})
    IN  [lines |-> Cut(Text(Within(left, container)), limit), left |-> left]

Found(page, platform, present) ==
    IF platform = "woocommerce" THEN [lines |-> WooCommerce(page.parts), left |-> page.parts]
    ELSE IF present # <<>> THEN FromContainer(page.parts, Head(present), Removed(platform), Limit(platform))
    ELSE GenericHtml(page.parts, IF platform = "generic" THEN page.og ELSE {})

(* The title: the first heading, the Open Graph title or what <title> has.  *)
Title(page) ==
    LET h1 == Within(page.parts, "h1")
    IN  IF h1 # <<>> THEN Text(<<Head(h1)>>)
        ELSE IF "title" \in page.og \/ page.title = "text" THEN <<Line("text", "title", LineLength)>>
        ELSE <<>>

Titled(found, title) ==
    IF found.lines = <<>> \/ IsPrefix(title, found.lines) THEN found
    ELSE [found EXCEPT !.lines = title \o @]

ByPlatform(page) ==
    LET platform == Platform(page)
    IN  Titled(Found(page, platform,
                     SelectSeq(Containers(platform), LAMBDA e : Within(page.parts, e) # <<>>)),
               Title(page))

(* An empty <title> has no string to strip: the look for a title in what is *)
(* left of the document raises, unless it finds one before.                 *)
Unnamed(page, left) == Within(left, "h1") = <<>> /\ "title" \notin page.og /\ page.title = "empty"

-----------------------------------------------------------------------------
(* The passes in turn, up to the first that has enough text. *)
Extracted(pass, lines) == [pass |-> pass, lines |-> lines]

Generic(page, found) ==
    IF Unnamed(page, found.left) THEN Extracted("failed", <<>>) ELSE Extracted("generic", found.lines)

FirstEnough(page, hydrated, structured, platform) ==
    IF Length(hydrated) > 150 THEN Extracted("hydration", hydrated \o Semantic(page.parts))
    ELSE IF Unreadable(page) THEN Extracted("failed", <<>>)
    ELSE IF Length(structured) > 100 THEN Extracted("jsonld", structured \o Semantic(page.parts))
    ELSE IF Unnamed(page, page.parts) THEN Extracted("failed", <<>>)
    ELSE IF Length(platform.lines) > 150 THEN Extracted("platform", platform.lines \o Semantic(platform.left))
    ELSE IF page.title # "empty" /\ Length(Text(page.main)) > 200 THEN Extracted("trafilatura", Text(page.main))
    ELSE IF Length(Text(page.summary)) > 200 THEN Extracted("readability", Text(page.summary))
    ELSE Generic(page, GenericHtml(platform.left, page.og))

Extract(page) == FirstEnough(page, Hydrated(page), Structured(page), ByPlatform(page))

(* Cleaning drops noise, a repeated line that is not long, and the lines   *)
(* that are too short and have no bar, no "Q:" or "A:", no price, and do    *)
(* not start with a capital as a heading does.                             *)
Noise == {"cookie_banner", "menu"}

Lasting(line) == line.kind # "text" \/ line.what \in {"price", "heading"} \/ line.length > 10

Clean(lines) ==
    LET Worthy(i) ==
            /\ lines[i].what \notin Noise
            /\ lines[i].length < 100 => \A j \in 1..(i - 1) : lines[j] # lines[i]
            /\ Lasting(lines[i])
    IN  At(lines, {i \in DOMAIN lines : Worthy(i)})
=============================================================================
