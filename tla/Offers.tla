------------------------------- MODULE Offers -------------------------------
(***************************************************************************)
(* What the readers of a product's page make of its raw material: the      *)
(* states that hydrate it (app/crawler/hydration_extractor.py), its        *)
(* JSON-LD, the sections of its DOM, the responses its scripts get         *)
(* (app/crawler/network_interceptor.py) and the shop's product API         *)
(* (app/crawler/completeness_engine.py).                                   *)
(*                                                                         *)
(* A node is the JSON object of a product: the keys it has a value for,    *)
(* its variants, the length of its description, and whether a price in it  *)
(* is bad, not a number.  An offer is what a reader gets out of one: the   *)
(* fields of a ProductEntity it fills.  A product that is not available    *)
(* has no key "available": the extractors read it with "or".               *)
(***************************************************************************)
EXTENDS Completeness, SequencesExt

Fields == Core \union Attributes \union Logistics
          \union {"sku", "description", "handle", "product_type", "tags", "currency", "care_instructions"}

NoOffer == [fields |-> {}, variants |-> {}, length |-> 0]

OfferOf(fields, node) ==
    [fields |-> fields, variants |-> node.variants,
     length |-> IF "description" \in fields THEN node.length ELSE 0]

Named(node, names) == {names[k] : k \in node.keys \intersect DOMAIN names}

Richness(o) ==
    Cardinality(o.fields) + (IF o.variants = {} THEN 0 ELSE 1 + 2 * Cardinality(o.variants))

Richest(offers) ==
    FoldLeft(LAMBDA best, o : IF Richness(o) > Richness(best) THEN o ELSE best, NoOffer, offers)

(* An offer of a single value is none. *)
AtLeastTwo(o) ==
    IF Cardinality(o.fields) + (IF o.variants = {} THEN 0 ELSE 1) >= 2 THEN o ELSE NoOffer

-----------------------------------------------------------------------------
(* The states a page is hydrated from: [type, place, end, node], in the    *)
(* order of the patterns, the embedded blocks last.                        *)
NodeNames ==
    [title |-> "title", name |-> "title", handle |-> "handle", sku |-> "sku",
     vendor |-> "brand", brand |-> "brand", productType |-> "product_type",
     product_type |-> "product_type", description |-> "description",
     body_html |-> "description", material |-> "material", color |-> "color",
     price |-> "price", price_min |-> "price", available |-> "availability",
     availability |-> "availability", tags |-> "tags"]

Normalize(node) == AtLeastTwo(OfferOf(Named(node, NodeNames), node))

(* A node that is found by walking must look like a product.               *)
LooksLikeProduct(node) ==
    /\ node.keys \intersect {"title", "name"} # {}
    /\ node.keys \intersect {"price", "sku", "priceRange", "handle"} # {} \/ node.variants # {}

WithKnownPlace == {"nextjs", "nuxt", "shopify_analytics", "shopify_theme"}
Unguarded      == {"generic_state", "redux_state", "embedded_json"}
Walked         == {"nextjs", "nuxt"} \union Unguarded

(* What follows the object, as a pattern may take too much, is cut off; an *)
(* object that is not whole is none.                                       *)
Parses(state) ==
    \/ state.end = "whole"
    \/ state.end = "trailing" /\ state.type # "embedded_json"

HasProduct(state) ==
    /\ Parses(state)
    /\ \/ state.place = "known" /\ state.type \in WithKnownPlace
       \/ state.place \in {"known", "nested"} /\ state.type \in Walked /\ LooksLikeProduct(state.node)

FromState(state) ==
    IF HasProduct(state) /\ ~state.node.bad THEN Normalize(state.node) ELSE NoOffer

(* A bad price raises; only the readers of some states catch that.         *)
Raises(states) ==
    \E i \in 1..Len(states) :
        HasProduct(states[i]) /\ states[i].node.bad /\ states[i].type \in Unguarded

Hydration(states) == Richest([i \in 1..Len(states) |-> FromState(states[i])])

-----------------------------------------------------------------------------
(* The sections of the DOM, each the set of subjects its text is about: a  *)
(* section fills the first field it can that none before it has filled.    *)
SUBJECTS == <<"shipping_info", "return_policy", "material", "care_instructions">>

Metafields(sections) ==
    LET Fills(got, section) == SelectSeq(SUBJECTS, LAMBDA f : f \in section /\ f \notin got)
        Add(got, section) == got \union IF Fills(got, section) = <<>> THEN {} ELSE {Head(Fills(got, section))}
    IN  [NoOffer EXCEPT !.fields = FoldLeft(Add, {}, sections)]

-----------------------------------------------------------------------------
(* JSON-LD: of a page's blocks, [type, node], one is read. *)
BLOCK_PRIORITY ==
    <<"Product", "Article", "BlogPosting", "NewsArticle", "FAQPage", "LocalBusiness",
      "Restaurant", "Event", "Organization", "WebPage">>

NoBlock == [type |-> "none", node |-> [keys |-> {}, variants |-> {}, length |-> 0, bad |-> FALSE]]

Block(blocks) ==
    LET types == SelectSeq(BLOCK_PRIORITY, LAMBDA t : \E i \in 1..Len(blocks) : blocks[i].type = t)
    IN  IF blocks = <<>> THEN NoBlock
        ELSE IF types = <<>> THEN Head(blocks)
        ELSE Head(SelectSeq(blocks, LAMBDA b : b.type = Head(types)))

BlockNames ==
    [name |-> "title", sku |-> "sku", price |-> "price", priceCurrency |-> "currency",
     availability |-> "availability", brand |-> "brand", description |-> "description",
     material |-> "material", color |-> "color"]

Jsonld(blocks) ==
    LET block == Block(blocks)
    IN  IF block.type = "Product" /\ ~block.node.bad
        THEN OfferOf(Named(block.node, BlockNames), [block.node EXCEPT !.variants = {}])
        ELSE NoOffer

-----------------------------------------------------------------------------
(* The product API of a Shopify shop says of every product that it has a   *)
(* currency, and whether it is available.                                  *)
ShopifyNames ==
    [title |-> "title", handle |-> "handle", variant_sku |-> "sku", variant_price |-> "price",
     vendor |-> "brand", product_type |-> "product_type", tags |-> "tags",
     body_html |-> "description", size_option |-> "size_options", color_option |-> "color"]

ShopifyJson(node) ==
    OfferOf(Named(node, ShopifyNames) \union {"currency", "availability"}, node)

-----------------------------------------------------------------------------
(* A response: where it came from, whether its type is JSON and it has the *)
(* envelope of GraphQL, and the node it has in its data, as its product,   *)
(* or on its top level.                                                    *)
GraphQLNames ==
    [title |-> "title", handle |-> "handle", vendor |-> "brand", productType |-> "product_type",
     description |-> "description", tags |-> "tags", priceRange |-> "price"]

FromGraphQL(r) ==
    IF /\ r.url = "graphql" \/ r.envelope
       /\ r.at = "data" /\ ~r.node.bad
       /\ r.node.keys \intersect {"title", "priceRange", "handle"} # {} \/ r.node.variants # {}
    THEN OfferOf(Named(r.node, GraphQLNames)
                 \union (IF "priceRange" \in r.node.keys THEN {"currency"} ELSE {}), r.node)
    ELSE NoOffer

FromShopifyAPI(r) == IF r.url = "api" /\ r.at = "product" THEN ShopifyJson(r.node) ELSE NoOffer

Signals == {"title", "price", "sku", "availability", "product_type", "vendor", "handle"}

GenericNames ==
    [title |-> "title", name |-> "title", price |-> "price", sku |-> "sku", brand |-> "brand",
     vendor |-> "brand", description |-> "description", body_html |-> "description",
     availability |-> "availability", product_type |-> "product_type",
     material |-> "material", shipping |-> "shipping_info"]

FromJson(r) ==
    IF r.json /\ r.at = "top" /\ r.node.keys \intersect Signals # {}
    THEN AtLeastTwo(OfferOf(Named(r.node, GenericNames), [r.node EXCEPT !.variants = {}]))
    ELSE NoOffer

Classify(r) ==
    IF FromGraphQL(r) # NoOffer THEN [source |-> "graphql", offer |-> FromGraphQL(r)]
    ELSE [source |-> "xhr_api",
          offer  |-> IF FromShopifyAPI(r) # NoOffer THEN FromShopifyAPI(r) ELSE FromJson(r)]
=============================================================================
