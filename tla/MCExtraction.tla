---------------------------- MODULE MCExtraction ----------------------------
(***************************************************************************)
(* Pages of a small shop: a complete product; one whose variants have no   *)
(* SKU or price, which the loop goes through its passes for; one that gets *)
(* better with each source; one with a hydration state that raises and     *)
(* JSON-LD that cannot be read; an article of a blog with tables and       *)
(* accordions of all sorts, a page of text, one of a WooCommerce shop, one *)
(* whose text is beside an empty middle, and two whose <title> is empty,   *)
(* without a heading and with one in the header only.                      *)
(***************************************************************************)
EXTENDS ExtractionProps

CONSTANTS p1, p2

V(id, sku, complete) == [id |-> id, sku |-> sku, complete |-> complete]
Node(keys, length, vs) == [keys |-> keys, length |-> length, variants |-> vs, bad |-> FALSE]
Bad(node) == [node EXCEPT !.bad = TRUE]

State(type, place, end, node) == [type |-> type, place |-> place, end |-> end, node |-> node]
From(type, node) == [type |-> type, node |-> node]
Response(url, place, node) ==
    [url |-> url, json |-> TRUE, envelope |-> url = "graphql", at |-> place, node |-> node]

Part(kind, in, links, lines) == [kind |-> kind, in |-> in, links |-> links, lines |-> lines]
Tagged(tag, what, length) == [what |-> what, length |-> length, tag |-> tag]
Says(what, length) == Tagged("other", what, length)
Row(what, length)  == Tagged("row", what, length)
Cell(what, length) == Tagged("cell", what, length)
Ask(what)          == Tagged("question", what, 30)
Reply(what)        == Tagged("answer", what, 8)

Nothing == Node({}, 0, {})
Unrendered0 == [states |-> <<>>, sections |-> <<>>, parts |-> <<>>]

Blank ==
    [product |-> FALSE, grows |-> FALSE, json |-> Nothing, states |-> <<>>, blocks |-> <<>>,
     sections |-> <<>>, rendered |-> Unrendered0, responses |-> [r \in {} |-> Nothing], marks |-> {}, og |-> {}, title |-> "text",
     parts |-> <<>>, main |-> <<>>, summary |-> <<>>]

Table  == Part("table", {"main", "article"}, 0,
              <<Row("sizes", 8), Cell("washing", 30), Cell("red", 3), Cell("heading", 6), Row("sizes", 8)>>)
Answer == Part("details", {"main", "article"}, 0, <<Ask("question"), Says("yes", 10)>>)
Closed == Part("details", {"main", "article"}, 0, <<Ask("empty")>>)
FAQ    == Part("faq", {"main", "article"}, 0, <<Ask("returns"), Reply("no"), Ask("gifts"), Reply("cards")>>)
Echo   == Part("faq", {"main", "article"}, 0, <<Ask("hello"), Tagged("answer", "hello", 30)>>)
Tab    == Part("panel", {"main", "article"}, 0, <<Says("story", 60)>>)
Title1(in) == Part("text", {"h1"} \union in, 0, <<Says("name", 15)>>)
Menu   == Part("text", {"nav"}, 60, <<Says("menu", 60)>>)
Aside  == Part("table", {"main", "article", "aside"}, 0, <<Row("related", 60)>>)
Body(length) == Part("text", {"main", "article"}, 0, <<Says("body", length)>>)

AllNames == {"title", "handle", "variant_sku", "variant_price", "vendor", "product_type",
             "body_html", "size_option", "color_option"}

Full ==
    [Blank EXCEPT !.product = TRUE, !.json = Node(AllNames, 200, {V(1, "S", TRUE)}),
        !.states = <<State("shopify_theme", "known", "trailing",
                           Node({"title", "price", "sku", "vendor", "available", "material"}, 0,
                                {V(2, "S", TRUE), V(3, "T", TRUE)}))>>,
        !.sections = <<{"shipping_info", "return_policy"}, {"shipping_info", "return_policy"}>>,
        !.marks = {"shopify"}, !.parts = <<Menu, Table>>]

Poor ==
    [Blank EXCEPT !.product = TRUE, !.grows = TRUE,
        !.json = Node({"title", "vendor", "body_html"}, 40, {V(1, "", FALSE), V(2, "", FALSE)}),
        !.responses = [query |-> Response("graphql", "data", Node({"title", "priceRange"}, 0, {V(3, "S", TRUE)})),
                       stock |-> Response("api", "product", Node({"variant_price", "color_option"}, 0,
                                                                 {V(4, "S", FALSE), V(5, "T", FALSE)}))],
        !.rendered = [states   |-> <<State("nuxt", "nested", "whole",
                                           Node({"title", "description", "sku"}, 200, {V(6, "S", TRUE)}))>>,
                      sections |-> <<{"shipping_info"}>>, parts |-> <<Body(300)>>],
        !.parts = <<Menu>>]

Growing ==
    [Blank EXCEPT !.product = TRUE,
        !.json = Node({"title"}, 0, {V(1, "S", FALSE), V(2, "", FALSE)}),
        !.states = <<State("generic_state", "nested", "whole", Node({"title", "sku"}, 0, {V(3, "S", TRUE), V(4, "", TRUE)})),
                     State("embedded_json", "nested", "whole", Node({"title", "price"}, 0, {}))>>,
        !.sections = <<{"material"}, {"shipping_info", "return_policy"}>>,
        !.blocks = <<From("WebPage", Nothing), From("Product", Node({"name", "price", "brand", "description"}, 200, {}))>>,
        !.responses = [query  |-> Response("graphql", "data", Node({"title", "vendor", "description"}, 40, {V(5, "T", TRUE)})),
                       second |-> Response("graphql", "data", Node({"handle", "vendor", "description"}, 400, {})),
                       detail |-> Response("other", "top", Node({"name", "sku", "material"}, 0, {}))],
        !.parts = <<Table, Answer>>]

Malformed ==
    [Growing EXCEPT !.states[1].node.bad = TRUE, !.blocks[2].node.bad = TRUE,
        !.rendered.states = <<State("redux_state", "nested", "whole", Bad(Node({"title", "price"}, 0, {})))>>]

Article ==
    [Blank EXCEPT !.marks = {"generator"}, !.blocks = <<From("Article", Node({"description"}, 40, {}))>>,
        !.parts = <<Menu, Title1({"main"}), Body(300), Table, Answer, Closed, FAQ, Echo, Tab, Aside>>,
        !.main = <<Body(300)>>]

Plain == [Blank EXCEPT !.og = {"title"}, !.parts = <<Menu, Body(80)>>, !.rendered.parts = <<Table>>]

Store ==
    [Blank EXCEPT !.marks = {"woocommerce", "wordpress"},
        !.parts = <<Menu, Part("text", {"price"}, 0, <<Says("price", 10)>>),
                    Part("text", {"description"}, 0, <<Says("body", 200)>>),
                    Part("table", {"attributes"}, 0, <<Row("material", 20), Row("weight", 20)>>)>>]

Sidebar ==
    [Blank EXCEPT !.og = {"price:amount", "title"}, !.title = "empty", !.parts = <<Part("text", {"aside"}, 0, <<Says("body", 300)>>)>>,
        !.main = <<Part("text", {"aside"}, 0, <<Says("body", 300)>>)>>]

Nameless == [Article EXCEPT !.title = "empty", !.parts = <<Body(300), Table>>]

Masthead ==
    [Blank EXCEPT !.title = "empty", !.parts = <<Title1({"header"}), Body(80)>>, !.main = <<Body(300)>>]

MCPages == {p1, p2}
MCSites ==
    [full |-> Full, poor |-> Poor, growing |-> Growing, malformed |-> Malformed,
     article |-> Article, plain |-> Plain, store |-> Store, sidebar |-> Sidebar,
     nameless |-> Nameless, masthead |-> Masthead]
=============================================================================
