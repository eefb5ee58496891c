----------------------------- MODULE MCProducts -----------------------------
(***************************************************************************)
(* Documents of four lines of each kind, short and long, with and without  *)
(* sentences; and pages of a product, that are crawled again.              *)
(***************************************************************************)
EXTENDS ProductsProps

L(kind, field, length, ends) == [kind |-> kind, field |-> field, length |-> length, ends |-> ends]
Other(kind, length) == L(kind, "none", length, {})

Mixed ==
    {[atomic |-> FALSE,
      lines |-> <<L(k1, "none", n1, e1), Other(k2, n2), Other(k3, 2), Other(k4, 2)>>] :
        k1 \in {"plain", "heading", "question"}, n1 \in {2, 9, 16}, e1 \in {{}, {7, 8, 9}},
        k2 \in {"question", "row", "break", "plain"}, n2 \in {2, 9},
        k3 \in {"answer", "row", "caps", "question"}, k4 \in {"break", "spec", "row", "answer"}}

Spec_(field) == L("spec", field, 1, {})

Page(sku, rest) ==
    [atomic |-> FALSE,
     lines |-> <<Spec_("title"), Spec_("price"), Spec_("availability"), Spec_("brand"), Spec_(sku),
                 L("plain", "description", 4, {2}), L("plain", rest, 2, {}), L("plain", "return_policy", 1, {})>>]

(* A page of two variants, with prices that can be read off or not.          *)
Varied(v, w, description) ==
    [atomic |-> FALSE,
     lines |-> <<Spec_("title"), Spec_("price"), Spec_("availability"), Spec_("brand"), Spec_("sku"),
                 L("plain", "description", description, {}), L("plain", "variants", 1, {}),
                 L("spec", v, 3, {}), L("spec", w, 3, {}), L("plain", "return_policy", 1, {})>>]

MCVariantLines ==
    [red |-> [sku |-> "R", priced |-> TRUE], blue |-> [sku |-> "B", priced |-> FALSE],
     plain |-> [sku |-> "", priced |-> FALSE]]

MCShopPages == {Varied("red", "blue", 1)}
MCPages == {Page("sku", "shipping_info"), Page("none", "none"), Varied("blue", "plain", 4)} \union MCShopPages
Shops == {[atomic |-> TRUE, lines |-> <<Other("heading", n), Other("plain", 9), Other("plain", 5)>>] : n \in {1, 16}}

Nothing == [atomic |-> FALSE, lines |-> <<>>]

MCDocuments == Mixed \union MCPages \union Shops \union {Nothing}
MCDiscovered ==
    {[fields |-> {"price", "availability", "brand"}, variants |-> {}, length |-> 0],
     [fields   |-> {"price", "availability", "brand", "sku", "description", "shipping_info", "return_policy", "variants"},
      variants |-> {[line |-> 1, sku |-> "R", complete |-> TRUE]}, length |-> 200]}
Limits == [faq |-> 6, table |-> 7, product_spec |-> 5, text |-> 8, documentation |-> 9]
=============================================================================
