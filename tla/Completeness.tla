----------------------------- MODULE Completeness -----------------------------
(***************************************************************************)
(* How complete the entity of a product is: CompletenessScore              *)
(* (app/crawler/completeness_engine.py), by which a crawl goes on          *)
(* extracting and a reader is told more or less.  An entity has a set of   *)
(* fields, variants, and a description of some length; shares and scores   *)
(* are in thousandths.                                                     *)
(***************************************************************************)
EXTENDS Integers, FiniteSets

Core       == {"title", "price", "availability", "brand"}
Attributes == {"material", "color", "size_options"}
Logistics  == {"shipping_info", "return_policy"}

Share(whole, n, of) == (whole * n) \div of

Has(e, fs) == Cardinality(e.fields \intersect fs)

SkuCoverage(e) ==
    IF e.variants = {} THEN 1000 * Has(e, {"sku"})
    ELSE 400 * Has(e, {"sku"})
         + Share(600, Cardinality({v \in e.variants : v.sku # ""}), Cardinality(e.variants))

VariantCoverage(e) ==
    IF e.variants = {} THEN 1000 * Has(e, {"price"})
    ELSE Share(1000, Cardinality({v \in e.variants : v.complete}), Cardinality(e.variants))

ContentQuality(e) == IF e.length >= 200 THEN 1000 ELSE 5 * e.length

Score(e) ==
    (  300 * Share(1000, Has(e, Core), 4)
     + 200 * SkuCoverage(e)
     + 200 * VariantCoverage(e)
     + 150 * Share(1000, Has(e, Attributes), 3)
     + 100 * Share(1000, Has(e, Logistics), 2)
     +  50 * ContentQuality(e)) \div 1000

MissingFields(e) ==
    ((Core \union {"sku"} \union Attributes \union Logistics) \ e.fields)
    \union (IF e.variants # {} /\ VariantCoverage(e) < 800 THEN {"variant_details"} ELSE {})
    \union (IF e.length < 50 THEN {"description"} ELSE {})
=============================================================================
