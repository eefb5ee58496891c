------------------------------- MODULE MCCrawl -------------------------------
(***************************************************************************)
(* A site of eight pages: three seeds with links in common, a page that is *)
(* disallowed, two behind a firewall, a link back, and a page too deep.    *)
(***************************************************************************)
EXTENDS CrawlProps

CONSTANTS home, shop, faq, item, cart, about, blog, more

MCUrls     == {home, shop, faq, item, cart, about, blog, more}
MCSeeds    == {home, shop, faq}
MCLinks    == [u \in MCUrls |->
    CASE u = home -> {shop, item, cart, about, blog}
      [] u = shop -> {item, faq}
      [] u = item -> {home, more}
      [] OTHER    -> {faq}]
MCPriority == [u \in MCUrls |->
    IF u \in {item, cart, more} THEN 0 ELSE IF u \in {faq, about} THEN 5 ELSE IF u = blog THEN 10 ELSE 25]
=============================================================================
