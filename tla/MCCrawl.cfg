SPECIFICATION FairSpec
CONSTANTS
    home = home
    shop = shop
    item = item
    faq = faq
    cart = cart
    more = more
    about = about
    blog = blog
    Urls <- MCUrls
    Seeds <- MCSeeds
    Links <- MCLinks
    Priority <- MCPriority
    Disallowed = {cart}
    Blocked = {shop, faq}
    MaxPages = 4
    MaxDepth = 1
    MaxRenders = 1
    Concurrency = 2
INVARIANTS FetchedOnce BudgetHolds NothingLost
PROPERTIES CrawlEnds IsTraversal
CHECK_DEADLOCK FALSE
