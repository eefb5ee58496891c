SPECIFICATION ProductsSpec
CONSTANTS
    Documents <- MCDocuments
    MAX_CHUNK_SIZE = 12
    CHUNK_OVERLAP = 2
    CHUNK_SIZE_BY_TYPE <- Limits
    FetchLimit = 6
    FULL_THRESHOLD = 850
    PARTIAL_THRESHOLD = 750
    Threshold = 720
    Discovered <- MCDiscovered
    VariantLines <- MCVariantLines
    CellLength = 100
    ShopPages <- MCShopPages
    MaxVersions = 2
    Pages <- MCPages
INVARIANTS NothingIsLost LinesSurvive
PROPERTIES WindowsAdvance RecrawlTellsTheCore
CHECK_DEADLOCK FALSE
