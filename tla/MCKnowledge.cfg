SPECIFICATION FairSpec
CONSTANTS
    web = web
    worker = worker
    w1 = w1
    a1 = a1
    a2 = a2
    page = page
    shop = shop
    other = other
    file = file
    None = None
    Procs <- MCProcs
    Workers = {worker}
    Slots <- MCSlots
    Host <- MCHost
    Orgs = {shop, other}
    Home = shop
    Pages = {page}
    Html <- MCHtml
    Tagged = {page}
    Files = {file}
    Owner <- MCOwner
    NChunks = 2
    Preview = 1
    Retries = 1
    MaxVersion = 1
    MaxTasks = 3
    MaxFaults = 1
INVARIANTS SkippedMeansStored IndexedMeansStored DeletedAnswersGo
PROPERTY UploadSettles
CHECK_DEADLOCK FALSE
