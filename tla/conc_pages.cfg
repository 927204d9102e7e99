CONSTANTS
    d1 = d1  d2 = d2  d3 = d3  d4 = d4  d5 = d5  d6 = d6
    a = a  b = b  c = c
    r1 = r1  r2 = r2  r3 = r3
    NoDoc = NoDoc
    Docs = {d1, d2, d3, d4}
    Content = {a, b, c}
    Initial <- TwoDocs
    Uploads <- NoUploads
    Reqs = {r1, r2}
    MaxVer = 8
    MaxPages = 3
    Ops <- PageOps
    Sequential = FALSE
    Crashes = FALSE
    StaleBase = TRUE
    Reorder = FALSE
    SameDocMove = TRUE
    Reupload = FALSE
    RedisPresent = TRUE
    SharedMedia = FALSE
SPECIFICATION Spec
SYMMETRY Symmetry
INVARIANTS
    AnnouncedWritten
    RemovedNotLast
PROPERTIES
    HistoryImmutable
    PurgeAfterCopy
CHECK_DEADLOCK FALSE
