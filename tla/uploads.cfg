CONSTANTS
    d1 = d1  d2 = d2  d3 = d3  d4 = d4  d5 = d5  d6 = d6
    a = a  b = b  c = c
    r1 = r1  r2 = r2  r3 = r3
    NoDoc = NoDoc
    Docs = {d1, d2}
    Content = {a, b, c}
    Initial <- OneDoc
    Uploads <- Files
    Reqs = {r1, r2, r3}
    MaxVer = 6
    MaxPages = 3
    Ops = {"create", "upload", "upload_image", "apply", "delete"}
    Sequential = TRUE
    Crashes = TRUE
    StaleBase = FALSE
    Reorder = FALSE
    SameDocMove = FALSE
    Reupload = TRUE
    RedisPresent = TRUE
    SharedMedia = FALSE
SPECIFICATION Spec
SYMMETRY Symmetry
INVARIANTS
    AnnouncedWritten
    SizedDescribesFile
PROPERTIES
    SizedImmutable
CHECK_DEADLOCK FALSE
