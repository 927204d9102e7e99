CONSTANTS
    d1 = d1  d2 = d2  d3 = d3  d4 = d4  d5 = d5  d6 = d6
    a = a  b = b  c = c
    r1 = r1  r2 = r2  r3 = r3
    NoDoc = NoDoc
    Docs = {d1, d2, d3, d4, d5, d6}
    Content = {a, b, c}
    Initial <- OneDoc
    Uploads <- NoUploads
    Reqs = {r1}
    MaxVer = 9
    MaxPages = 3
    Ops = {"apply", "ocr"}
    Sequential = TRUE
    Crashes = FALSE
    StaleBase = FALSE
    Reorder = TRUE
    SameDocMove = FALSE
    Reupload = FALSE
    RedisPresent = FALSE
    SharedMedia = FALSE
SPECIFICATION Spec
SYMMETRY Symmetry
INVARIANTS
    TextFollowsContent
CHECK_DEADLOCK FALSE
