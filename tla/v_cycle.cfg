CONSTANTS
    u = u  g = g
    uHome = uHome  uInbox = uInbox  gHome = gHome
    n1 = n1  n2 = n2  n3 = n3  n4 = n4
    a = a  b = b
    r1 = r1  r2 = r2  r3 = r3  r4 = r4
    NoNode = NoNode
    NoOwner = NoOwner
    NoTitle = NoTitle
    Nodes = {uHome, uInbox, gHome, n1, n2, n3}
    Owners = {u, g}
    Special <- Folders
    Start <- InPlace
    Tied = {g}
    Titles = {a, b}
    Reqs = {r1}
    Ops = {"create", "move"}
    Exclusive = {"move", "reparent"}
    MaxPick = 2
    CyclicMoves = TRUE
SPECIFICATION Spec
SYMMETRY Symmetry
INVARIANTS
    RootedAtSpecial
CHECK_DEADLOCK FALSE
