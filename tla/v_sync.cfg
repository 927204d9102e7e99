CONSTANTS
    folder = folder  doc = doc
    owner = owner  ann = ann  team = team
    view = view  edit = edit  see = see  change = change
    r1 = r1  r2 = r2  r3 = r3
    NoNode = NoNode
    Nodes = {folder, doc}
    Parent <- InFolder
    Owner <- Owned
    Users = {owner, ann}
    Groups = {team}
    Members <- TeamMembers
    Roles = {view, edit}
    Perms = {see, change}
    RolePerms <- PermsOf
    Reqs = {r1, r2}
    Start <- Shared
    Lists <- AccessLists
    Shares <- NoShares
SPECIFICATION Spec
SYMMETRY Symmetry
INVARIANTS
    SyncedToOneList
CHECK_DEADLOCK FALSE
