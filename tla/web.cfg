SPECIFICATION WebSpec
CONSTANTS
    Clickable <- MCClickable
    StoredRoles <- MCStoredRoles
    Ids <- MCIds
    InitialIds <- MCInitialIds
    PageSizes <- MCPageSizes
    DefaultSize = 2
    FilterMatches <- MCFilterMatches
    Columns <- MCColumns
    Bounds <- MCBounds
    Users <- MCUsers
    Groups <- MCGroups
    ShareRoles <- MCShareRoles
    FirstGrants <- MCFirstGrants
    MaxSaves = 1
    MaxPicks = 1
    ParentOf <- MCParentOf
    OwnDocuments = {"d"}
    Homes = {"home", "ghome"}
    Inboxes = {"inbox"}
    OwnHome = "home"
    OwnInbox = "inbox"
    SharedParent <- MCSharedParent
    SharedDocuments = {"sd"}
    DocTypes = {"t"}
    Fields = {"c"}
    MaxMoves = 3
    MaxSettings = 2
    NodeIds = {1, 2, 3, 4, 5}
    FolderIds = {1, 4}
    Root = 9
    FirstTree <- MCFirstTree
    Titles = {"a", "b"}
    Files = {"a", "d"}
    Supported = {"d"}
    PerPage = 2
    Clicks <- MCClicks
    Docs = {"d1", "d2"}
    FirstPages <- MCFirstPages
    BatchSize <- MCBatchSize
    Starts <- MCStarts
INVARIANTS
    WebTypeOK
    SavedIsShown
    EveryScopeKnown
    SettledIsCurrent
    EditsKeepFields
    EditsTheTicked
    SaveGivesNoMore
    TickedHere
    ViewerHasDocument
    ListedIsThere
    UploaderSettled
    PagesKept
    PicturesFollow
    NoThumbnailHole
CHECK_DEADLOCK FALSE
