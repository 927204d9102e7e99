------------------------------- MODULE Panels -------------------------------
(***************************************************************************)
(* The two panels of the web interface (uiSlice and the components that    *)
(* dispatch to it).  The main panel follows the address: a click navigates *)
(* and the loader of the route tells the slice what to show.  The second   *)
(* panel, and search results, change the slice without an address.  Which  *)
(* component a panel shows, which node, what is ticked there and which     *)
(* version is open are separate fields, set by separate actions.  The rows *)
(* of a commander are those of the folder it showed before until those of  *)
(* the new one arrive.                                                     *)
(*                                                                         *)
(* Abstracted: sizes of the panels on the screen; texts; what is in a      *)
(* folder, which is fixed here (Commander has the listings that change);   *)
(* listings that fail.                                                     *)
(***************************************************************************)
EXTENDS Naturals, FiniteSets

CONSTANTS
    ParentOf,       \* own nodes: node -> its folder; a root is its own parent
    OwnDocuments,   \* those of them that are documents
    Homes, Inboxes, \* those of them that are roots: the user's and the groups'
    OwnHome, OwnInbox,
    SharedParent,   \* the same for what others share with the user
    SharedDocuments,
    DocTypes,       \* document types
    Fields,         \* custom fields of a document type
    MaxMoves,       \* bound: clicks that change what is shown
    MaxSettings     \* bound: clicks that change a setting or the selection

VARIABLES
    panels,     \* main and secondary: what the slice keeps for each
    search,     \* [on, other]: a search was made, its results open in the other panel
    shared,     \* [node, root] of the shared nodes
    url,        \* the address
    cookies,    \* what outlives the page: [navbar, main, secondary]
    navbar,     \* navbar.collapsed
    listing,    \* panel -> the folder whose rows its commander has, or NoNode
    astray,     \* history: panel -> nodes ticked among the rows of another folder
    clicks      \* bounds: [moves, settings]

panelVars == <<panels, search, shared, url, cookies, navbar, listing, astray, clicks>>

Modes == {"main", "secondary"}
OwnNodes == DOMAIN ParentOf
SharedNodes == DOMAIN SharedParent
ASSUME PanelsAssumption ==
    /\ OwnDocuments \subseteq OwnNodes /\ ParentOf \in [OwnNodes -> OwnNodes \ OwnDocuments]
    /\ Homes \cup Inboxes \subseteq OwnNodes /\ \A n \in Homes \cup Inboxes : ParentOf[n] = n
    /\ OwnHome \in Homes /\ OwnInbox \in Inboxes /\ Homes \cap Inboxes = {}
    /\ SharedDocuments \subseteq SharedNodes /\ SharedNodes \cap OwnNodes = {}
    /\ SharedParent \in [SharedNodes -> SharedNodes]
    /\ MaxMoves \in Nat /\ MaxSettings \in Nat

CTypeOf(n) == IF n \in OwnDocuments \cup SharedDocuments THEN "document" ELSE "folder"
Children(n) == {c \in OwnNodes : ParentOf[c] = n /\ c # n}
SharedRootID == "shared"
SharedListed(n) == {c \in SharedNodes : IF n = SharedRootID THEN SharedParent[c] = c
                                        ELSE SharedParent[c] = n /\ c # n}

NoNode == "none"

\* initialState: two fields of each panel come from cookies
FirstPanel(kept) ==
    [component |-> "none", node |-> NoNode, ctype |-> "none", selected |-> {}, filter |-> FALSE,
     size |-> "default", sortColumn |-> "updated_at", sortDir |-> "az", view |-> "tile",
     docType |-> NoNode, lastHome |-> NoNode, lastInbox |-> NoNode,
     columns |-> [t \in {} |-> Fields],
     thumbnails |-> kept.thumbnails, details |-> kept.details,
     zoom |-> 100, pages |-> {}, docVer |-> NoNode, page |-> 0]

-----------------------------------------------------------------------------
(* Reducers of uiSlice, as functions of the panels *)

\* mutant: the ticks are cleared in the main panel only
CurrentNodeChangedKeepsTicks(p, m, n, ctype) ==
    [p EXCEPT ![m].node = n, ![m].ctype = ctype, ![m].selected = IF m = "main" THEN {} ELSE @,
              ![m].component = IF ctype = "folder" THEN "commander" ELSE "viewer"]

CurrentNodeChanged(p, m, n, ctype) ==
    [p EXCEPT ![m].node = n, ![m].ctype = ctype, ![m].selected = {},
              ![m].component = IF ctype = "folder" THEN "commander" ELSE "viewer"]

\* mutant: a search forgets the node and not the component
MainPanelSwitchedToSearchResultsBlank(p) ==
    [p EXCEPT !["main"].node = NoNode, !["main"].ctype = "none"]

MainPanelSwitchedToSearchResults(p) ==
    [p EXCEPT !["main"].component = "searchResults", !["main"].node = NoNode, !["main"].ctype = "none"]
MainPanelComponentUpdated(p, component) == [p EXCEPT !["main"].component = component]
SecondaryPanelOpened(p, component) == [p EXCEPT !["secondary"].component = component]
SecondaryPanelClosed(p) == [p EXCEPT !["secondary"].component = "none"]
CommanderSelectionNodeAdded(p, m, n) == [p EXCEPT ![m].selected = @ \cup {n}]
CommanderSelectionNodeRemoved(p, m, n) == [p EXCEPT ![m].selected = @ \ {n}]
FilterUpdated(p, m, filter) == [p EXCEPT ![m].filter = filter]
CommanderLastPageSizeUpdated(p, m, size) == [p EXCEPT ![m].size = size]
CommanderSortMenuColumnUpdated(p, m, column) == [p EXCEPT ![m].sortColumn = column]
CommanderSortMenuDirectionUpdated(p, m, dir) == [p EXCEPT ![m].sortDir = dir]
ViewOptionUpdated(p, m, view) == [p EXCEPT ![m].view = view]
DocumentTypeIDUpdated(p, m, t) == [p EXCEPT ![m].docType = t]
LastHomeUpdated(p, m, n) == [p EXCEPT ![m].lastHome = n]
LastInboxUpdated(p, m, n) == [p EXCEPT ![m].lastInbox = n]
ViewerSelectionPageAdded(p, m, page) == [p EXCEPT ![m].pages = @ \cup {page}]
ViewerSelectionPageRemoved(p, m, page) == [p EXCEPT ![m].pages = @ \ {page}]
ViewerCurrentPageUpdated(p, m, page) == [p EXCEPT ![m].page = page]
CurrentDocVerUpdated(p, m, v) == [p EXCEPT ![m].docVer = v]
ZoomFactorIncremented(p, m) == [p EXCEPT ![m].zoom = IF @ + 10 < 300 THEN @ + 10 ELSE @]
ZoomFactorDecremented(p, m) == [p EXCEPT ![m].zoom = IF @ - 10 > 25 THEN @ - 10 ELSE @]
ZoomFactorReseted(p, m) == [p EXCEPT ![m].zoom = 100]

\* documentsByTypeCommanderColumnsUpdated: every column of the type is visible
ColumnsUpdated(p, m, t) ==
    [p EXCEPT ![m].columns = [u \in DOMAIN @ \cup {t} |-> IF u = t THEN Fields ELSE @[u]]]

\* documentsByTypeCommanderColumnVisibilityToggled
ColumnToggled(p, m, f, visible) ==
    [p EXCEPT ![m].columns[p[m].docType] = IF visible THEN @ \cup {f} ELSE @ \ {f}]

\* selectDocumentsByTypeCommanderColumns: the columns of the main panel, in both
MenuColumns(m) ==
    LET t == panels[m].docType IN IF t \in DOMAIN panels["main"].columns THEN Fields ELSE {}
VisibleColumns(m) ==
    LET t == panels[m].docType
    IN  IF t \in DOMAIN panels["main"].columns THEN panels["main"].columns[t] ELSE {}

\* selectCurrentDocumentID: the main panel without a document falls through
CurrentDocumentID(m) ==
    IF m = "main" /\ panels["main"].ctype = "document" THEN panels["main"].node
    ELSE IF panels["secondary"].ctype = "document" THEN panels["secondary"].node
    ELSE NoNode

-----------------------------------------------------------------------------
(* Routes.  Each loader dispatches to the slice; other pages have none.    *)

Url(path, id) == [path |-> path, id |-> id]
PanelPaths == {"folder", "document", "category", "shared folder", "shared document"}

FolderLoader(p, id) == CurrentNodeChanged(p, "main", id, "folder")
DocumentLoader(p, id) == CurrentNodeChanged(p, "main", id, "document")
CategoryLoader(p, id) ==
    LET picked == IF id = NoNode THEN p ELSE DocumentTypeIDUpdated(p, "main", id)
    IN  ViewOptionUpdated(MainPanelComponentUpdated(picked, "commander"), "main", "document-type")
\* currentSharedNodeChanged keeps the shared node apart from the panel; ticks stay
SharedFolderLoader(p) == MainPanelComponentUpdated(p, "sharedCommander")
SharedDocumentLoader(p) == MainPanelComponentUpdated(p, "sharedViewer")

Loaded(p, u) ==
    CASE u.path = "folder" -> FolderLoader(p, u.id)
      [] u.path = "document" -> DocumentLoader(p, u.id)
      [] u.path = "category" -> CategoryLoader(p, u.id)
      [] u.path = "shared folder" -> SharedFolderLoader(p)
      [] u.path = "shared document" -> SharedDocumentLoader(p)
      [] OTHER -> p

\* navigate(u) after the slice became p and the shared root r
Navigate(p, u, r) ==
    /\ panels' = Loaded(p, u) /\ url' = u
    /\ shared' = [node |-> IF u.path \in {"shared folder", "shared document"} THEN u.id ELSE shared.node,
                  root |-> r]
    /\ UNCHANGED <<search, cookies, navbar>>

\* only the slice changes
Dispatch(p) ==
    /\ panels' = p
    /\ UNCHANGED <<search, shared, url, cookies, navbar>>

-----------------------------------------------------------------------------
(* What is on the screen *)

OnPanels == url.path \in PanelPaths
Open(m) == OnPanels /\ (m = "main" \/ panels["secondary"].component # "none")
Shows(m, component) == Open(m) /\ panels[m].component = component
\* Commander: one component or the other
NodesShown(m) == Shows(m, "commander") /\ panels[m].view # "document-type" /\ panels[m].node # NoNode
ByTypeShown(m) == Shows(m, "commander") /\ panels[m].view = "document-type"

SharedShown(m) == Shows(m, "sharedCommander")

\* useGetPaginatedNodesQuery (and its like for shared nodes) keeps the data of the
\* last folder while it fetches those of the next, and isLoading is false then:
\* rows and buttons stay on the screen.  A commander that mounts has no data yet.
HasRows(m) == listing[m] # NoNode
RowsShown(m) == NodesShown(m) /\ HasRows(m)
SharedRowsShown(m) == SharedShown(m) /\ HasRows(m)
Wanted(m) == IF SharedShown(m) THEN (IF shared.node = NoNode THEN SharedRootID ELSE shared.node)
             ELSE panels[m].node
RowsArrive(m) ==
    /\ NodesShown(m) \/ SharedShown(m)
    /\ listing[m] # Wanted(m)
    /\ listing' = [listing EXCEPT ![m] = Wanted(m)]
    /\ UNCHANGED <<panels, search, shared, url, cookies, navbar, astray, clicks>>

\* the rows after any other step: a commander keeps them while it stays mounted,
\* which the main one does not when the second panel opens or closes (DualPanel)
Stays(m) ==
    /\ (NodesShown(m) /\ NodesShown(m)') \/ (SharedShown(m) /\ SharedShown(m)')
    /\ Open("secondary") <=> Open("secondary")'
Rows(rows) ==
    /\ listing' = [m \in Modes |-> IF Stays(m) THEN rows[m] ELSE NoNode]
    /\ astray' = [m \in Modes |-> {n \in panels'[m].selected \cap OwnNodes :
                      n \in astray[m] \/ (n \notin panels[m].selected /\ listing[m] # panels[m].node)}]

Move == clicks.moves < MaxMoves /\ clicks' = [clicks EXCEPT !.moves = @ + 1]
Setting == clicks.settings < MaxSettings /\ clicks' = [clicks EXCEPT !.settings = @ + 1]

\* NodesCommander and Viewer: a click on a node, or on a folder of the breadcrumb
GoTo(m, p, n) ==
    IF m = "secondary" THEN Dispatch(CurrentNodeChanged(p, m, n, CTypeOf(n)))
    ELSE Navigate(IF CTypeOf(n) = "folder" THEN CurrentDocVerUpdated(p, m, NoNode) ELSE p,
                  Url(CTypeOf(n), n), shared.root)

ClickNode(m) ==
    /\ Move /\ RowsShown(m)
    /\ \E n \in Children(listing[m]) : GoTo(m, panels, n)

\* onLocalClick of RootItem, the menu of roots in the breadcrumb: it takes the
\* clicked one for a home or an inbox by the root it is shown for
Roots == Homes \cup Inboxes
RootClicked(m, root, n) ==
    IF root \in Inboxes THEN LastInboxUpdated(panels, m, n) ELSE LastHomeUpdated(panels, m, n)

\* the breadcrumb of a list is of a query of its own, and late like the rows
ClickBreadcrumb(m) ==
    /\ Move /\ (RowsShown(m) \/ Shows(m, "viewer"))
    /\ \E at \in {panels[m].node} \cup (IF NodesShown(m) THEN {listing[m]} ELSE {}) :
       LET up == ParentOf[at]
       IN  \/ up \notin Roots /\ GoTo(m, panels, up)
           \/ \E n \in Roots : GoTo(m, RootClicked(m, IF up \in Roots THEN up ELSE ParentOf[up], n), n)

\* a click on one of the first links leaves the list by type
OnNavClick(p) == IF p["main"].view = "document-type" THEN ViewOptionUpdated(p, "main", "tile") ELSE p
NavBarFull ==
    LET main == panels["main"]
    IN  {Url("folder", IF main.lastHome = NoNode THEN OwnHome ELSE main.lastHome),
         Url("folder", IF main.lastInbox = NoNode THEN OwnInbox ELSE main.lastInbox)}
NavBarCollapsed == {Url("folder", OwnHome), Url("folder", OwnInbox)}
NavTargets == (IF navbar THEN NavBarCollapsed ELSE NavBarFull)
    \cup {Url("category", panels["main"].docType), Url("shared folder", SharedRootID), Url("dashboard", NoNode)}
ClickNavLink ==
    /\ Move
    /\ \/ \E u \in NavTargets : Navigate(OnNavClick(panels), u, shared.root)
       \/ Navigate(panels, Url("admin", NoNode), shared.root)

ToggleNavBar ==
    /\ Setting
    /\ navbar' = ~navbar /\ cookies' = [cookies EXCEPT !.navbar = ~navbar]
    /\ UNCHANGED <<panels, search, shared, url>>

\* ToggleSecondaryPanel
OpenSecondary ==
    /\ Move /\ panels["secondary"].component = "none"
    /\ RowsShown("main") \/ ByTypeShown("main") \/ Shows("main", "viewer")
    /\ LET main == panels["main"]
           n == IF main.node = NoNode THEN OwnHome ELSE main.node
           opened == SecondaryPanelOpened(panels, IF main.ctype = "folder" THEN "commander" ELSE "viewer")
       IN  Dispatch(CurrentNodeChanged(opened, "secondary", n,
                                       IF main.node = NoNode THEN "folder" ELSE main.ctype))
CloseSecondary ==
    /\ Move /\ Open("secondary")
    /\ RowsShown("secondary") \/ ByTypeShown("secondary") \/ Shows("secondary", "viewer")
    /\ Dispatch(SecondaryPanelClosed(panels))

\* DuplicatePanelButton
DuplicatePanel(m) ==
    /\ Move /\ Open("secondary") /\ (RowsShown(m) \/ Shows(m, "viewer"))
    /\ panels["main"].node # panels["secondary"].node
    /\ IF m = "main" THEN Dispatch(CurrentNodeChanged(panels, "secondary", panels[m].node, panels[m].ctype))
       ELSE Navigate(panels, Url(panels[m].ctype, panels[m].node), shared.root)

-----------------------------------------------------------------------------
(* Search: neither the search nor its results change the address *)

SearchEntered ==
    /\ Move
    /\ panels' = MainPanelSwitchedToSearchResults(panels)
    /\ search' = [on |-> TRUE, other |-> TRUE]
    /\ UNCHANGED <<shared, url, cookies, navbar>>

\* a result, with the number of the page for a document; or a link of its
\* breadcrumb, which takes the document itself for a folder
OnResultClick(m, n, ctype) ==
    LET p == CurrentNodeChanged(panels, m, n, ctype)
    IN  Dispatch(IF ctype = "document" THEN ViewerCurrentPageUpdated(p, m, 1) ELSE p)
ClickResult ==
    /\ Move /\ Shows("main", "searchResults")
    /\ LET m == IF search.other THEN "secondary" ELSE "main"
       IN  \/ \E n \in OwnNodes \ (Homes \cup Inboxes) : OnResultClick(m, n, CTypeOf(n))
           \/ \E n \in OwnNodes : OnResultClick(m, n, "folder")
SearchResultItemTargetUpdated ==
    /\ Setting /\ Shows("main", "searchResults")
    /\ search' = [search EXCEPT !.other = ~@]
    /\ UNCHANGED <<panels, shared, url, cookies, navbar>>
GoBack ==
    /\ Move /\ Shows("main", "searchResults")
    /\ Navigate(panels, Url("folder", OwnHome), shared.root)

-----------------------------------------------------------------------------
(* Documents by type *)

\* DocumentTypeFilter of either panel navigates the main one; without a choice
\* the address is /category/undefined
PickDocumentType(m) ==
    /\ Move /\ ByTypeShown(m)
    /\ \E t \in DocTypes : Navigate(DocumentTypeIDUpdated(panels, m, t), Url("category", t), shared.root)

\* the effect on data of useGetDocsByTypeQuery
DocsByTypeLoaded(m) ==
    /\ Setting /\ ByTypeShown(m) /\ panels[m].docType \in DocTypes
    /\ Dispatch(ColumnsUpdated(panels, m, panels[m].docType))

\* onColumnOptionsChanged asks for the opposite of what the menu says
ToggleColumn(m) ==
    /\ Setting /\ ByTypeShown(m) /\ panels[m].docType \in DOMAIN panels[m].columns
    /\ \E f \in MenuColumns(m) : Dispatch(ColumnToggled(panels, m, f, f \notin VisibleColumns(m)))

ClickRow(m) ==
    /\ Move /\ ByTypeShown(m) /\ panels[m].docType \in DocTypes
    /\ \E n \in OwnDocuments :
          \/ Dispatch(CurrentNodeChanged(panels, "secondary", n, "document"))
          \/ Navigate(panels, Url("document", n), shared.root)

-----------------------------------------------------------------------------
(* Shared nodes, in the main panel only *)

\* onClick of SharedCommander and SharedViewer: a node of the rows, or a folder of
\* the breadcrumb, which is late like the rows
ClickShared ==
    LET rows == IF SharedShown("main") THEN SharedListed(listing["main"]) ELSE {}
        at == {shared.node} \cup (IF SharedShown("main") THEN {listing["main"]} ELSE {})
    IN
    /\ Move /\ (SharedRowsShown("main") \/ Shows("main", "sharedViewer"))
    /\ \/ Navigate(panels, Url("shared folder", SharedRootID), NoNode)
       \/ \E n \in rows \cup {SharedParent[s] : s \in at \cap SharedNodes} :
             IF CTypeOf(n) = "folder"
             THEN Navigate(CurrentDocVerUpdated(panels, "main", NoNode), Url("shared folder", n),
                           IF SharedParent[n] = n THEN n ELSE shared.root)
             ELSE Navigate(panels, Url("shared document", n), shared.root)

-----------------------------------------------------------------------------
(* The selection and the settings of a panel *)

\* onCheck of the nodes of NodesCommander and SharedCommander
OnCheck(m, n) == IF n \in panels[m].selected THEN CommanderSelectionNodeRemoved(panels, m, n)
                 ELSE CommanderSelectionNodeAdded(panels, m, n)
CheckNode(m) ==
    /\ Setting
    /\ \/ RowsShown(m) /\ \E n \in Children(listing[m]) : Dispatch(OnCheck(m, n))
       \/ SharedRowsShown(m) /\ \E n \in SharedListed(listing[m]) : Dispatch(OnCheck(m, n))

\* SortMenu, ViewOptionsMenu, QuickFilter and Pagination of FolderNodeActions
SortMenu(m) == {CommanderSortMenuColumnUpdated(panels, m, c) : c \in {"title", "updated_at"}}
                  \cup {CommanderSortMenuDirectionUpdated(panels, m, d) : d \in {"az", "za"}}
ViewOptionsMenu(m) == {ViewOptionUpdated(panels, m, v) : v \in {"tile", "list"}}
QuickFilter(m) == {FilterUpdated(panels, m, f) : f \in BOOLEAN}
OnPageSizeChange(m) == {CommanderLastPageSizeUpdated(panels, m, "other")}
ChangeCommander(m) ==
    /\ Setting /\ (RowsShown(m) \/ SharedRowsShown(m))
    /\ \E p \in (SortMenu(m) \cup ViewOptionsMenu(m) \cup QuickFilter(m) \cup OnPageSizeChange(m)) \ {panels} :
          Dispatch(p)

ZoomContainer(m) == {ZoomFactorIncremented(panels, m), ZoomFactorDecremented(panels, m), ZoomFactorReseted(panels, m)}
ChangeViewer(m) ==
    /\ Setting /\ (Shows(m, "viewer") \/ Shows(m, "sharedViewer"))
    /\ LET page == CurrentDocumentID(m)
       IN  \/ \E p \in ZoomContainer(m) \ {panels} : Dispatch(p)
           \/ Dispatch(IF page \in panels[m].pages THEN ViewerSelectionPageRemoved(panels, m, page)
                       ELSE ViewerSelectionPageAdded(panels, m, page))
           \/ Dispatch(CurrentDocVerUpdated(panels, m, page))

ViewerThumbnailsPanelToggled(m) ==
    /\ panels' = [panels EXCEPT ![m].thumbnails = ~@]
    /\ cookies' = [cookies EXCEPT ![m].thumbnails = ~panels[m].thumbnails]
ViewerDocumentDetailsPanelToggled(m) ==
    /\ panels' = [panels EXCEPT ![m].details = ~@]
    /\ cookies' = [cookies EXCEPT ![m].details = ~panels[m].details]
TogglePart(m) ==
    /\ Setting /\ (Shows(m, "viewer") \/ Shows(m, "sharedViewer"))
    /\ ViewerThumbnailsPanelToggled(m) \/ ViewerDocumentDetailsPanelToggled(m)
    /\ UNCHANGED <<search, shared, url, navbar>>

\* the user reloads the page: the store starts again, the route is loaded
Reload ==
    /\ Move /\ OnPanels
    /\ panels' = Loaded([m \in Modes |-> FirstPanel(cookies[m])], url)
    /\ search' = [on |-> FALSE, other |-> FALSE]
    /\ shared' = [node |-> IF url.path \in {"shared folder", "shared document"} THEN url.id ELSE NoNode,
                  root |-> NoNode]
    /\ navbar' = cookies.navbar
    /\ UNCHANGED <<url, cookies>>

PanelsInit ==
    /\ cookies \in [navbar : {FALSE}, main : [thumbnails : {FALSE}, details : {FALSE}],
                    secondary : [thumbnails : {FALSE}, details : {FALSE}]]
    /\ url = Url("folder", OwnHome)
    /\ panels = Loaded([m \in Modes |-> FirstPanel(cookies[m])], url)
    /\ search = [on |-> FALSE, other |-> FALSE]
    /\ shared = [node |-> NoNode, root |-> NoNode]
    /\ navbar = FALSE
    /\ listing = [m \in Modes |-> NoNode] /\ astray = [m \in Modes |-> {}]
    /\ clicks = [moves |-> 0, settings |-> 0]

PanelStep ==
    \/ \E m \in Modes :
          \/ ClickNode(m) \/ ClickBreadcrumb(m) \/ DuplicatePanel(m)
          \/ PickDocumentType(m) \/ DocsByTypeLoaded(m) \/ ToggleColumn(m) \/ ClickRow(m)
          \/ CheckNode(m) \/ ChangeCommander(m) \/ ChangeViewer(m) \/ TogglePart(m)
    \/ ClickNavLink \/ ToggleNavBar \/ OpenSecondary \/ CloseSecondary
    \/ SearchEntered \/ ClickResult \/ SearchResultItemTargetUpdated \/ GoBack
    \/ ClickShared

PanelsNext ==
    \/ PanelStep /\ Rows(listing)
    \/ Reload /\ Rows([m \in Modes |-> NoNode])
    \/ \E m \in Modes : RowsArrive(m)

PanelsSpec == PanelsInit /\ [][PanelsNext]_panelVars

-----------------------------------------------------------------------------
(* Properties *)

\* Type invariant.
PanelsTypeOK ==
    /\ \A m \in Modes :
          /\ panels[m].component \in {"none", "commander", "viewer", "searchResults",
                                      "sharedCommander", "sharedViewer"}
          /\ panels[m].node \in OwnNodes \cup {NoNode}
          /\ panels[m].selected \subseteq OwnNodes \cup SharedNodes
          /\ panels[m].zoom > 25 /\ panels[m].zoom < 300
          /\ DOMAIN panels[m].columns \subseteq DocTypes
          /\ listing[m] \in OwnNodes \cup SharedNodes \cup {SharedRootID, NoNode}
          /\ astray[m] \subseteq OwnNodes
    /\ shared.node \in SharedNodes \cup {SharedRootID, NoNode}

\* Where a panel lists a folder, no node of another folder of the user's is
\* ticked (the buttons of FolderNodeActions delete, share and rename whatever is
\* ticked, seen or not), however the panel got there: by the address, by the
\* other panel, by search or over shared nodes and back.  Excepted are nodes that
\* were ticked in this panel, and since the ticks were last cleared, among the rows
\* of the folder before, while those of this one were on their way.
TickedHere ==
    \A m \in Modes : NodesShown(m) =>
        panels[m].selected \cap OwnNodes \subseteq Children(panels[m].node) \cup astray[m]

\* A viewer shows the document of its own panel, although the selector it asks
\* (selectCurrentDocumentID) goes on to the second panel when the main one has none.
ViewerHasDocument ==
    \A m \in Modes : Shows(m, "viewer") => /\ panels[m].ctype = "document"
                                           /\ CurrentDocumentID(m) = panels[m].node

=============================================================================
