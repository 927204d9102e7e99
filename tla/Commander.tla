------------------------------ MODULE Commander ------------------------------
(***************************************************************************)
(* The folder listings of the two panels: what the user does with nodes    *)
(* (tick, drag, drop, delete, rename, tag, create, upload), the requests   *)
(* this makes, and the cache of answers (RTK Query) that decides which     *)
(* listings are fetched again.  Dialogs wait for answers and may be closed *)
(* meanwhile; uploads run beside everything else.                          *)
(*                                                                         *)
(* Abstracted: order, filter and page size are parts of the cache key that *)
(* work like the page number; the folder's own record (getFolder) comes    *)
(* with its listing; documents are not opened (Panels); the server lists   *)
(* nodes by id; moves below oneself, which the server accepts, are         *)
(* NodeTree's; the dialog about files nobody can upload changes nothing;   *)
(* Enter outside the dialog of titles, which sends the title the node had  *)
(* when it was ticked.                                                     *)
(***************************************************************************)
EXTENDS Naturals, FiniteSets

CONSTANTS
    NodeIds,        \* nodes that may exist
    FolderIds,      \* those of them that are folders
    Root,           \* the user's home, not one of NodeIds
    FirstTree,      \* nodes at first: node -> [parent, title, tagged]
    Titles,         \* titles of nodes
    Files,          \* files to upload, named by their title
    Supported,      \* those of a type that can be uploaded
    PerPage,        \* page size
    Clicks          \* first choices: the folder of the second panel or Nowhere, and the
                    \* bounds [second, looks, changes, uploads]

VARIABLES
    tree,       \* server: the nodes, as FirstTree
    panel,      \* mode -> [node, page, ticked, data]; data is what the list shows
    listings,   \* RTK Query: key -> answer
    calls,      \* queries and mutations in flight
    live,       \* numbers of the mutations whose dialog is still mounted, open or not
    hits,       \* tags whose invalidation waits for what is in flight
    dragged,    \* dragndrop: [nodes, from]
    modal,      \* the open dialog: [is, mode, at, files]
    away,       \* on the error page
    batches,    \* uploads running
    uploader,   \* uploader.files: <<file, target>> -> status
    missed,     \* auxiliary: folders a move left without naming them as its source
    done        \* bounds: what is left of the chosen clicks; ids given to nodes so far

commanderVars == <<tree, panel, listings, calls, live, hits, dragged, modal, away, batches, uploader, missed,
                  done>>

Sides == {"main", "secondary"}
Nowhere == 0
ASSUME CommanderAssumption ==
    /\ NodeIds \subseteq Nat \ {0} /\ FolderIds \subseteq NodeIds /\ Root \in Nat \ (NodeIds \cup {0})
    /\ DOMAIN FirstTree \subseteq NodeIds /\ Supported \subseteq Files /\ "" \notin Files
    /\ PerPage \in Nat \ {0}
    /\ IsFiniteSet(DOMAIN FirstTree)
    /\ \A n \in DOMAIN FirstTree :
          FirstTree[n] \in [parent : {Root} \cup (FolderIds \cap DOMAIN FirstTree), title : STRING, tagged : BOOLEAN]

-----------------------------------------------------------------------------
(* The server *)

IsFolder(n) == n = Root \/ n \in FolderIds \cap DOMAIN tree
ChildrenOf(f) == {n \in DOMAIN tree : tree[n].parent = f}
TitleTaken(f, title, but) == \E n \in ChildrenOf(f) \ but : tree[n].title = title

\* the nodes of S and all below them: what every set with S has that holds the
\* children of its members
Below(S) ==
    {n \in DOMAIN tree : \A X \in SUBSET DOMAIN tree :
        (\A m \in DOMAIN tree : m \in S \/ tree[m].parent \in S \cup X => m \in X) => n \in X}

Without(S) == [n \in DOMAIN tree \ Below(S) |-> tree[n]]
With(n, row) == [m \in DOMAIN tree \cup {n} |-> IF m = n THEN row ELSE tree[m]]

Key(f, page) == [folder |-> f, page |-> page]
NoData == [is |-> "none", folder |-> Nowhere, items |-> [n \in {} |-> 0], pages |-> 0]
Listing(key) ==
    LET all == ChildrenOf(key.folder)
        rank(n) == Cardinality({m \in all : m < n})
        page == {n \in all : rank(n) \div PerPage = key.page - 1}
    IN  IF IsFolder(key.folder)
        THEN [is |-> "ok", folder |-> key.folder, items |-> [n \in page |-> tree[n]],
              pages |-> (Cardinality(all) + PerPage - 1) \div PerPage]
        ELSE [NoData EXCEPT !.is = "gone", !.folder = key.folder]

-----------------------------------------------------------------------------
(* The cache, and what every step of the client brings about *)

\* a tag is the id of a node, or Every for the tag "Node" without id
Every == 0
ProvidesTag(tag, key, data) == tag = Every \/ tag = key.folder \/ tag \in DOMAIN data.items

\* mutant: a move invalidates the folder it moves to only
InvalidatesTagsTarget(r) ==
    CASE r.is \in {"add", "rename", "tags"} -> {Every}
      [] r.is = "delete" -> r.ids
      [] r.is = "move" -> {r.to}

\* invalidatesTags of each mutation, whether it succeeded or not
InvalidatesTags(r) ==
    CASE r.is \in {"add", "rename", "tags"} -> {Every}
      [] r.is = "delete" -> r.ids
      [] r.is = "move" -> {r.to, r.from}

NoDrag == [nodes |-> {}, from |-> Nowhere]
NoModal == [is |-> "none", mode |-> "main", at |-> Nowhere, files |-> {}]
FreshPanel(n) == [node |-> n, page |-> 1, ticked |-> {}, data |-> NoData]
\* the page number is the component's, the ticks are the slice's
MountedAnew(p) == [p EXCEPT !.page = 1, !.data = NoData]
PanelKey(p) == Key(p.node, p.page)
OpenSides(v) == {m \in Sides : v[m].node # Nowhere}

\* FolderNodeActions: the buttons that are there, each with its dialog
NewFolderButton(p) == p.ticked = {}
UploadButton(p) == p.ticked = {}
DeleteButton(p) == p.ticked # {}
EditNodeTitleButton(p) == Cardinality(p.ticked) = 1
EditNodeTagsButton(p) == Cardinality(p.ticked) = 1
\* the list and its folders hold the dialogs for what is dropped
DropNodesModalIn(p, d, at) == d # NoDrag /\ (at = Nowhere \/ at \in DOMAIN p.data.items)
ModalStays(v, d, w) ==
    LET p == v[w.mode]
    IN  /\ p.node # Nowhere /\ p.data # NoData
        /\ CASE w.is = "new" -> NewFolderButton(p)
             [] w.is = "upload" -> UploadButton(p)
             [] w.is = "delete" -> DeleteButton(p)
             [] w.is = "rename" -> EditNodeTitleButton(p)
             [] w.is = "tags" -> EditNodeTagsButton(p)
             [] w.is = "move" -> DropNodesModalIn(p, d, w.at)
             [] OTHER -> TRUE

\* useGetPaginatedNodesQuery keeps the last data until those of the new folder are there
Displayed(v, c) ==
    [m \in Sides |-> IF PanelKey(v[m]) \in DOMAIN c /\ c[PanelKey(v[m])].is = "ok"
                     THEN [v[m] EXCEPT !.data = c[PanelKey(v[m])]] ELSE v[m]]

NoNodeRow == [parent |-> Nowhere, title |-> "", tagged |-> FALSE]
Query(key) == [is |-> "query", no |-> 0, key |-> key, mode |-> "main", at |-> Nowhere, ids |-> {}, to |-> Nowhere,
               from |-> Nowhere, row |-> NoNodeRow, answered |-> FALSE, ok |-> FALSE, data |-> NoData]

\* the dialog a mutation was sent from
DialogOf(r) == [NoModal EXCEPT !.is = IF r.is = "add" THEN "new" ELSE r.is, !.mode = r.mode, !.at = r.at]

\* invalidationBehavior "delayed", and a 404 for a folder that is gone; all dialogs
\* are mounted anew with the second panel (DualPanel)
Ui(v, n, t, c, d, w) ==
    LET hit == IF n = {} THEN {k \in DOMAIN c : \E tag \in t : ProvidesTag(tag, k, c[k])} ELSE {}
        lost == \E m \in OpenSides(v) : PanelKey(v[m]) \in DOMAIN c /\ c[PanelKey(v[m])].is = "gone"
        wanted == IF lost THEN {} ELSE {PanelKey(v[m]) : m \in OpenSides(v)}
        seen == Displayed(v, c)
    IN  /\ panel' = seen /\ away' = lost /\ dragged' = d
        /\ listings' = [k \in (DOMAIN c \ hit) \cup (hit \cap wanted) |-> c[k]]
        /\ calls' = n \cup {Query(k) : k \in {q \in wanted : (q \notin DOMAIN c \/ q \in hit)
                                                     /\ ~\E r \in n : r.is = "query" /\ r.key = q}}
        /\ live' = {r.no : r \in {q \in n : /\ q.is # "query" /\ (q.no \in live \/ q \notin calls)
                                            /\ ~lost /\ OpenSides(v) = OpenSides(panel)
                                            /\ ModalStays(seen, d, DialogOf(q))}}
        /\ hits' = IF n = {} THEN {} ELSE t
        /\ modal' = IF w # NoModal /\ ~lost /\ ModalStays(seen, d, w) THEN w ELSE NoModal

Look == done' = [done EXCEPT !.looks = @ - 1] /\ done.looks > 0
Change == done' = [done EXCEPT !.changes = @ - 1] /\ done.changes > 0
Kept == UNCHANGED <<tree, batches, uploader, missed>>
Free == ~away /\ modal = NoModal
Panel(m, p) == Ui([panel EXCEPT ![m] = p], calls, hits, listings, dragged, modal)

-----------------------------------------------------------------------------
(* The panels *)

\* onClick on a folder of the list, or the home in the breadcrumb: the list stays
\* mounted, with its page number
EnterFolder(m) ==
    /\ Free /\ Look /\ m \in OpenSides(panel)
    /\ \E f \in ((FolderIds \cap DOMAIN panel[m].data.items) \cup {Root}) \ {panel[m].node} :
          Panel(m, [panel[m] EXCEPT !.node = f, !.ticked = {}])
    /\ Kept
OnPageNumberChange(m) ==
    /\ Free /\ Look /\ m \in OpenSides(panel) /\ DOMAIN panel[m].data.items # {}
    /\ \E page \in (1..panel[m].data.pages) \ {panel[m].page} : Panel(m, [panel[m] EXCEPT !.page = page])
    /\ Kept
ToggleSecond ==
    /\ Free /\ Look
    /\ Ui([m \in Sides |-> IF m = "main" THEN MountedAnew(panel[m])
                           ELSE FreshPanel(IF panel[m].node = Nowhere THEN panel["main"].node ELSE Nowhere)],
          calls, hits, listings, dragged, modal)
    /\ Kept
ToggleTick(m) ==
    /\ Free /\ Look /\ m \in OpenSides(panel)
    /\ \E n \in DOMAIN panel[m].data.items :
          Panel(m, [panel[m] EXCEPT !.ticked = IF n \in @ THEN @ \ {n} ELSE @ \cup {n}])
    /\ Kept
\* from the error page to the home: both panels are mounted again
LeaveErrorPage ==
    /\ away
    /\ Ui([panel EXCEPT !["main"] = FreshPanel(Root),
                        !["secondary"] = MountedAnew(@)],
          calls, hits, listings, dragged, modal)
    /\ Kept /\ UNCHANGED done

\* onDragStartLocal of a folder or a document: it goes with what is ticked.
\* Nothing ends the drag but a move.
DragNodesStarted(nodes, from) == [nodes |-> nodes, from |-> from]
OnDragStartLocal(m) ==
    /\ Free /\ Look /\ m \in OpenSides(panel)
    /\ \E n \in DOMAIN panel[m].data.items :
          LET d == DragNodesStarted({n} \cup panel[m].ticked, panel[m].node)
          IN  d # dragged /\ Ui(panel, calls, hits, listings, d, modal)
    /\ Kept

-----------------------------------------------------------------------------
(* Dialogs *)

Opens(w) == Ui(panel, calls, hits, listings, dragged, w)

\* the buttons of FolderNodeActions
OpenModal(m) ==
    /\ Free /\ m \in OpenSides(panel)
    /\ \E is \in {"new", "delete", "rename", "tags"} :
          /\ ModalStays(panel, dragged, [NoModal EXCEPT !.is = is, !.mode = m])
          /\ Opens([NoModal EXCEPT !.is = is, !.mode = m])
    /\ Kept /\ UNCHANGED done
\* onUpload of the button takes all files if one is supported
OnUpload(m) ==
    /\ Free /\ m \in OpenSides(panel) /\ panel[m].data # NoData /\ panel[m].ticked = {}
    /\ \E files \in SUBSET Files :
          files \cap Supported # {} /\ Opens([is |-> "upload", mode |-> m, at |-> Nowhere, files |-> files])
    /\ Kept /\ UNCHANGED done
\* onDrop of the list, for files or nodes
OnDrop(m) ==
    /\ Free /\ m \in OpenSides(panel) /\ panel[m].data # NoData
    /\ \/ \E files \in SUBSET Supported :
             files # {} /\ Opens([is |-> "drop", mode |-> m, at |-> Nowhere, files |-> files])
       \/ dragged # NoDrag /\ Opens([NoModal EXCEPT !.is = "move", !.mode = m])
    /\ Kept /\ UNCHANGED done
\* onLocalDrop of a folder: whatever is dropped, it offers to move what was dragged last
OnDropFolder(m) ==
    /\ Free /\ m \in OpenSides(panel) /\ dragged # NoDrag
    /\ \E f \in FolderIds \cap DOMAIN panel[m].data.items :
          Opens([NoModal EXCEPT !.is = "move", !.mode = m, !.at = f])
    /\ Kept /\ UNCHANGED done

\* Cancel, also while a request is in flight; three dialogs clear the selection
CancelModal ==
    /\ modal # NoModal
    /\ Ui(IF modal.is \in {"delete", "rename", "tags"} THEN [panel EXCEPT ![modal.mode].ticked = {}] ELSE panel,
          calls, hits, listings, dragged, NoModal)
    /\ Kept /\ UNCHANGED done

\* the button is disabled while a request of this dialog, or of the same one that was
\* cancelled and is still mounted, is in flight; Enter submits a title all the same
Call(is, ids, to, from, row) ==
    /\ is = "rename" \/ ~\E r \in calls : r.no \in live /\ DialogOf(r) = modal
    /\ Change
    /\ Ui(panel, calls \cup {[is |-> is, no |-> done.changes, key |-> Key(Nowhere, 1), mode |-> modal.mode, at |-> modal.at, ids |-> ids,
                              to |-> to, from |-> from, row |-> row, answered |-> FALSE, ok |-> FALSE,
                              data |-> NoData]},
          hits, listings, dragged, modal)
    /\ Kept

\* localSubmit, onLocalSubmit and onMoveNodes of the dialogs
Of == panel[modal.mode]
DeleteNodesModal == modal.is = "delete" /\ Call("delete", Of.ticked, Nowhere, Nowhere, NoNodeRow)
NewFolderModal ==
    modal.is = "new" /\ \E t \in Titles :
        Call("add", {}, Of.node, Nowhere, [NoNodeRow EXCEPT !.parent = Of.node, !.title = t])
EditNodeTitleModal ==
    modal.is = "rename" /\ \E t \in Titles : Call("rename", Of.ticked, Nowhere, Nowhere, [NoNodeRow EXCEPT !.title = t])
EditNodeTagsModal ==
    modal.is = "tags" /\ \E b \in BOOLEAN : Call("tags", Of.ticked, Nowhere, Nowhere, [NoNodeRow EXCEPT !.tagged = b])
DropNodesModal ==
    /\ modal.is = "move"
    /\ LET to == IF modal.at = Nowhere THEN Of.data.folder ELSE modal.at
       IN  /\ to # Nowhere /\ to \notin Below(dragged.nodes)
           /\ Call("move", dragged.nodes, to, dragged.from, NoNodeRow)

-----------------------------------------------------------------------------
(* Requests *)

\* what the server makes of a mutation, and whether it accepts it
Effects(r) ==
    LET there == r.ids \cap DOMAIN tree
        refused == [ok |-> FALSE, tree |-> tree]
    IN  CASE r.is = "delete" -> {[ok |-> TRUE, tree |-> Without(r.ids)]}
          [] r.is = "add" -> {refused} \cup
                 {[ok |-> TRUE, tree |-> With(n, r.row)] :
                     n \in {f \in FolderIds \ done.ids : IsFolder(r.to) /\ ~TitleTaken(r.to, r.row.title, {})}}
          [] r.is = "rename" -> {refused} \cup
                 {[ok |-> TRUE, tree |-> With(n, [tree[n] EXCEPT !.title = r.row.title])] :
                     n \in {k \in there : ~TitleTaken(tree[k].parent, r.row.title, {k})}}
          [] r.is = "tags" -> {refused} \cup
                 {[ok |-> TRUE, tree |-> With(n, [tree[n] EXCEPT !.tagged = r.row.tagged])] : n \in there}
          [] r.is = "move" -> {refused} \cup
                 {[ok |-> TRUE, tree |-> [n \in DOMAIN tree |-> IF n \in s THEN [tree[n] EXCEPT !.parent = r.to]
                                                                 ELSE tree[n]]] :
                     s \in {there} \cap {q \in {there} : /\ IsFolder(r.to) /\ r.to \notin Below(q)
                                                         /\ \A n \in q : ~TitleTaken(r.to, tree[n].title, q)}}

ServerAnswers(r) ==
    /\ r \in calls /\ ~r.answered
    /\ IF r.is = "query"
       THEN calls' = (calls \ {r}) \cup {[r EXCEPT !.answered = TRUE, !.data = Listing(r.key)]}
               /\ UNCHANGED <<tree, missed, done>>
       ELSE \E e \in Effects(r) :
               /\ calls' = (calls \ {r}) \cup {[r EXCEPT !.answered = TRUE, !.ok = e.ok]}
               /\ tree' = e.tree
               /\ missed' = IF r.is = "move" /\ e.ok
                            THEN missed \cup ({tree[n].parent : n \in r.ids \cap DOMAIN tree} \ {r.from}) ELSE missed
               /\ done' = [done EXCEPT !.ids = @ \cup DOMAIN e.tree]
    /\ UNCHANGED <<panel, listings, live, hits, dragged, modal, away, batches, uploader>>

ListingArrives(r) ==
    /\ r \in calls /\ r.is = "query" /\ r.answered
    /\ Ui(panel, calls \ {r}, hits,
          [k \in DOMAIN listings \cup {r.key} |-> IF k = r.key THEN r.data ELSE listings[k]], dragged, modal)
    /\ Kept /\ UNCHANGED done

\* the handler goes on after its await, refused or not and mounted or not; adding a
\* folder and changing tags have an effect on success, while they are mounted
GoesOn(r) == r.is \in {"add", "tags"} => r.ok /\ r.no \in live
\* commanderSelectionCleared, commanderAllSelectionsCleared
SelectionCleared(r) ==
    CASE r.is = "move" -> [m \in Sides |-> [panel[m] EXCEPT !.ticked = {}]]
      [] r.is \in {"delete", "rename", "tags"} /\ GoesOn(r) -> [panel EXCEPT ![r.mode].ticked = {}]
      [] OTHER -> panel
MutationDone(r) ==
    /\ r \in calls /\ r.is # "query" /\ r.answered
    /\ Ui(SelectionCleared(r), calls \ {r}, hits \cup InvalidatesTags(r), listings,
          IF r.is = "move" THEN NoDrag ELSE dragged,
          IF modal = DialogOf(r) /\ r.no \in live /\ GoesOn(r) THEN NoModal ELSE modal)
    /\ Kept /\ UNCHANGED done

\* keepUnusedDataFor is over
ListingExpires ==
    /\ \E k \in DOMAIN listings \ (IF away THEN {} ELSE {PanelKey(panel[m]) : m \in OpenSides(panel)}) :
          listings' = [q \in DOMAIN listings \ {k} |-> listings[q]]
    /\ UNCHANGED <<tree, panel, calls, live, hits, dragged, modal, away, batches, uploader, missed, done>>

-----------------------------------------------------------------------------
(* Uploads: DropFilesModal sends one file after the other with uploadFile  *)

\* uploaderFileItemUpdated
ItemUpdated(file, target, status) ==
    [i \in DOMAIN uploader \cup {<<file, target>>} |-> IF i = <<file, target>> THEN status ELSE uploader[i]]

\* Upload and Cancel alike; the buttons stay enabled while files are sent
LocalSubmit ==
    /\ modal.is \in {"upload", "drop"} /\ panel[modal.mode].data.folder # Nowhere
    /\ Cardinality(modal.files) <= done.uploads
    /\ done' = [done EXCEPT !.uploads = @ - Cardinality(modal.files)]
    /\ batches' = batches \cup {[no |-> done.uploads, is |-> modal.is, mode |-> modal.mode, rest |-> modal.files,
                                 file |-> "", target |-> panel[modal.mode].data.folder, node |-> Nowhere]}
    /\ UNCHANGED <<tree, panel, listings, calls, live, hits, dragged, modal, away, uploader, missed>>

Batch(b, next) == batches' = (batches \ {b}) \cup {next}
\* the file was read and its item says uploading
UploadStarts(b) ==
    /\ b \in batches /\ b.file = ""
    /\ \E file \in b.rest :
          /\ Batch(b, [b EXCEPT !.file = file, !.rest = @ \ {file}])
          /\ uploader' = ItemUpdated(file, b.target, "uploading")
    /\ UNCHANGED <<tree, panel, listings, calls, live, hits, dragged, modal, away, missed, done>>
\* the file cannot be read: uploadFile is rejected, and the loop breaks off on its result
UploadBreaksOff(b) ==
    /\ b \in batches /\ b.file = "" /\ b.rest # {}
    /\ batches' = batches \ {b}
    /\ UNCHANGED <<tree, panel, listings, calls, live, hits, dragged, modal, away, uploader, missed, done>>

\* the end of uploadFile and of its turn of the loop; after the last, the dialog closes
Finished(b, status) ==
    /\ IF b.rest = {} THEN batches' = batches \ {b}
       ELSE Batch(b, [b EXCEPT !.file = "", !.node = Nowhere])
    /\ uploader' = ItemUpdated(b.file, b.target, status)
    /\ Ui(panel, calls, hits \cup {Every}, listings, dragged,
          IF b.rest = {} /\ modal.is = b.is /\ modal.mode = b.mode THEN NoModal ELSE modal)

\* mutant: the refusal of a node leaves the item as it is
CreateRefusedSilently(b) == Finished(b, "uploading")

\* POST /api/nodes/ answers with a node, refuses, or its answer is lost
CreateRefused(b) == Finished(b, "failure")
NodeCreated(b) ==
    /\ b \in batches /\ b.file # "" /\ b.node = Nowhere
    /\ \/ CreateRefused(b) /\ UNCHANGED <<tree, done>>
       \/ \E n \in NodeIds \ (FolderIds \cup done.ids) :
             /\ IsFolder(b.target) /\ ~TitleTaken(b.target, b.file, {})
             /\ tree' = With(n, [parent |-> b.target, title |-> b.file, tagged |-> FALSE])
             /\ done' = [done EXCEPT !.ids = @ \cup {n}]
             /\ \/ /\ Batch(b, [b EXCEPT !.node = n])
                   /\ UNCHANGED <<panel, listings, calls, live, hits, dragged, modal, away, uploader>>
                \/ Finished(b, "failure")
    /\ UNCHANGED missed

\* POST /api/documents/<id>/upload succeeds, or is refused or lost and leaves the node empty
FileSent(b) ==
    /\ b \in batches /\ b.node # Nowhere
    /\ \/ b.node \in DOMAIN tree /\ Finished(b, "success")
       \/ Finished(b, "failure")
    /\ UNCHANGED <<tree, missed, done>>

CloseUploader ==
    /\ DOMAIN uploader # {}
    /\ uploader' = [i \in {} |-> "none"]
    /\ UNCHANGED <<tree, panel, listings, calls, live, hits, dragged, modal, away, batches, missed, done>>

-----------------------------------------------------------------------------
CommanderInit ==
    /\ tree = FirstTree
    /\ listings = [k \in {} |-> NoData]
    /\ live = {} /\ hits = {} /\ dragged = NoDrag /\ modal = NoModal /\ away = FALSE
    /\ batches = {} /\ uploader = [i \in {} |-> "none"] /\ missed = {}
    /\ \E c \in Clicks :
          /\ panel = [m \in Sides |-> FreshPanel(IF m = "main" THEN Root ELSE c.second)]
          /\ done = [looks |-> c.looks, changes |-> c.changes, uploads |-> c.uploads, ids |-> DOMAIN FirstTree]
    /\ calls = {Query(PanelKey(panel[m])) : m \in OpenSides(panel)}

CommanderNext ==
    \/ \E m \in Sides :
          \/ EnterFolder(m) \/ OnPageNumberChange(m) \/ ToggleTick(m) \/ OnDragStartLocal(m)
          \/ OpenModal(m) \/ OnUpload(m) \/ OnDrop(m) \/ OnDropFolder(m)
    \/ ToggleSecond \/ LeaveErrorPage \/ CancelModal
    \/ DeleteNodesModal \/ NewFolderModal \/ EditNodeTitleModal \/ EditNodeTagsModal \/ DropNodesModal
    \/ \E r \in calls : ServerAnswers(r) \/ ListingArrives(r) \/ MutationDone(r)
    \/ ListingExpires \/ LocalSubmit \/ CloseUploader
    \/ \E b \in batches : UploadStarts(b) \/ UploadBreaksOff(b) \/ NodeCreated(b) \/ FileSent(b)

CommanderSpec == CommanderInit /\ [][CommanderNext]_commanderVars

-----------------------------------------------------------------------------
(* Properties *)

\* Type invariant.
CommanderTypeOK ==
    /\ DOMAIN tree \subseteq NodeIds /\ \A n \in DOMAIN tree : IsFolder(tree[n].parent)
    /\ \A m \in Sides : panel[m].ticked \subseteq NodeIds /\ panel[m].page > 0
    /\ dragged.nodes \subseteq NodeIds
    /\ modal.is \in {"none", "new", "delete", "rename", "tags", "move", "upload", "drop"}
    /\ \A i \in DOMAIN uploader : uploader[i] \in {"uploading", "success", "failure"}

\* Once nothing is in flight, a cached listing of a folder that still exists shows
\* no node that this client deleted or moved away, and every node as it now is,
\* whichever panel shows the folder or will show it again, and however dialogs
\* and drags overlapped.  But for one race of the code (missed): until the
\* listing of a folder arrives the nodes of the last one are still shown, and
\* one dragged off then is moved with the wrong sourceFolderID.
ListedIsThere ==
    calls = {} /\ batches = {} =>
        \A k \in DOMAIN listings : IsFolder(k.folder) /\ k.folder \notin missed =>
            \A n \in DOMAIN listings[k].items :
                n \in DOMAIN tree /\ tree[n] = listings[k].items[n]

\* When no upload runs, no item of the uploader is left saying that it does,
\* whichever request failed, whatever else was sent to the same folder under
\* the same name, and whether or not the uploader was closed meanwhile.
UploaderSettled == batches = {} => \A i \in DOMAIN uploader : uploader[i] # "uploading"

=============================================================================
