------------------------------ MODULE DocViewer ------------------------------
(***************************************************************************)
(* The document viewer of the two panels.  Pages are rotated, deleted and  *)
(* reordered in the client's copy of a version until they are saved, which *)
(* makes a new version on the server; pages dragged from one viewer to     *)
(* another document or to a folder are moved there at once.  The pictures  *)
(* of the pages are drawn by the client from the PDF file of the version,  *)
(* a batch at a time, and are carried over, not drawn again, when one of   *)
(* the client's own calls makes a new version.                             *)
(*                                                                         *)
(* A page is named by its document, the number of its version and its own  *)
(* number.  Abstracted: a call is served when it is sent and answered any  *)
(* time later, in any order; the dialogs that only ask for confirmation;   *)
(* turning an image takes no time; opening other documents is Panels'.     *)
(***************************************************************************)
EXTENDS Integers, Sequences, FiniteSets, Functions, FiniteSetsExt

CONSTANTS
    Docs,           \* documents
    FirstPages,     \* document -> number of pages of its first version
    BatchSize,      \* size of picture -> pages drawn at a time (md: 3, sm: 6 in the code)
    Starts          \* first choices: [viewers, budget], what the panels show and the bounds
                    \* [picks, copies, calls, batches, others]

VARIABLES
    content,    \* server: version -> what its file holds, a sequence of [sheet, angle]
    head,       \* server: document -> number of its last version, 0 when deleted
    viewers,    \* mode -> the document it shows, "commander" or "closed"
    lastVersion,\* RTK Query: document -> answer of getDocLastVersion, 0 when none is kept
    docVers,    \* documentVersSlice: version -> pages, a sequence of [id, angle]
    latest,     \* docsSlice: document -> number of its latest version, 0 when unknown
    picked,     \* mode -> pages selected in its thumbnails
    drag,       \* dragndrop: ids of the dragged pages, <<>> when there is none
    flag,       \* viewerPageHaveChangedDialogVisibility
    pageCalls,  \* calls to /pages/ that are not answered
    pictures,   \* imageObjectsSlice: page -> [md, sm], NoPicture where missing
    pdf,        \* fileManager: the version whose file is kept, NoVersion when none is
    drawing,    \* generatePreviews thunks under way
    batchNo,    \* pagination of a version: <<version, size>> -> last batch asked for
    mixed,      \* history: versions whose pictures may be of other pages (see PicturesFollow)
    deleted,    \* history: version -> pages deleted in it since it was last reset
    budget      \* bounds: what is left

viewerVars == <<content, head, viewers, lastVersion, docVers, latest, picked, drag, flag,
                pageCalls, pictures, pdf, drawing, batchNo, mixed, deleted, budget>>
server == <<content, head>>
copies == <<docVers, deleted>>
images == <<pictures, pdf, drawing, batchNo>>
screen == <<viewers, lastVersion, picked, drag>>

Panes == {"main", "secondary"}
OtherMode(side) == IF side = "main" THEN "secondary" ELSE "main"
Sizes == {"md", "sm"}
NoVersion == <<"none", 0>>
NoPicture == [sheet |-> NoVersion, angle |-> 0]

ASSUME DocViewerAssumption ==
    /\ {"commander", "closed", "none"} \cap Docs = {}
    /\ FirstPages \in [Docs -> Nat \ {0}] /\ BatchSize \in [Sizes -> Nat \ {0}]
    /\ \A s \in Starts : s.viewers \in [Panes -> Docs \cup {"commander", "closed"}]
                         /\ s.viewers["main"] # "closed"

-----------------------------------------------------------------------------
(* Versions and pages *)

\* filter(): the elements of s that are in S, in their order
Filtered(s, S) ==
    LET places == {i \in DOMAIN s : s[i] \in S}
    IN  IF places = DOMAIN s THEN s
        ELSE [k \in 1..Cardinality(places) |-> s[CHOOSE i \in places : Cardinality({j \in places : j <= i}) = k]]

VersionOf(p) == <<p[1], p[2]>>
Number(p) == p[3]
PageIds(v) == [i \in DOMAIN content[v] |-> <<v[1], v[2], i>>]
InitialPages(v) == [i \in DOMAIN content[v] |-> [id |-> PageIds(v)[i], angle |-> 0]]
IdsOf(pages) == [i \in DOMAIN pages |-> pages[i].id]
\* the pages of the client's copy, sorted by number
SortedPages(v) == Filtered(PageIds(v), Range(IdsOf(docVers[v])))
Turned(picture, angle) == [picture EXCEPT !.angle = (@ + angle) % 4]     \* quarter turns
ContentOf(p) == content[VersionOf(p)][Number(p)]

NewVersion(d) == <<d, head[d] + 1>>
PagesHaveChanged(v) == docVers[v] # InitialPages(v)

\* what useCurrentDocVer returns to a panel: the latest version of its document
CurrentDocVer(side) ==
    IF viewers[side] \in Docs /\ latest[viewers[side]] # 0
      THEN <<viewers[side], latest[viewers[side]]>> ELSE NoVersion
Known(side) == CurrentDocVer(side) # NoVersion

SelectedPages(side) ==
    LET pages == docVers[CurrentDocVer(side)] IN Filtered(pages, {p \in Range(pages) : p.id \in picked[side]})

HasPicture(p, size) == p \in DOMAIN pictures /\ pictures[p][size] # NoPicture
\* the pages of a list: those in the version that have a picture
ListedPages(v, size) == Filtered(IdsOf(docVers[v]), {p \in DOMAIN pictures : HasPicture(p, size)})

\* pages of a batch, counted by number among the pages left in the version
PagesToCheck(v, size, batch) ==
    LET sorted == SortedPages(v)
        ofBatch == BatchSize[size] * (batch - 1) + 1 .. BatchSize[size] * batch
    IN  {sorted[i] : i \in ofBatch \cap DOMAIN sorted}
AllPreviewsAvailable(v, size, batch) == \A p \in PagesToCheck(v, size, batch) : HasPicture(p, size)

\* the viewer is displayed; until then there is a loader in its place
ViewerDisplayed(side) == Known(side) /\ AllPreviewsAvailable(CurrentDocVer(side), "md", 1)
\* pages the user can point at in the thumbnails panel
Thumbnails(side) == IF ViewerDisplayed(side) THEN ListedPages(CurrentDocVer(side), "sm") ELSE <<>>

\* PageHaveChangedDialog: each viewer reports when it mounts and when its answer changes,
\* to one flag for both
Reports(side) == IF ViewerDisplayed(side) THEN IF PagesHaveChanged(CurrentDocVer(side)) THEN "opened" ELSE "closed"
                                  ELSE "unmounted"
ReportsAnew(side) == Reports(side)' \notin {Reports(side), "unmounted"}
FlagEffect ==
    flag' = IF ReportsAnew("secondary") THEN Reports("secondary")'
            ELSE IF ReportsAnew("main") THEN Reports("main")' ELSE flag

Put(f, k, x) == [y \in DOMAIN f \cup {k} |-> IF y = k THEN x ELSE f[y]]
Spend(what) == budget[what] > 0 /\ budget' = [budget EXCEPT ![what] = @ - 1]

-----------------------------------------------------------------------------
(* Loading a version *)

\* addOne: what is there already stays
AddOne(f, v, x) == IF v \in DOMAIN f THEN f ELSE Put(f, v, x)

GetDocLastVersion(d) ==
    /\ d \in Range(viewers) /\ lastVersion[d] = 0 /\ head[d] # 0
    /\ lastVersion' = [lastVersion EXCEPT ![d] = head[d]]
    /\ docVers' = AddOne(docVers, <<d, head[d]>>, InitialPages(<<d, head[d]>>))
    /\ deleted' = AddOne(deleted, <<d, head[d]>>, {})
    /\ latest' = [latest EXCEPT ![d] = head[d]]
    /\ UNCHANGED <<server, viewers, picked, drag, pageCalls, images, mixed, budget>>

-----------------------------------------------------------------------------
(* Drawing the pictures *)

StartDrawing(v, size, batch, count, marked) ==
    LET firstPage == IF count > 0 THEN count ELSE (batch - 1) * BatchSize[size]
        lastPage == Min({firstPage + BatchSize[size], Len(docVers[v])})
    IN  /\ Spend("batches")
        /\ drawing' = drawing \cup {[ver |-> v, size |-> size, batch |-> batch, marked |-> marked,
                pages |-> SubSeq(SortedPages(v), firstPage + 1, lastPage)]}
        /\ UNCHANGED <<server, screen, copies, latest, pageCalls, pictures, pdf, batchNo, mixed>>

IsGenerating(v, size) == \E j \in drawing : j.ver = v /\ j.size = size /\ j.marked

\* on mounting and on each change of the version
GenerateFirstPreviews(side) ==
    LET v == CurrentDocVer(side)
    IN  /\ Known(side) /\ ~AllPreviewsAvailable(v, "md", 1)
        /\ StartDrawing(v, "md", 1, 0, FALSE)

FirstThumbnails(side) ==
    LET v == CurrentDocVer(side)
    IN  /\ ViewerDisplayed(side) /\ Thumbnails(side) = <<>> /\ ~IsGenerating(v, "sm")
        /\ StartDrawing(v, "sm", 1, 0, TRUE)

NextBatch(v, size) == IF <<v, size>> \in DOMAIN batchNo THEN batchNo[v, size] + 1 ELSE 2

\* a list is scrolled to its last page
ScrolledToLast(v, size) ==
    /\ ListedPages(v, size) # <<>> /\ Len(ListedPages(v, size)) < Len(docVers[v])
    /\ ~IsGenerating(v, size) /\ ~AllPreviewsAvailable(v, size, NextBatch(v, size))

MorePages(side) ==
    LET v == CurrentDocVer(side)
    IN  /\ ViewerDisplayed(side) /\ ScrolledToLast(v, "md")
        /\ StartDrawing(v, "md", NextBatch(v, "md"), 0, TRUE)

\* mutant: the next batch of thumbnails is counted in batches, as that of the pages is
MoreThumbnailsByBatch(side) ==
    LET v == CurrentDocVer(side)
    IN  /\ ViewerDisplayed(side) /\ ScrolledToLast(v, "sm")
        /\ StartDrawing(v, "sm", NextBatch(v, "sm"), 0, TRUE)

\* thumbnailListPageCount: the next batch starts after the thumbnails there are
MoreThumbnails(side) ==
    LET v == CurrentDocVer(side)
    IN  /\ ViewerDisplayed(side) /\ ScrolledToLast(v, "sm")
        /\ StartDrawing(v, "sm", NextBatch(v, "sm"), Len(Thumbnails(side)), TRUE)

EndDrawing(j) ==
    /\ drawing' = drawing \ {j}
    /\ batchNo' = IF j.marked THEN Put(batchNo, <<j.ver, j.size>>, j.batch) ELSE batchNo
    /\ UNCHANGED <<server, screen, copies, latest, pageCalls, budget>>

\* the file of the version, or what the download of the last version brings
FileFor(v) == IF pdf = v THEN v ELSE <<v[1], head[v[1]]>>

Drawn(j, f) ==
    [p \in DOMAIN pictures \cup Range(j.pages) |->
        LET old == IF p \in DOMAIN pictures THEN pictures[p] ELSE [md |-> NoPicture, sm |-> NoPicture]
        IN  IF p \in Range(j.pages) THEN [old EXCEPT ![j.size] = content[f][Number(p)]] ELSE old]

DrawPreviews(j) ==
    LET f == FileFor(j.ver)
    IN  /\ f[2] # 0
        /\ pdf' = f
        /\ IF \E p \in Range(j.pages) : Number(p) > Len(content[f])
             THEN UNCHANGED <<pictures, mixed>>             \* getPage throws
             ELSE /\ pictures' = Drawn(j, f)
                  /\ mixed' = IF f = j.ver THEN mixed ELSE mixed \cup {j.ver}
        /\ EndDrawing(j)

DownloadFails(j) ==
    /\ pdf # j.ver
    /\ EndDrawing(j) /\ UNCHANGED <<pictures, pdf, mixed>>

-----------------------------------------------------------------------------
(* Editing the client's copy *)

EditCopy(side, pages) ==
    /\ docVers' = [docVers EXCEPT ![CurrentDocVer(side)] = pages]
    /\ UNCHANGED <<server, viewers, lastVersion, latest, pageCalls, images, mixed>>

OnCheckPage(side, p) ==
    /\ Spend("picks") /\ p \in Range(Thumbnails(side))
    /\ picked' = [picked EXCEPT ![side] = IF p \in @ THEN @ \ {p} ELSE @ \cup {p}]
    /\ UNCHANGED <<server, viewers, lastVersion, copies, latest, drag, pageCalls, images, mixed>>

PagesRotated(side, angle) ==
    LET pages == docVers[CurrentDocVer(side)]
    IN  /\ Spend("edits") /\ ViewerDisplayed(side) /\ SelectedPages(side) # <<>>
        /\ EditCopy(side, [i \in DOMAIN pages |->
                IF pages[i] \in Range(SelectedPages(side)) THEN [pages[i] EXCEPT !.angle = @ + angle] ELSE pages[i]])
        /\ UNCHANGED <<picked, drag, deleted>>

\* all pages selected: the dialog about deleting the document opens instead
AllSelected(side) == Len(SelectedPages(side)) = Len(docVers[CurrentDocVer(side)])

PagesDeleted(side) ==
    LET v == CurrentDocVer(side)
        gone == Range(SelectedPages(side))
    IN  /\ Spend("edits") /\ ViewerDisplayed(side) /\ gone # {} /\ ~AllSelected(side)
        /\ EditCopy(side, Filtered(docVers[v], Range(docVers[v]) \ gone))
        /\ deleted' = [deleted EXCEPT ![v] = @ \cup {p.id : p \in gone}]
        /\ picked' = [picked EXCEPT ![side] = {}]
        /\ UNCHANGED drag

PagesReseted(side) ==
    LET v == CurrentDocVer(side)
    IN  /\ Spend("edits") /\ ViewerDisplayed(side) /\ flag = "opened"
        /\ EditCopy(side, InitialPages(v))
        /\ deleted' = [deleted EXCEPT ![v] = {}]
        /\ UNCHANGED <<picked, drag>>

\* the page dragged and the selected ones; the same page may come twice
OnDragStart(side, p) ==
    /\ Spend("picks") /\ p \in Range(Thumbnails(side))
    /\ drag' = <<p>> \o IdsOf(SelectedPages(side))
    /\ UNCHANGED <<server, viewers, lastVersion, picked, copies, latest, pageCalls, images, mixed>>

\* mutant: Reorder without its last lines: nothing is inserted after the last element
ReorderNotAfterLast(arr, sources, target, position) ==
    LET k == CHOOSE i \in DOMAIN arr : arr[i].id = target
        Others(s) == Filtered(s, {p \in Range(s) : p.id \notin sources})
        moved == IF position = "after" /\ k = Len(arr) THEN <<>> ELSE Filtered(arr, {p \in Range(arr) : p.id \in sources})
        at == Others(<<arr[k]>>)
    IN  Others(SubSeq(arr, 1, k - 1))
        \o (IF position = "before" THEN moved \o at ELSE at \o moved)
        \o Others(SubSeq(arr, k + 1, Len(arr)))

\* contains_every and reorder of utils.ts: the sources, in the order of arr, before or after target
Reorder(arr, sources, target, position) ==
    LET k == CHOOSE i \in DOMAIN arr : arr[i].id = target
        Others(s) == Filtered(s, {p \in Range(s) : p.id \notin sources})
        moved == Filtered(arr, {p \in Range(arr) : p.id \in sources})
        at == Others(<<arr[k]>>)
    IN  Others(SubSeq(arr, 1, k - 1))
        \o (IF position = "before" THEN moved \o at ELSE at \o moved)
        \o Others(SubSeq(arr, k + 1, Len(arr)))

OfThisVersion(side) == Range(drag) \subseteq Range(IdsOf(docVers[CurrentDocVer(side)]))

PagesDroppedInDoc(side, target, position) ==
    /\ Spend("edits") /\ target \in Range(Thumbnails(side))
    /\ drag # <<>> /\ OfThisVersion(side)
    /\ EditCopy(side, Reorder(docVers[CurrentDocVer(side)], Range(drag), target, position))
    /\ drag' = <<>>
    /\ UNCHANGED <<picked, deleted>>

-----------------------------------------------------------------------------
(* Calls to the server *)

\* srcOf and dstOf say from which pictures those of the new versions are carried, page by page
PageCall(kind, side, src, srcOf, dst, dstOf) ==
    [kind |-> kind, side |-> side, src |-> src, srcOf |-> srcOf, dst |-> dst, dstOf |-> dstOf]
Send(call) ==
    /\ Spend("calls") /\ pageCalls' = pageCalls \cup {call}
    /\ UNCHANGED <<screen, copies, latest, images>>

\* applyPageChangesThunk; apply_pages_op
ApplyPageChanges(side) ==
    LET v == CurrentDocVer(side)
        pageData == docVers[v]
        new == NewVersion(v[1])
    IN  /\ ViewerDisplayed(side) /\ flag = "opened" /\ head[v[1]] # 0
        /\ content' = Put(content, new,
                [i \in DOMAIN pageData |-> Turned(ContentOf(pageData[i].id), pageData[i].angle)])
        /\ head' = [head EXCEPT ![v[1]] = @ + 1]
        /\ UNCHANGED mixed
        /\ Send(PageCall("save", side, new, pageData, NoVersion, <<>>))

Unturned(ids) == [i \in DOMAIN ids |-> [id |-> ids[i], angle |-> 0]]
WithoutPages(s, S) == Filtered(s, Range(s) \ S)

\* what the client takes for the pages of the source after the call
GetSourceOrderedPageIDs(d, out) ==
    IF latest[d] = 0 THEN <<>> ELSE WithoutPages(SortedPages(<<d, latest[d]>>), out)

\* and of the target: firstPart ends a page early
GetTargetOrderedPageIDs(d, in, target, strategy) ==
    IF strategy = "replace" THEN in
    ELSE LET orig == SortedPages(<<d, latest[d]>>)
             k == CHOOSE i \in DOMAIN orig : orig[i] = target
             firstPart == SubSeq(orig, 1, IF k = 1 THEN Len(orig) - 1 ELSE k - 2)
         IN  firstPart \o in \o SubSeq(orig, k, Len(orig))

\* copy_without_pages: what stays of the version the dragged pages are of
KeptPages(ids) == WithoutPages(PageIds(VersionOf(Head(ids))), Range(ids))
Moved(ids) == Filtered(PageIds(VersionOf(Head(ids))), Range(ids))
Contents(ids) == [i \in DOMAIN ids |-> ContentOf(ids[i])]

\* move_pages and extract_pages on the source: a new version, or no document any more
SourceAfter(ids) == IF KeptPages(ids) = <<>> THEN NoVersion ELSE NewVersion(Head(ids)[1])
SourceMixed(ids) ==
    IF SourceAfter(ids) # NoVersion /\ GetSourceOrderedPageIDs(Head(ids)[1], Range(ids)) # KeptPages(ids)
      THEN {SourceAfter(ids)} ELSE {}

\* pages of another document are dropped on a thumbnail; TransferPagesModal is confirmed.
\* (Left out: pages of an older version of the same document, still dragged after a save.)
TransferPages(side, target, strategy) ==
    LET d == Head(drag)[1]
        t == CurrentDocVer(side)
        old == PageIds(t)
        at == Number(target)
        new == NewVersion(t[1])
        result == IF strategy = "replace" THEN Moved(drag)
                  ELSE SubSeq(old, 1, at - 1) \o Moved(drag) \o SubSeq(old, at, Len(old))
        src == SourceAfter(drag)
    IN  /\ drag # <<>> /\ target \in Range(Thumbnails(side)) /\ ~OfThisVersion(side)
        /\ head[d] # 0 /\ head[t[1]] # 0 /\ d # t[1]
        /\ content' = LET withTarget == Put(content, new, Contents(result))
                      IN  IF src = NoVersion THEN withTarget ELSE Put(withTarget, src, Contents(KeptPages(drag)))
        /\ head' = [head EXCEPT ![d] = IF src = NoVersion THEN 0 ELSE @ + 1, ![t[1]] = @ + 1]
        /\ mixed' = mixed \cup SourceMixed(drag) \cup {new}
        /\ Send(PageCall("move", side, src, Unturned(GetSourceOrderedPageIDs(d, Range(drag))),
                         new, Unturned(GetTargetOrderedPageIDs(t[1], drag, target, strategy))))

\* pages are dropped on a commander; ExtractPagesModal is confirmed
ExtractPages(side) ==
    LET d == Head(drag)[1]
        src == SourceAfter(drag)
    IN  /\ drag # <<>> /\ viewers[side] = "commander" /\ head[d] # 0
        /\ content' = IF src = NoVersion THEN content ELSE Put(content, src, Contents(KeptPages(drag)))
        /\ head' = [head EXCEPT ![d] = IF src = NoVersion THEN 0 ELSE @ + 1]
        /\ mixed' = mixed \cup SourceMixed(drag)
        /\ Send(PageCall("extract", side, src, Unturned(GetSourceOrderedPageIDs(d, Range(drag))), NoVersion, <<>>))

\* mutant: the pictures of a saved version are taken by page number, not by place
CarriedByNumber(pics, v, of) ==
    LET Old(i) == CHOOSE k \in DOMAIN of : Cardinality({m \in DOMAIN of : Number(of[m].id) < Number(of[k].id)}) = i - 1
        From(i) == of[Old(i)].id
        carried == {i \in DOMAIN content[v] \cap DOMAIN of : From(i) \in DOMAIN pics}
        Turn(pic, angle) == IF pic = NoPicture THEN NoPicture ELSE Turned(pic, angle)
    IN  [p \in DOMAIN pics \cup {PageIds(v)[i] : i \in carried} |->
            IF VersionOf(p) = v /\ Number(p) \in carried
              THEN [size \in Sizes |-> Turn(pics[From(Number(p))][size], of[Old(Number(p))].angle)]
              ELSE pics[p]]

\* rotateAndAddImageObjects and addImageObjects; a page without old picture gets none
Carried(pics, v, of) ==
    LET From(i) == of[i].id
        carried == {i \in DOMAIN content[v] \cap DOMAIN of : From(i) \in DOMAIN pics}
        Turn(pic, angle) == IF pic = NoPicture THEN NoPicture ELSE Turned(pic, angle)
    IN  [p \in DOMAIN pics \cup {PageIds(v)[i] : i \in carried} |->
            IF VersionOf(p) = v /\ Number(p) \in carried
              THEN [size \in Sizes |-> Turn(pics[From(Number(p))][size], of[Number(p)].angle)]
              ELSE pics[p]]

\* the new versions of an answer
NewVersions(c) == {c.src, c.dst} \ {NoVersion}
\* those the store has not, as addOne adds them
Arrived(c) == NewVersions(c) \ DOMAIN docVers
\* the source before the target
Latest(c) ==
    LET source == IF c.src = NoVersion THEN latest ELSE [latest EXCEPT ![c.src[1]] = c.src[2]]
    IN  IF c.dst = NoVersion THEN source ELSE [source EXCEPT ![c.dst[1]] = c.dst[2]]

\* the source is gone: the second panel closes, the first shows the target or the folder
SourceGone(c) ==
    IF c.kind = "save" \/ c.src # NoVersion THEN viewers
    ELSE IF c.side = "main" THEN [viewers EXCEPT !["secondary"] = "closed"]
    ELSE [viewers EXCEPT !["secondary"] = "closed",
                         !["main"] = IF c.kind = "move" THEN c.dst[1] ELSE "commander"]

PagesAnswered(c) ==
    /\ pageCalls' = pageCalls \ {c}
    /\ pictures' = LET source == IF c.src = NoVersion THEN pictures ELSE Carried(pictures, c.src, c.srcOf)
                   IN  IF c.dst = NoVersion THEN source ELSE Carried(source, c.dst, c.dstOf)
    /\ docVers' = [v \in Arrived(c) \cup DOMAIN docVers |-> IF v \in Arrived(c) THEN InitialPages(v) ELSE docVers[v]]
    /\ deleted' = [v \in Arrived(c) \cup DOMAIN deleted |-> IF v \in Arrived(c) THEN {} ELSE deleted[v]]
    /\ latest' = Latest(c)
    /\ viewers' = SourceGone(c)
    /\ picked' = IF c.kind = "extract" /\ c.src # NoVersion
                    THEN [picked EXCEPT ![OtherMode(c.side)] = {}] ELSE picked
    /\ mixed' = IF \E i \in DOMAIN c.srcOf : VersionOf(c.srcOf[i].id) \in mixed
                  THEN mixed \cup ({c.src} \ {NoVersion}) ELSE mixed
    /\ UNCHANGED <<server, lastVersion, drag, pdf, drawing, batchNo, budget>>

\* the confirmed dialog deletes the node of the panel; the first panel goes home even on failure
DeleteEntireDocument(side) ==
    /\ Spend("calls") /\ ViewerDisplayed(side)
    /\ \E ok \in BOOLEAN : head' = IF ok THEN [head EXCEPT ![viewers[side]] = 0] ELSE head
    /\ viewers' = [viewers EXCEPT !["main"] = "commander"]
    /\ UNCHANGED <<content, lastVersion, picked, drag, copies, latest, pageCalls, images, mixed>>

\* the same document saved elsewhere: its first page goes to the end
SomeoneSaves(d) ==
    /\ Spend("others") /\ head[d] # 0
    /\ LET old == content[<<d, head[d]>>]
       IN  content' = Put(content, NewVersion(d), Append(Tail(old), Head(old)))
    /\ head' = [head EXCEPT ![d] = @ + 1]
    /\ UNCHANGED <<screen, copies, latest, pageCalls, images, mixed>>

-----------------------------------------------------------------------------

ViewerInit ==
    /\ content = [v \in Docs \X {1} |-> [i \in 1..FirstPages[v[1]] |-> [sheet |-> <<v[1], i>>, angle |-> 0]]]
    /\ head = [d \in Docs |-> 1]
    /\ lastVersion = [d \in Docs |-> 0] /\ latest = [d \in Docs |-> 0]
    /\ docVers = <<>> /\ deleted = <<>>
    /\ picked = [side \in Panes |-> {}] /\ drag = <<>> /\ flag = "closed"
    /\ pageCalls = {} /\ pictures = <<>> /\ pdf = NoVersion /\ drawing = {} /\ batchNo = <<>>
    /\ mixed = {}
    /\ \E s \in Starts : viewers = s.viewers /\ budget = s.budget

ViewerAction ==
    \/ \E d \in Docs : GetDocLastVersion(d) \/ SomeoneSaves(d)
    \/ \E j \in drawing : DrawPreviews(j) \/ DownloadFails(j)
    \/ \E c \in pageCalls : PagesAnswered(c)
    \/ \E side \in Panes :
        \/ GenerateFirstPreviews(side) \/ FirstThumbnails(side) \/ MorePages(side) \/ MoreThumbnails(side)
        \/ PagesDeleted(side) \/ PagesReseted(side) \/ ApplyPageChanges(side)
        \/ ExtractPages(side) \/ DeleteEntireDocument(side)
        \/ \E angle \in {1, -1} : PagesRotated(side, angle)
        \/ \E p \in Range(Thumbnails(side)) :
            \/ OnCheckPage(side, p) \/ OnDragStart(side, p)
            \/ \E position \in {"before", "after"} : PagesDroppedInDoc(side, p, position)
            \/ \E strategy \in {"mix", "replace"} : TransferPages(side, p, strategy)

ViewerNext == ViewerAction /\ FlagEffect
ViewerSpec == ViewerInit /\ [][ViewerNext]_viewerVars

-----------------------------------------------------------------------------
(* Properties *)

\* The state is well typed, and every version the client knows exists on the server.
ViewerTypeOK ==
    /\ \A v \in DOMAIN content : v \in Docs \X Nat /\ \A i \in DOMAIN content[v] : content[v][i].angle \in 0..3
    /\ \A d \in Docs : {<<d, head[d]>>, <<d, lastVersion[d]>>, <<d, latest[d]>>}
                        \subseteq DOMAIN content \cup {<<d, 0>>}
    /\ viewers \in [Panes -> Docs \cup {"commander", "closed"}] /\ viewers["main"] # "closed"
    /\ DOMAIN docVers \subseteq DOMAIN content /\ DOMAIN deleted = DOMAIN docVers
    /\ \A p \in DOMAIN pictures : Number(p) \in DOMAIN content[VersionOf(p)]
    /\ flag \in {"opened", "closed"} /\ mixed \subseteq DOMAIN content

\* However the pages of a version were dragged, deleted, rotated and reset, the client's copy holds
\* each page that was not deleted exactly once, and never none: a save, which sends the copy, drops
\* no page that the user did not delete (reorder of utils.ts, documentVersSlice, Viewer).
PagesKept ==
    \A v \in DOMAIN docVers :
        LET ids == IdsOf(docVers[v])
        IN  ids # <<>> /\ IsInjective(ids) /\ Range(ids) = Range(PageIds(v)) \ deleted[v]

\* A picture is of the page it is shown for, turned as the page is in the file, though the new versions
\* of saved and extracted pages take their pictures from old pages and batches are drawn meanwhile.
\* The exceptions, in mixed: the target of a move (getTargetOrderedPageIDs), the source of a move or
\* an extraction while pages are deleted but not saved or while another version is shown than
\* the pages are of, a version drawn from the file of a later one, and what is saved from these.
PicturesFollow ==
    \A p \in DOMAIN pictures : VersionOf(p) \notin mixed =>
        \A size \in Sizes : pictures[p][size] \in {NoPicture, ContentOf(p)}

\* The thumbnails there are of a version are of its first pages, so the next batch, which is counted
\* from them, skips none ("to avoid a hole", ThumbnailListContainer.tsx), whatever was deleted or moved.
NoThumbnailHole ==
    \A v \in DOMAIN docVers \ mixed :
        LET sorted == SortedPages(v)
        IN  \A i, j \in DOMAIN sorted :
                i < j /\ HasPicture(sorted[j], "sm") => HasPicture(sorted[i], "sm")

=============================================================================
