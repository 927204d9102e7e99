# Papermerge core: a TLA+ verification project

Papermerge is a document management system. Its core is a FastAPI server
(`src/papermerge/core`) over a relational database, a media directory with the
PDF files, and a message broker; beside it stand an authentication server
(`src/auth-server`) and a React client (`src/frontend`). This directory models
the parts of the server that change documents, folders and grants, and the parts
of the client that decide what a user sees, ticks and sends; it checks them with
TLC and proves their main invariants with TLAPS.

Every request is a coroutine. It commits to the database several times, writes
files between the commits and sends tasks after them; there are no locks, no
`SELECT ... FOR UPDATE` and no transaction around a whole handler. Two requests
interleave at every `await` that reaches the database, and a crash leaves
whatever was committed. Most of what is hard about the server follows from that.
The client keeps copies: of answers (RTK Query), of versions being edited, of
pictures drawn from files, of what is ticked in a list that has changed since. What
is hard about it is that clicks, answers, invalidations and failures come in any
order.

## 1. Inventory

| Component (sources under `src/`) | State | Operations | Status |
|---|---|---|---|
| document versions and pages: `features/document/db/api.py`, `features/page_mngm/db/api.py` | rows of `document_versions` and `pages`, one file per version, OCR directories | create, upload (PDF, image), apply page operations, move pages (mix, replace), extract pages (one, all), delete | `DocVersions` |
| node tree: `features/nodes/db/api.py`, `features/nodes/router.py`, `db/common.py` | rows of `nodes`: parent, owner, title; accounts with home and inbox | create, update (title, parent), move, delete | `NodeTree` |
| shared nodes: `features/shared_nodes` | grants (node, user or group, role) | share, list, update the grants of a node | `Sharing` over `AccessTable` |
| users and groups: `features/users`, `features/groups` | accounts, special folders, memberships | create, update, delete | not modelled; owners in `NodeTree` |
| roles and permissions: `features/roles`, `has_node_perm` in `db/common.py` | roles, permissions | create, update, delete, synchronise, check | check and delete in `Sharing` |
| tags, document types, custom fields | rows and their values on documents | create, update, assign, change of type | not modelled |
| current user: `features/auth` | none of its own | look up, create on the fly | not modelled |
| authentication server | one-time codes, two-factor flag, reset tokens | log in, send and verify a code, reset | not modelled |
| task queue: `tasks.py`, `celery_app.py` | none; hands tasks to a broker | `send_task` | as the set `sent` |
| search index, OCR, S3, preview workers | outside this repository | consume the tasks | external |
| previews, downloads, listings, selectors | read only | | not modelled |
| activity and event log | rows appended, failures ignored | | not modelled |
| client, roles: `ui/src/features/roles`, `kommon` `RoleForm` | checked permissions of a dialog | open, click, toggle all, save | `RoleForm` |
| client, administration: tags, roles, groups, users, custom fields, document types | table view, ticks, dialogs, cache of answers | page, sort, filter, tick, add, edit, delete | `AdminLists` |
| client, sharing: `ui/src/features/shared_nodes` | dialog state that outlives a dialog, cached grants | share, pick roles, remove, save | `ShareDialog` |
| client, panels: `uiSlice.ts`, routes and loaders | two panels: node, view, selection; cookies | follow links, search, open and close panels, tick | `Panels` |
| client, commander and uploader: `features/nodes`, `features/files` | listings of folders, drags, uploads | tick, drag, drop, delete, rename, tag, upload | `Commander` |
| client, viewer: `features/document` | edited versions, pictures, batches | rotate, delete, reorder, save, move, extract | `DocViewer` |
| rest of the client (reports, dashboard, login, texts) | none | | not modelled |
| schema migrations, command line, settings, liveness probe | | | not modelled |

How they interact: the router checks permissions, calls one function of a
`db/api.py`, and that function reads rows, writes rows and files, and sends
tasks. Page operations call `create_document` and `version_bump` of the
document component; a move or an extraction that empties its source deletes a
node; deleting a node deletes its versions and pages by cascade (files stay for
a worker); deleting a home or inbox deletes an account by cascade, and that all
its nodes. The OCR worker writes the texts of pages into the same rows. The
client's parts share one Redux store: the panels say which folder or document is
open, the commander and the viewer act on it, every mutation invalidates cached
answers by tag, and pages dragged from a viewer to a commander become calls of
the page operations.

What makes each part correct, and what is hard about it:

* *Versions and pages.* History is never rewritten; a version that is announced
  exists on disk; the last version has one row per page of its PDF, with the
  text of that page; no page is lost; a source is deleted only after its pages
  are elsewhere. Hard: eight commits and three file writes in one handler, stale
  versions in the client, OCR racing with the copy of texts, failures half way.
* *Node tree.* A tree under homes and inboxes; one owner per tree; distinct
  titles per folder; a delete takes exactly the subtree; the index follows.
  Hard: the owner of the parent and the descendants are read before they are
  used; cascades across three tables.
* *Sharing.* An update of the access of a node makes its grants the list that
  was sent, and what is shared is what a check of a permission finds. Hard: no
  unique constraint, two selects and two deletes before the commit, rows of
  users and groups told apart by NULL.
* *Roles in the client.* What is checked survives the way to the server and back,
  in the words of each. Hard: two vocabularies, several scopes to one.
* *Tables and listings in the client.* Once nothing is in flight, what is kept shows
  what was saved; a form holds the row it edits. Hard: queries older than the
  mutation that spoils them, invalidations that wait, rows that arrive late.
* *Sharing dialogs.* A save gives nobody a role that nobody asked for. Hard: state
  of a dialog that outlives it.
* *Panels.* Buttons act on what is on the screen. Hard: ticks are kept while
  folders change by address, search or the other panel.
* *Viewer.* No page is lost between a drag and a save; a picture is of its page.
  Hard: positions in lists, new versions that take over old pictures while batches
  are being drawn.

`PROJECT.json` lists the hazards at their lines, with the properties that cover
them or the reason why none does yet.

## 2. Plan

1. `DocVersions` (done): the value of the product is in it, and most ways to lose data.
2. `NodeTree` (done).
3. `Sharing` over the abstract `AccessTable` (done).
4. The client (done): `RoleForm`, `AdminLists`, `ShareDialog`, `Panels`,
   `Commander`, `DocViewer`, and `MCWeb` that runs them.
5. Left: `Accounts` (creation of users and groups with deferred constraints,
   special folders switched on and off) and `CustomFields` (values of a document
   under `update_doc_cfv` and `update_doc_type`, tags by name). Section 9 says
   what stands in the way.

Abstract specifications worth stating: a table of grants (`AccessTable`, done), and a
document as an append-only list of versions, which `DocVersions` implements only
when requests do not overlap.
Every safety property that the passing runs check has a theorem. Next:
`DocVersions` step by step as such a list for sequential clients, on the invariants
of `DocVersionsPages_proofs`.

## 3. DocVersions

One action per stretch of a handler between two commits, file writes or
announcements. The record of a request holds the local variables of its handler
that survive such a point (what it read, which rows the user chose, the version
it created), and `pc`.

| Actions | Code |
|---|---|
| `BeginApply`, `BeginMove`, `BeginExtract` | router and the first reads of `apply_pages_op`, `move_pages`, `extract_pages` |
| `SrcRead`, `SrcInsert` | `version_bump` of the source: read the last version, insert its successor with its pages |
| `SrcPdf`, `SrcText`, `SrcNotify` | `copy_pdf_pages` or `copy_pdf`, `copy_text_field`, `notify_version_update` |
| `DstRead` ... `DstNotify`, `Purge` | `move_pages_mix` and `move_pages_replace`, with the delete of an emptied source |
| `ExtRead` ... `ExtNotify` | `extract_to_single_paged_docs`, `extract_to_multi_paged_doc`, `notify_add_docs` |
| `Create`, `BeginUpload`, `UpFile`, `UpCommit`, `UpNotify` | `create_document`; `create_next_version` and `upload` |
| `BeginDelete`, `DelCommit`, `DelNotify` | `delete_nodes` for one document |
| `OcrDone` | the OCR worker, external: recognises pages that have no text yet |
| `Crash` | the process dies between two of these points |

Data is abstracted: a page image is a member of `Content`, a PDF a sequence of
them, a text the image it was recognised from. Where SQL leaves an order open
(equal numbers under `ORDER BY number`) the model takes every order. A numbers
listing is 1-based as in the code. Rotation, languages and file names are left
out.

`NextVersion` is `create_next_version`: the newest version of size 0, else a new
one. An image calls it twice. The second call no longer finds the version of the
first, whose size the session has flushed, but it may find an older version of size
0 that a page operation left, with a file: the PDF overwrites it. `FillTarget` is
the same search in `version_bump_from_pages`, where a version made for want of one
is never added to the session; the handler then raises.

Runs:

| Run | Question | Bounds |
|---|---|---|
| `pages_seq` | do page operations and OCR keep documents in order when a client waits for each answer? | two documents of 2 and 1 pages, 2 requests, all four operations, 9 versions: a second operation works on what the first one left, OCR at any moment |
| `conc_pages` | which guarantees survive overlapping requests? | the same documents, 2 requests that interleave at every commit, from any version, within one document too, with deletions |
| `uploads` | is an upload safe to repeat and to cut off, also when it fills versions that page operations left? | 3 requests, one after the other, among create, PDF upload, image upload, apply and delete, a crash at any point, two different files: two applies leave two versions of size 0 for the image that follows |
| `v_numbers` | are version numbers unique? (no) | two overlapping applies |
| `v_reorder` | do texts follow a reorder? (no) | one apply with reordering, OCR |
| `v_extract_redis` | is an emptied source deleted when a broker is configured? (no) | one extraction |

Two requests are enough for the interleavings: every read that a handler makes
before a write is about the last version of one document or about its own
versions, so one other request is what it takes to make it stale. Three
requests are used where a repetition matters (upload, crash, upload again).
Version identities bound the runs: a handler that would need another one waits,
which only `pages_seq` could see as a missing step, and there 9 versions are
more than two requests create.

*Sequential* (`pages_seq`, `uploads`) is the assumption that the clients of one
document do not overlap. The properties of these runs are false without it, and
section 8 says how.

*Fairness.* `EmptiedSourceGoes` is checked under `FairSpec`: weak fairness of
the steps of each handler, because the event loop resumes a coroutine whose
database call has returned. Neither requests, OCR nor crashes are fair. The run
has no crash and shared media off, so no handler is stopped by an exception.

## 4. NodeTree

`node` is the table: parent, owner, title. Foreign keys, the unique constraints
and `ON DELETE CASCADE` are operators (`References`, `TitlesUnique`, `Doomed`)
that decide whether a statement commits (`Legal`, `Removable`); a violated one
is the exception that ends the handler. The recursive queries are least closed
sets (`Above`, `Below`), and `QueryEnds` says when the recursion, a `UNION ALL`,
stops at all. `Special` gives each account its home and inbox.
The ids of new nodes are the next unused ones; one that a client sends, which the
routes allow, is left out, and with it that a deleted node's id comes back.

A `PATCH` may name any folder as the parent, of another account too, and leaves the
owner as it was. `strays` is the history of the nodes that this put below a folder of
another account, until a move carries them and gives them its owner. No action reads
it. `OwnersFollowParents` and `SiblingTitlesDistinct` except these nodes, and only
these: what is below a stray still has its owner, which is what a move of the target
has to keep true for a subtree of two owners.

| Actions | Code |
|---|---|
| `BeginCreate`, `CreRead`, `CreInsert`, `CreNotify` | `create_node`: the owner of the parent, the insert, the announcement |
| `BeginRename`, `BeginReparent`, `UpdCommit`, `UpdNotify` | `update_node`: title or `parent_id`, owners untouched |
| `BeginMove`, `MovTarget`, `MovTree`, `MovCommit` | `move_nodes`: the target, the descendants, one transaction with the new parent and owner |
| `BeginDelete`, `DelTree`, `DelCommit`, `DelNotify` | `delete_nodes`: the descendants, the delete with its cascades, the index |

Run `nodes`: a user with home and inbox, a group with a home that other rows
refer to, a folder in a folder, room for one more node, two titles, three
requests. Creations, renames and deletions interleave freely; moves and
changes of parent run alone (`Exclusive`), across the two accounts as well, and a
folder is not moved below itself. That is enough for a delete to meet a new child below what it read, for
a create to lose its parent, for a move across accounts to change owners of a
subtree with a stray in it and collide on a title, for two nodes of one title in a
folder, and for the cascade from a home to its account.
Run `v_cycle` drops the last assumption.

No fairness is assumed and no liveness is checked: every handler of this
component either ends or raises in a bounded number of its own steps, except on
a cycle (section 8).

## 5. Sharing and AccessTable

`AccessTable` is what the component promises: each node has a set of grants
(holder, role); sharing adds to it, an update replaces it by a list, and what
names a node or role that is gone fails without effect. Requests on one node
may overlap; `crossed` holds, for each open request, those that took effect on
its node since it began. An update that nobody crossed leaves exactly its list.
One that was crossed keeps what it wants and finds, and leaves nothing that
neither it nor a crossing request asked for.

`Sharing` has the rows of `shared_nodes` and the handlers statement by
statement. `crossed` is an auxiliary variable: no guard reads it.

| Actions | Code | In `AccessTable` |
|---|---|---|
| `Share` | `create_shared_nodes`: one insert and commit | `Share`, or `Fail` on a foreign key |
| `BeginSync` | `update_shared_node_access` up to its first select | `Open` |
| `SyncReadGroups`, `SyncDropUsers`, `SyncDropGroups`, `SyncGoOn` | the second select, the deletes, a delete that had to wait | nothing changes |
| `SyncCommit` | the inserts and the commit | `Sync`, or `Fail` |
| `DeleteNode`, `DeleteRole` | deletes with `ON DELETE CASCADE` | `Remove` |

The database is PostgreSQL in its default isolation, as `db/engine.py` sets it
up: each statement sees what is committed when it starts; a delete waits for
rows that another transaction has deleted, and then does not see what that one
inserted. That it aborts a transaction to break a deadlock is not modelled; nor is the
`KeyError` of a listing whose nodes change between its queries
(`shared_nodes/db/api.py:160`), an error that changes nothing. The
tree, the owners, the memberships and the permissions of roles are constants.

Run `sharing`: a document in a folder, a user who is also in a group, two roles,
three requests that share both nodes or update either with an empty list or one
that changes the role of the user; the folder starts shared with both. Three
requests are what it takes for one delete to wait while another request
inserts. `ListedPermsHeld` relates two readings of the rows: the listing reads
them directly, `has_node_perm` from below over the ancestors. Run `v_sync` has
two updates and no sharing. No liveness is checked: a handler has five steps and
no loop.

## 6. The client

Six modules, each for one part with slices of the store of its own. Their actions
are the user's clicks, the answers of the server and what effects of components do
by themselves. The server is a variable (`role`, `rows`, `grants`, `tree`,
`content`) that other clients change too.

* `RoleForm`: the two dialogs of a role. `PermissionTree`, `Dependencies` and
  `ServerScopes` are the tables of the code; `Click` checks or unchecks a node with
  what it depends on, `SubmitRole` translates with `Client2ServerPerms`, `FetchRole`
  and `OpenRoleDialog` translate back. `SavedIsShown` and `EveryScopeKnown` need the
  whole tables right, entry by entry. Left out of the tree are leaves that are sent
  under their own names, which the server has: all of `custom_field`; create, update
  and delete of `tag` and `document_type`; all but select of `user`, `role` and
  `group`.
* `AdminLists`: six pages with one shape. A record per kind says what its slice,
  table, endpoints and dialogs do differently (`TagsSlice`, `TagsList`, `TagsApi`,
  `TagsEdit`, ...), and one set of actions reads them: `ChangePage`, `TickRow`,
  `OpenDialog`, `SubmitEdit`, `Answer`, `QueryArrives`, `MutationArrives`, `Expire`.
  `Client` is the rule of RTK Query: an invalidation waits while something is in
  flight (`Delayed`), then drops or refetches what carries the tag. `seen` is
  auxiliary: what this client saved and deleted.
* `ShareDialog`: `manage` is the state of the dialog and of the buttons that mount
  it; what is ticked is a set, because the boxes of the rows toggle and the order is
  never read; `updates` keeps what was loaded, removed, picked and sent. Closing the
  list unmounts its tabs, which come back on the users, but not the component that
  holds the ticks: a group may be ticked beside the tab of the users, where only users
  are seen (`Seen`), and the dialog of roles opened for a ticked user is then about the
  group (`getIDType`, `TheTicked`). `misled` is the history of such groups.
* `Panels`: the reducers of `uiSlice.ts` are operators on the pair of panels, with
  the names of the reducers; routes, loaders and components call them. The address,
  its history, the cookies and the shared root are variables. `listing` is the folder
  whose rows a commander has: RTK Query keeps those of the last folder until
  those of the next arrive (`RowsArrive`), in folders of one's own and among shared
  nodes, and they can be clicked and ticked meanwhile. A commander that mounts has
  none, and the second panel mounts the main one anew when it opens or closes
  (`Stays`). `astray` is the history of the nodes ticked among rows of another folder.
  Listings that fail are left out here.
* `Commander`: `panel` has the folder, page, ticks and the data on the screen of
  each panel; `calls`, `hits` and `listings` are the cache. `UploadStarts`,
  `NodeCreated`, `FileSent` are the two requests per file of an upload. `missed` is
  auxiliary, see section 8. `live` has the numbers of the mutations whose dialog is
  still mounted: a dialog that is cancelled stays mounted, closed, while its button
  does, with its request in flight, and one that is mounted anew can send another of
  the same kind; what the answer closes and unticks depends on it (`GoesOn`). Enter
  submits a title whatever is in flight.
* `DocViewer`: a page is named by document, version and number. Editing actions
  change `docVers`, `ApplyPageChanges`, `TransferPages` and `ExtractPages` send calls
  that the server serves at once and that are answered in any order
  (`PagesAnswered`); `Filtered` is `filter()` of an array, written with the number of
  places before a place instead of a recursion, so that the provers can use it; `GenerateFirstPreviews`, `MorePages`, `MoreThumbnails` and
  `DrawPreviews` draw pictures batch by batch. `mixed` is auxiliary, see section 8.

| Property | Says |
|---|---|
| `SavedIsShown`, `EveryScopeKnown` | a saved role opens as it was saved; no scope is sent that the server refuses |
| `SettledIsCurrent` | with nothing in flight no table shows a row this client deleted, or a state older than it saved |
| `EditsKeepFields`, `EditsTheTicked` | an edit blanks nothing by itself, and is of the row that is ticked |
| `SaveGivesNoMore` | a save of grants contains only what was loaded or picked for each, but for groups in `misled` |
| `TickedHere`, `ViewerHasDocument` | ticks are of the folder on the screen, but for those in `astray`; a viewer shows the document of its panel |
| `ListedIsThere`, `UploaderSettled` | as `SettledIsCurrent`, for folders; no upload is shown as running that is over |
| `PagesKept`, `PicturesFollow`, `NoThumbnailHole` | the edited copy has each page once; pictures are of their pages; batches skip none |

Run `web` checks all of them (823 543 states). In a behaviour one part is at work and
the others rest, because they share no state but the panels, and the modules that
would need the panels keep their own. Bounds:

* `AdminLists`: two rows of which one exists first, page sizes 1 and 2, and per kind
  one or two changes and none or one change of view. A second row is what moves
  the first to another page; two changes let a delete cross an edit. The views are
  given to the kinds whose tables differ.
* `ShareDialog`: two users, a group, two roles, one pick and one save: the state that
  outlives a dialog needs one cancelled pick, and the mix-up of a user and a group one
  of each.
* `Panels`: three moves, and two changes of settings or ticks between them; a panel reaches a
  folder, leaves it and comes back by another way in three, and a row of the last folder is
  ticked with one move and one tick.
* `Commander`: three nodes on two pages, two titles, and four budgets that give one
  behaviour a second panel, another two changes, another two uploads. A stale
  listing needs one change and a second panel or page to show it.
* `DocViewer`: documents of 4 and 1 pages, pictures one (large) and two (small) at a
  time, five starts that share out edits, calls and batches. Four pages make two
  batches of small pictures, so that a hole is possible; one page makes a source
  that a move empties.

No fairness is assumed and nothing about liveness is claimed: an answer may never
come. Run `v_uncheck` has the role dialogs alone.

## 7. What is proved

For every set of documents, nodes, accounts, titles and requests, every start
state the assumptions of the modules allow, and every value of the bounds:

| Theorem | Property | Argument |
|---|---|---|
| `DocVersions_proofs!TypeCorrect` | `TypeOK` | `TypeInv` adds what the types of the steps rest on: the chosen rows of a request are rows it has read, a created version has an identity below `nextVer`, a request past its insert has one |
| `DocVersions_proofs!AnnouncedAreWritten` | `AnnouncedWritten` | `WrittenInv`: a handler that is about to announce has written its file, files never disappear, and the version a handler works on was created by it |
| `DocVersions_proofs!RemovedAreSuperseded` | `RemovedNotLast` | `HistoryInv`: the version a handler created has a larger number than the one its pages were chosen from, and stays until their document goes; identities are never used again |
| `DocVersions_proofs!HistoryStays` | `HistoryImmutable` | assumes that there are no uploads, which do overwrite (section 8). `FreshInv`: the version a handler is about to write has no file and no other writer; a new document that waits for its pages is empty, and no other handler has to do with it, because nobody can choose pages from it. So each write is to a version of its own (`FreshStep`) |
| `DocVersionsSequential_proofs!VersionsNumbered` | `NumbersContiguous` | assumes that a client waits for each answer and uploads no images (whose `file_upload` numbers otherwise). `Alone`: one handler at work. `NumInv`: the versions a handler found number 1 to n, its new one n + 1, so last number plus one and number of versions plus one agree |
| `DocVersionsSequential_proofs!SizesTrue` | `SizedDescribesFile` | assumes a client that waits for each answer. `SizeInv`: a version gets its size in the commit that follows its file, and an upload takes versions of size 0, also those that a dead handler or a page operation left. The two of an image are two: what it keeps is that neither has a size until the commit |
| `DocVersionsSequential_proofs!SizedAreFinal` | `SizedImmutable` | the action property from the same invariant: the file of either version is written while it has no size |
| `DocVersionsPages_proofs!PurgesAfterCopy` | `PurgeAfterCopy` | assumes no uploads. `RowsInv`: rows are numbered in order and there are as many as the file has pages, and what a handler knows at each step: its choice is the rows of the version it read, the pages it spliced and wrote are those. So at the last statement the choice is all rows, hence all pages, of the source file |
| `DocVersionsPages_proofs!LastVersionsShown` | `LastVersionViewable` | assumes a client that waits for each answer, and no uploads. `ViewInv`: a handler's source versions are still those it read, and the version it makes has as many rows and the count it will have pages (`Sources`, `Makes`); every other version of a live document is whole, except the ones the handler has still to write and the source it will delete because it is emptied (`Unfinished`, `Emptied`). Like the property, it claims nothing once a handler died or failed: the version it was about to write stays without its file |
| `DocVersionsPages_proofs!TextsFollow` | `TextFollowsContent` | assumes no uploads and no reorder (`v_reorder` shows what that does), and with an extraction to single pages among the operations a client that waits: it looks for the version of its new document again when it copies the text. `TextInv`: the texts of all rows, also of those a handler has read, are those of the file of their version, and the file of a new version has the chosen pages in increasing order. The copy writes in that order too, and the k-th of a set of positions is the one with k of them up to it (`PlaceOf`), so both count the same. OCR fills empty rows only, from the file of their own version |
| `DocVersionsPages_proofs!NoPageLost` | `PagesRecoverable` | assumes a client that waits, no uploads, and six things that go right (`Careful`). `RecInv`: while nobody works every page is in the *last* version of a document, not in any version (`Home`); while one request works, what is in no document it touches is in its hand (`Safe`), and what it has written so far is the last version of its document, with the pages that stay or that came (`Placed`). The property alone is not inductive: it also counts older versions, which go with an emptied source. Without any of the six the code loses pages, and TLC shows each on an instance of two documents: overlapping requests (the target of a move is deleted before the move fills it); a crash or a failure half way (the source has let go of the page, the target never got it, and a later move empties and deletes the source with its history); a choice from an older version; a move within one document; OCR data on a shared volume, which `reuse_ocr_data` fails on; a broker, with which an extraction of all pages leaves a last version with rows and no pages, the next move into it fails half way, and a third request empties the source |
| `NodeTree_proofs!TypeCorrect` | `TypeOK` | `TypeInv`, with an owner in every request that is about to write one |
| `NodeTree_proofs!DroppedAreGone` | `IndexDropsGone` | `NamedInv` (a node that a request names was given out) and `DropInv` (rows of a delete that committed are gone, and identities do not come back) |
| `NodeTree_proofs!AccountsHaveFolders` | `AccountsKeepFolders` | a home goes only with its account: `Doomed` is closed under the cascade; no statement turns a row into no row |
| `NodeTree_proofs!OwnersFollow` | `OwnersFollowParents` | assumes that moves and changes of parent overlap with nothing. `OwnerInv`: parents exist, the owner of a node that is no stray is that of its parent, a move is alone, and what a create or a move has read is still so. The set a move re-owns is closed under children, so no child keeps the old owner; the target may lie below a source |
| `NodeTree_proofs!Rooting` | `RootedAtSpecial` | assumes exclusive moves that make no cycle. Ancestors are a least closed set, and a tree without cycles is one where no set of nodes has all its parents in itself: a step that hangs a node elsewhere keeps that, without induction over the tree |
| `NodeTree_proofs!TitlesDistinct` | `SiblingTitlesDistinct` | from `OwnersFollow`: siblings that are no strays have one owner, so the unique constraint over parent, owner and title holds for them |
| `NodeTree_proofs!SubtreeDeleted` | `DeleteTakesSubtree` | `DelInv`: what a delete has read still hangs below what it was asked for; what goes (`Doomed`) is closed under the cascade and least |
| `NodeTree_proofs!CreatedAreAnnounced` | `CreatedAnnounced` | `AnnInv`: a node that exists was there first, is announced, or its creator is about to |
| `Web_proofs!TickedHereHolds` | `TickedHere` | `PanelsGood`: every reducer takes good panels to good panels, every action is a composition of reducers, then perhaps of a loader, and the interface navigates to nodes there are (`GoodUrl`). Ticks that are not of the folder are in `astray`: a tick among late rows enters it, and a change of folder clears the ticks and with them `astray` |
| `Web_proofs!ViewerHasDocumentHolds` | `ViewerHasDocument` | from the same invariant: a panel that shows a viewer has a document of its own, so the selector never falls through |
| `Sharing_proofs!TypeCorrect` | `TypeOK` | inductive by itself |
| `Sharing_proofs!WantedStay` | `WantedRowsStay` | `DropOk`: rows that an update deletes, or waits to delete, are on its node and not asked for |
| `Sharing_proofs!RowsImplementTable` | `TableSpec` | `CoverOk`: the rows of the node are those the update has read, after its deletes those it asks for, but for what crossing requests asked for. `KeptOk`: without a crossing, what it has read keeps a row. Then each step is one of `AccessTable` or changes nothing there |
| `Sharing_proofs!ListingIsHeld` | `ListedPermsHeld` | for every state: what the listing counts for a node and what the check looks for on its ancestors are rows held by the user in the same two ways, directly or through a group |
| `Web_proofs!SavesGiveNoMore` | `SaveGivesNoMore` | the list of a dialog is always loaded, picked, or of a misled group (`FairList`), for the answer it loaded: every reset, late answer and reopening keeps that, and only groups are misled because a ticked group comes before a ticked user |
| `Web_proofs!SavedAreShown` | `SavedIsShown` | `LeafComesBack`: each leaf of the tree, in every category, survives the maps to the server's names and back; so does every set of leaves, however it was clicked together |
| `Web_proofs!ScopesAreKnown` | `EveryScopeKnown` | `SentIsKnown`, category by category: a node that is checked, a leaf or an inner one, is sent under a name the server has |
| `Caches_proofs!ListingsAreTrue` | `ListedIsThere` | `CoverInv`: what a cached answer, or one on its way, says that is no longer so is hit by the tag of a mutation in flight or waiting, or the listing was asked for again; waiting tags imply calls in flight (`HitsWait`) |
| `Caches_proofs!UploaderSettles` | `UploaderSettled` | assumes that no title of a file is empty. `UploadInv`: an item that says "uploading" is what a batch has in hand |
| `Caches_proofs!TablesAreCurrent` | `SettledIsCurrent` | `CacheInv`: as for the listings, with revisions: a row of a cached answer is at least what this client saved, or a tag that waits hits the answer, or its query is in flight again. `RequestIs`: an answered edit has a revision that the server had, an answered delete a row that is gone for good |
| `Caches_proofs!EditsLoseNothing` | `EditsKeepFields` | `EditorIs`: a form whose row is loaded has its fields, because these two kinds fill it at mounting, opening and at each answer |
| `Caches_proofs!DialogsEditTheTicked` | `EditsTheTicked` | `EditorIs` again: the dialog is for the one ticked row, and no step ticks a single row right after another one was (`TicksWell`), so no form of an earlier row is taken over |
| `DocViewer_proofs!PagesAreKept` | `PagesKept` | a conjunct of `ViewerInv`, see below |
| `DocViewer_proofs!PicturesAreOfTheirPages` | `PicturesFollow` | from `ViewerInv`: the pages that a new version will take pictures from have, place by place and turned as they were sent, the content that the server gave the new version (`Carries`); a batch is drawn from the file of its version, or the version is in `mixed` |
| `DocViewer_proofs!NoHoleInThumbnails` | `NoThumbnailHole` | from `ViewerInv`: thumbnails are of the first pages by number (`HoleFree`), a batch is the next ones, and in what was sent no page without a thumbnail stands before one that has it |
| `Web_proofs!WebTypes` | `WebTypeOK` | the parts, one by one: `FormTypes`, `ListTypes`, `ShareTypes`, `PanelsTypes`, `CommanderTypes`, `ViewerTypes`. A behaviour of the interface is one of each part (`PartsAreSpecs`). They are not only about shapes: a role of the server has only scopes it knows (`RoleInv`); every node is in the home or in a folder that exists, while moves and cascades cross (`TreeInv`); a saved list has only roles there are (`RolesOf`); a panel's node exists, because only such addresses are navigated to; every version the viewer knows, draws or shows is on the server |

*The invariant of the viewer.* None of its three properties is inductive, and none can
be strengthened alone. `ViewerInv` says what the server keeps (`ServerOK`), what is on
the screen (`ScreenOK`), what the copies and pictures are of (`CopiesOK`, `PicturesOK`,
`HoleFree`), and what links them. Only a page with a thumbnail can be pointed at, so
what is selected, dragged or deleted has one (`ShownOK`). So two pages of a copy can be
out of the order of the file only if both have one (`OrderOK`). A page before one of a
batch of thumbnails has its own or is in the batch (`DrawingOK`). A call in flight
creates versions the client does not know yet, no two calls the same, and what it sent
is in that order too (`CallOK`, `CallsOK`). When it is answered, the new pages take the
pictures of old ones by place: these are of the right pages, and again leave no hole.
There is one lemma per action (`ViewerInvStep` collects them); those before are about
`Filtered`, insertions, parts and orders of sequences, none of which the library has.

Except for some types, none of the properties is inductive by itself: each speaks of
rows, files and tasks, while the step that could break it acts on what its handler read some
steps ago. The strengthenings say what is still true of that.

Every proof is checked by TLAPS to the last leaf, with no axiom beyond the named
assumptions of the modules: the sentinels are no members, no page has NULL
or the empty text as its text, the initial documents and rows are legal, lists and shares name what exists, bounds are natural
numbers, the rows and nodes at first are finitely many, nodes at first are in the home or in
a folder there is, homes and inboxes are nodes of the user, files have titles. TLC evaluates
these on every run.

Only model-checked: `EmptiedSourceGoes`, which is liveness and out of the prover's
reach. All other properties of passing runs are theorems, some under the assumptions
the table names. `Filtered` counts places, and `QueryEnds` and `Least` quantify over
sets of nodes, instead of recursing, so that both TLC and TLAPS can use them.

## 8. What the runs found

Six disagreements with the code's own words are runs that TLC must find
violated (`findings` in `PROJECT.json`):

* `v_numbers`: two page operations on a document create two versions with one number.
* `v_reorder`: after a reorder the texts are those of the old order.
* `v_extract_redis`: with a broker, extraction ends in a `TypeError` before the
  emptied source is deleted (a coroutine is iterated without `await`).
* `v_cycle`: a folder can be moved below itself; it is then in no account's tree
  and the recursive queries on it do not end.
* `v_sync`: two overlapping updates of the access of a node leave a list that is
  neither of the two, because both compare with rows they read before.
* `v_uncheck`: unchecking a permission unchecks those it depends on; the comment says
  those that depend on it.

Modelled as they are, and kept out of the properties because the code promises
nothing there. On the server:

* `create_next_version` takes any version of size 0, so an upload overwrites a
  version that a page operation has just made (`version_bump` leaves size 0), and the
  PDF made from an image an older one of them.
* A page count of 0 given to `version_bump` reads as none given: an emptied
  source has rows for the pages of the version before, until it is deleted.
* Re-uploading an image numbers both new versions alike (`len(doc.versions) + 1`).
* `reuse_ocr_data` fails with `AttributeError` when the media directory is shared
  with the OCR worker (`SharedMedia`), after the new PDF is written.
* Extraction into one document loses texts: the document is passed as the version.
* `move_pages_mix` inserts before the target page, its docstring says after.
* Moving all pages of a document within that document deletes it; two concurrent
  moves of all pages, A to B and B to A, delete both.
* After a move of all pages nothing is announced: the index keeps the old text of
  the target.
* `PATCH /nodes/` with a parent in another account leaves the owner as it was, and
  two nodes of one title may then be in one folder; a create that overlaps with a move of its parent gives the new node the old owner.
* A delete sends only the selected nodes to the index, not what was below them; a
  move sends nothing. A partly successful move answers with an error.

In the client:

* Roles: a parent that is partly checked is sent whole, so that checking only
  `document.update.tags` sends `node.update`; an edit dialog that opens before the role
  is loaded and is submitted wipes its permissions; permissions without a checkbox
  are dropped by any edit.
* Tables: deleting the last row of the last page leaves an empty page without
  controls; the page number survives a change of size; other cached pages are
  shifted after a delete; the form of a tag is blank when its row arrives after it
  opened; editing a custom field resets its type; the delete of a user goes back to
  the table even when it failed.
* Sharing: "Cancel" of both dialogs submits; the grants a dialog shows are never
  invalidated, so a reopened one shows and sends the old list; when the grants fail to
  load, a save sends none and removes all; roles that are not loaded are dropped. A group
  that is ticked when the list is closed stays ticked, unseen: roles picked for a user
  in the list opened next go to the group (`misled`).
* Panels: the breadcrumb of an inbox in a home stores the inbox as last home; ticks
  made among shared nodes survive to a folder of one's own; closing the second
  panel keeps its node and selection.
* Commander: until the listing of a folder arrives the nodes of the last folder are
  shown, and can be ticked (`astray`); one dragged off then is moved with the wrong `sourceFolderID`, and the listing
  it left stays stale (`missed`). "Cancel" of the dialog for dropped files uploads them;
  a failed upload leaves an empty node; a folder deleted while the second panel shows
  it leads to the error page.
* Viewer: the pages of the target of a move are put together with an index that is
  one off (`transferPages.ts:212`), so its pictures are wrong until reloaded; so are
  those of a source with unsaved deletions, and of a version drawn after a later
  one was saved, because the file of the last version is downloaded (`mixed`
  holds these versions). Deletions leave holes among the large pictures. A failed
  download of a batch is not tried again. The flag that asks to save is shared by
  both panels, so it is offered in the wrong one.

## 9. Not modelled

* Permissions of requests: those of clients that have them; the gap between check
  and use is a listed hazard.
* Users and groups: which statement a delete of an account sends first, among tables
  whose foreign keys point in a circle, is the choice of the mapper and not of this
  code, and what the handler leaves depends on it. With them, the current user: an
  unknown user behind a proxy is created by a call that is not awaited
  (`features/auth/__init__.py:100`), so the request fails.
* Tags, custom fields and document types: on the server one row per value, written
  by single statements; their tables in the client are in `AdminLists`.
* The authentication server: a matter for a review of security.
* Of sharing, the removal of accounts with their rows, moves of shared nodes and the
  pages of the listing.
* Workers and the broker beyond what is sent; read-only handlers; logs.
* Of the client, layout, texts, reports, login, downloads and shortcuts of the keyboard;
  and two of its parts at work in one behaviour. What passes between them, the
  folder or document a panel shows and the nodes ticked there, is any value in
  each module or one of those its start chooses.
* Uploads of two clients to one document at once: they may take the same version of
  size 0, and the later one then replaces the file of the earlier. `uploads` has them one after the
  other, cut off by crashes.
