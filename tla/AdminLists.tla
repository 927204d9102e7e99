----------------------------- MODULE AdminLists -----------------------------
(***************************************************************************)
(* The administration pages of the web interface: tags, roles, groups,     *)
(* users, custom fields and document types.  Each has a table with pages,  *)
(* a selection kept in the store, a page of details, and dialogs to add,   *)
(* edit and delete; the six differ in what their slices, endpoints and     *)
(* dialogs do, which the records below say file by file.  All of them go   *)
(* through one cache of server answers (RTK Query), whose rules decide     *)
(* whether a page shows what this client already saved.                    *)
(*                                                                         *)
(* Abstracted: a row is its revision and two fields that are blank or not: *)
(* "name" for what a form shows first, "extra" for what the kind adds (the *)
(* owner of a tag, the special folders of a group, the memberships of a    *)
(* user, the type of a custom field, the fields of a document type, the    *)
(* scopes of a role, for which see RoleForm).  While a table loads another *)
(* page its rows cannot be ticked, while the hook would still show the old *)
(* ones.                                                                   *)
(***************************************************************************)
EXTENDS Naturals, FiniteSets

CONSTANTS
    Ids,            \* rows that may exist
    InitialIds,     \* rows that exist at first
    PageSizes,      \* page sizes to choose from
    DefaultSize,    \* PAGINATION_DEFAULT_ITEMS_PER_PAGES
    FilterMatches,  \* rows that match the filter text
    Columns,        \* bound: columns the user sorts by
    Bounds          \* bounds, by kind: changes of rows by this client and others, and
                    \* changes of the table's page, size, order, filter or of the page

Kinds == {"tags", "roles", "groups", "users", "custom-fields", "document-types"}

VARIABLES
    kind,       \* the page this behaviour is about
    rows,       \* server: id -> row
    at,         \* List, or the row whose details are shown
    view,       \* [page, size, by, reverse, filter] of the table
    lastPageSize,
    selectedIds,
    cache,      \* RTK Query: key -> data of the queries that have an answer
    net,        \* queries and mutations in flight
    stale,      \* tags whose invalidation waits for what is in flight
    editor,     \* the edit dialog's component and its form
    dialog,     \* the dialog that is open
    added,      \* an add succeeded since the New button was mounted
    seen,       \* auxiliary: revisions this client saved, rows it deleted
    used        \* bounds: [changes, views]; ids given to rows so far, for good

listVars == <<kind, rows, at, view, lastPageSize, selectedIds, cache, net, stale, editor, dialog, added, seen, used>>

List == 0
NoId == 0
ASSUME ListAssumption ==
    /\ Ids \subseteq Nat \ {0} /\ InitialIds \subseteq Ids /\ IsFiniteSet(InitialIds)
    /\ PageSizes \subseteq Nat \ {0} /\ DefaultSize \in PageSizes
    /\ FilterMatches \subseteq Ids

-----------------------------------------------------------------------------
(* What the six kinds do differently *)

\* slices: the columns sortByUpdated knows, and whether every answer of the
\* paginated query overwrites the remembered page size (extraReducers)
TagsSlice == [sorts |-> {"name", "pinned", "description", "ID", "group_name"}, answerSetsSize |-> FALSE]
RolesSlice == [sorts |-> {}, answerSetsSize |-> TRUE]
GroupsSlice == [sorts |-> {}, answerSetsSize |-> TRUE]
UsersSlice == [sorts |-> {}, answerSetsSize |-> TRUE]
CustomFieldsSlice == [sorts |-> {"name", "type", "group_name"}, answerSetsSize |-> TRUE]
DocumentTypesSlice == [sorts |-> {"name", "group_name"}, answerSetsSize |-> TRUE]

Slice == CASE kind = "tags" -> TagsSlice [] kind = "roles" -> RolesSlice
           [] kind = "groups" -> GroupsSlice [] kind = "users" -> UsersSlice
           [] kind = "custom-fields" -> CustomFieldsSlice
           [] kind = "document-types" -> DocumentTypesSlice

\* lists: a filter, and which page size the table starts with
TagsList == [filters |-> TRUE, remembersSize |-> TRUE]
RolesList == [filters |-> FALSE, remembersSize |-> TRUE]
GroupsList == [filters |-> FALSE, remembersSize |-> TRUE]
UsersList == [filters |-> FALSE, remembersSize |-> TRUE]
CustomFieldsList == [filters |-> TRUE, remembersSize |-> FALSE]
DocumentTypesList == [filters |-> TRUE, remembersSize |-> FALSE]

Table == CASE kind = "tags" -> TagsList [] kind = "roles" -> RolesList
           [] kind = "groups" -> GroupsList [] kind = "users" -> UsersList
           [] kind = "custom-fields" -> CustomFieldsList
           [] kind = "document-types" -> DocumentTypesList

\* endpoints: the type of their tags; what an edit and a delete invalidate
\* beside the row itself
TagsApi == [type |-> "Tag", edit |-> {}, delete |-> {}]
RolesApi == [type |-> "Role", edit |-> {"Role"}, delete |-> {}]
GroupsApi == [type |-> "Group", edit |-> {}, delete |-> {}]
UsersApi == [type |-> "User", edit |-> {}, delete |-> {}]
CustomFieldsApi == [type |-> "CustomField", edit |-> {"DocumentType"}, delete |-> {"DocumentType"}]
DocumentTypesApi == [type |-> "DocumentType", edit |-> {}, delete |-> {}]

Api == CASE kind = "tags" -> TagsApi [] kind = "roles" -> RolesApi
         [] kind = "groups" -> GroupsApi [] kind = "users" -> UsersApi
         [] kind = "custom-fields" -> CustomFieldsApi
         [] kind = "document-types" -> DocumentTypesApi

\* edit dialogs.  The form takes the fields of the loaded row at the events of
\* "reset" (mounting the dialog, opening or closing it, an answer), but the
\* extra field at those of "extra" only; it closes after a refusal, or not;
\* the row it sends is the one it loaded, or the one it is about.
TagsEdit == [reset |-> {"mount", "open"}, extra |-> {"mount", "open"},
             closes |-> TRUE, sendsLoaded |-> TRUE, looksUp |-> FALSE]
RolesEdit == [reset |-> {"mount", "open", "data"}, extra |-> {"open"},
              closes |-> FALSE, sendsLoaded |-> FALSE, looksUp |-> FALSE]

\* mutant: the form of a group is filled when its dialog opens only
GroupsEditOnOpen == [reset |-> {"mount", "open"}, extra |-> {"mount", "open"},
                     closes |-> TRUE, sendsLoaded |-> FALSE, looksUp |-> FALSE]

GroupsEdit == [reset |-> {"mount", "open", "data"}, extra |-> {"mount", "open", "data"},
               closes |-> TRUE, sendsLoaded |-> FALSE, looksUp |-> FALSE]
UsersEdit == [reset |-> {"mount", "open", "data"}, extra |-> {"mount", "open", "data"},
              closes |-> TRUE, sendsLoaded |-> FALSE, looksUp |-> TRUE]
CustomFieldsEdit == [reset |-> {"mount", "open", "data"}, extra |-> {"mount"},
                     closes |-> TRUE, sendsLoaded |-> FALSE, looksUp |-> FALSE]
DocumentTypesEdit == [reset |-> {"mount", "open", "data"}, extra |-> {"mount", "open", "data"},
                      closes |-> FALSE, sendsLoaded |-> FALSE, looksUp |-> FALSE]

Edit == CASE kind = "tags" -> TagsEdit [] kind = "roles" -> RolesEdit
          [] kind = "groups" -> GroupsEdit [] kind = "users" -> UsersEdit
          [] kind = "custom-fields" -> CustomFieldsEdit
          [] kind = "document-types" -> DocumentTypesEdit

\* dialogs to add: closed after a refusal, or not; disabled after one success
TagsNew == [closes |-> FALSE, once |-> FALSE]
RolesNew == [closes |-> FALSE, once |-> FALSE]
GroupsNew == [closes |-> FALSE, once |-> FALSE]
UsersNew == [closes |-> TRUE, once |-> TRUE]
CustomFieldsNew == [closes |-> FALSE, once |-> FALSE]
DocumentTypesNew == [closes |-> FALSE, once |-> FALSE]

New == CASE kind = "tags" -> TagsNew [] kind = "roles" -> RolesNew
         [] kind = "groups" -> GroupsNew [] kind = "users" -> UsersNew
         [] kind = "custom-fields" -> CustomFieldsNew
         [] kind = "document-types" -> DocumentTypesNew

\* delete dialogs: unwrap() keeps the dialog of one row open after a refusal, the
\* dialog of the ticked rows takes no notice of one
TagsDelete == [oneUnwraps |-> TRUE, manyUnwrap |-> FALSE]
RolesDelete == [oneUnwraps |-> TRUE, manyUnwrap |-> FALSE]
GroupsDelete == [oneUnwraps |-> TRUE, manyUnwrap |-> FALSE]
UsersDelete == [oneUnwraps |-> FALSE, manyUnwrap |-> FALSE]
CustomFieldsDelete == [oneUnwraps |-> TRUE, manyUnwrap |-> FALSE]
DocumentTypesDelete == [oneUnwraps |-> TRUE, manyUnwrap |-> FALSE]

Delete == CASE kind = "tags" -> TagsDelete [] kind = "roles" -> RolesDelete
               [] kind = "groups" -> GroupsDelete [] kind = "users" -> UsersDelete
               [] kind = "custom-fields" -> CustomFieldsDelete
               [] kind = "document-types" -> DocumentTypesDelete

-----------------------------------------------------------------------------
(* The cache of server answers.  A key names a query: a page of the table, *)
(* or (id # NoId) one row.  The data of either is a function from ids.     *)

FirstView(size) == [page |-> 1, size |-> size, by |-> "name", reverse |-> FALSE, filter |-> FALSE, id |-> NoId]
DetailKey(i) == [FirstView(DefaultSize) EXCEPT !.id = i]
Nothing == [i \in {} |-> 0]

\* what the server answers to a query: the rows that match, in order, one page of them
Paged(key) ==
    LET matching == IF key.filter THEN DOMAIN rows \cap FilterMatches ELSE DOMAIN rows
        rank(i) == Cardinality({j \in matching : IF key.reverse THEN j > i ELSE j < i})
        first == (key.page - 1) * key.size
        page == IF key.id # NoId THEN {key.id} \cap DOMAIN rows
                ELSE {i \in matching : first <= rank(i) /\ rank(i) < first + key.size}
    IN  [i \in page |-> rows[i]]

\* tags are pairs of a type and an id, or All of a type
All == 0
Provided(key, data) == IF key.id # NoId THEN {<<Api.type, key.id>>}
                       ELSE {<<Api.type, All>>} \cup {<<Api.type, i>> : i \in DOMAIN data}

\* mutant: an edit invalidates the table of its kind, a delete nothing but the row
InvalidatedByType(r) ==
    CASE r.is = "add" -> {<<Api.type, All>>}
      [] r.is = "edit" -> {<<t, All>> : t \in Api.edit}
      [] OTHER -> {<<Api.type, r.key.id>>}

Invalidated(r) ==
    CASE r.is = "add" -> {<<Api.type, All>>}
      [] r.is = "edit" -> {<<Api.type, r.key.id>>} \cup {<<t, All>> : t \in Api.edit}
      [] OTHER -> {<<Api.type, r.key.id>>} \cup {<<t, All>> : t \in Api.delete}
\* a tag without id stands for every tag of its type
Hits(tag, provided) == tag \in provided \/ (tag[2] = All /\ \E p \in provided : p[1] = tag[1])

Blank == [name |-> FALSE, extra |-> FALSE]
Request(is, key, form) == [is |-> is, key |-> key, form |-> form, answered |-> FALSE, ok |-> FALSE, data |-> Nothing]
InFlight(is) == \E r \in net : r.is = is

-----------------------------------------------------------------------------
(* What a step of this client brings about: which edit dialog is mounted,  *)
(* which queries have subscribers, and what is fetched again               *)

NoRow == [v |-> 0, name |-> FALSE, extra |-> FALSE]
NoEditor == [id |-> NoId, of |-> NoId, row |-> NoRow, form |-> Blank]

\* mutant: the table offers to edit the first of several ticked rows
EditedIdFirst(p, s, c) ==
    IF p # List THEN IF DetailKey(p) \in DOMAIN c /\ p \in DOMAIN c[DetailKey(p)] THEN p ELSE NoId
    ELSE IF s # {} THEN CHOOSE i \in s : \A j \in s : i <= j ELSE NoId

\* ActionButtons: with exactly one row ticked, the table has an edit dialog for
\* it; the details have one once the row is loaded
EditedId(p, s, c) ==
    IF p # List THEN IF DetailKey(p) \in DOMAIN c /\ p \in DOMAIN c[DetailKey(p)] THEN p ELSE NoId
    ELSE IF Cardinality(s) = 1 THEN CHOOSE i \in s : TRUE ELSE NoId

\* formReset after an event
Reset(e, event) ==
    IF e.of = NoId \/ event \notin Edit.reset THEN e
    ELSE [e EXCEPT !.form.name = e.row.name,
                   !.form.extra = IF event \in Edit.extra THEN e.row.extra ELSE e.form.extra]

\* the hook of the dialog: it keeps the last data while it is mounted, for
\* another id too, and takes the data of its id from the cache
EditorAfter(e, p, s, c) ==
    LET id == EditedId(p, s, c)
        mounts == e.id = NoId \/ p # at
        kept == [(IF mounts THEN NoEditor ELSE e) EXCEPT !.id = id]
        row == c[DetailKey(id)][id]
        loaded == [kept EXCEPT !.of = id, !.row = row]
    IN  CASE id = NoId -> NoEditor
          [] id # NoId /\ (DetailKey(id) \notin DOMAIN c \/ id \notin DOMAIN c[DetailKey(id)]) -> kept
          [] OTHER -> IF mounts THEN Reset(loaded, "mount")
                      ELSE IF loaded = kept THEN kept ELSE Reset(loaded, "data")

Subscribed(v, p, s) == {IF p = List THEN v ELSE DetailKey(p)}
                          \cup (IF p = List /\ Cardinality(s) = 1 THEN {DetailKey(i) : i \in s} ELSE {})

\* invalidationBehavior "delayed": tags wait until nothing is in flight; then what
\* they hit is fetched again where it has subscribers, and dropped where not
Delayed(n) == n # {}
WhatIsHit(n, st, c) == IF Delayed(n) THEN {} ELSE {k \in DOMAIN c : \E tag \in st : Hits(tag, Provided(k, c[k]))}

\* one step of this client: view, page, selection, requests in flight, tags,
\* cache, edit dialog and open dialog as the action leaves them
Client(v, p, s, n, st, c, e, d) ==
    LET hit == WhatIsHit(n, st, c)
        wanted == Subscribed(v, p, s)
        asked == {k \in wanted : k \notin DOMAIN c \/ k \in hit}
        editorNow == EditorAfter(e, p, s, c)
    IN  /\ view' = v /\ at' = p /\ selectedIds' = s
        /\ cache' = [k \in (DOMAIN c \ hit) \cup (hit \cap wanted) |-> c[k]]
        /\ net' = n \cup {Request("query", k, Blank) :
                             k \in {q \in asked : \A r \in n : r.is = "query" => r.key # q}}
        /\ stale' = IF Delayed(n) THEN st ELSE {}
        /\ editor' = editorNow
        /\ dialog' = IF \/ d = "edit" /\ editorNow.id = NoId
                        \/ d = "delete" /\ p = List /\ s = {} THEN "none" ELSE d

Looking == UNCHANGED <<kind, rows, lastPageSize, added, seen>>
Viewed == used' = [used EXCEPT !.views = @ + 1] /\ used.views < Bounds[kind].views
Changed == used' = [used EXCEPT !.changes = @ + 1] /\ used.changes < Bounds[kind].changes

-----------------------------------------------------------------------------
(* The table *)

Shown == IF at = List /\ view \in DOMAIN cache THEN cache[view] ELSE Nothing
OnTable == at = List /\ dialog = "none"

\* an empty page shows neither header nor pagination
HasControls == OnTable /\ DOMAIN Shown # {}

Show(v, p) == Client(v, p, selectedIds, net, stale, cache, editor, "none")
Tick(s) == Client(view, at, s, net, stale, cache, editor, dialog)

\* onPageNumberChange, onPageSizeChange: the page number stays
ChangePage ==
    /\ HasControls /\ Viewed
    /\ \E page \in {view.page - 1, view.page + 1} \ {0} :
          /\ (page - 1) * view.size < Cardinality(DOMAIN rows)
          /\ Show([view EXCEPT !.page = page], List)
    /\ Looking
ChangeSize ==
    /\ HasControls /\ Viewed
    /\ \E size \in PageSizes \ {view.size} :
          /\ Show([view EXCEPT !.size = size], List)
          /\ lastPageSize' = size
    /\ UNCHANGED <<kind, rows, added, seen>>

\* sortByUpdated: the column that orders the table is reversed
SortBy ==
    /\ HasControls /\ Viewed
    /\ \E col \in Slice.sorts \cap Columns :
          Show([view EXCEPT !.by = col, !.reverse = (view.by = col /\ ~view.reverse)], List)
    /\ Looking

\* onQuickFilterChange, onQuickFilterClear
Filter ==
    /\ OnTable /\ Table.filters /\ Viewed
    /\ Show([view EXCEPT !.filter = ~view.filter, !.page = 1], List)
    /\ Looking

TickRow ==
    /\ HasControls
    /\ \E i \in DOMAIN Shown : Tick(IF i \in selectedIds THEN selectedIds \ {i} ELSE selectedIds \cup {i})
    /\ Looking /\ UNCHANGED used

\* onCheckAll: the header is ticked when as many rows are selected as are shown
TickAll ==
    /\ HasControls
    /\ Tick(IF Cardinality(DOMAIN Shown) = Cardinality(selectedIds) THEN {} ELSE DOMAIN Shown)
    /\ Looking /\ UNCHANGED used

OpenDetails ==
    /\ HasControls /\ Viewed
    /\ \E i \in DOMAIN Shown : Show(view, i)
    /\ added' = FALSE
    /\ UNCHANGED <<kind, rows, lastPageSize, seen>>

\* the table is mounted again: page one; order, filter and selection are in the store
Remounted == [view EXCEPT !.page = 1, !.size = IF Table.remembersSize THEN lastPageSize ELSE DefaultSize]
BackToList ==
    /\ at # List /\ dialog = "none"
    /\ Show(Remounted, List)
    /\ Looking /\ UNCHANGED used

-----------------------------------------------------------------------------
(* The dialogs *)

Dialog(d, e, n) == Client(view, at, selectedIds, n, stale, cache, e, d)

OpenDialog(d) ==
    /\ dialog = "none"
    /\ CASE d = "edit" -> editor.id # NoId
         [] d = "new" -> at = List
         [] d = "delete" -> at # List \/ selectedIds # {}
    /\ Dialog(d, IF d = "edit" THEN Reset(editor, "open") ELSE editor, net)
    /\ Looking /\ UNCHANGED used

\* onLocalCancel; DeleteTagsButton's onCancel clears the selection too
CloseDialog ==
    /\ dialog # "none"
    /\ IF dialog = "delete" /\ at = List
       THEN Client(view, at, {}, net, stale, cache, editor, "none")
       ELSE Dialog("none", IF dialog = "edit" THEN Reset(editor, "open") ELSE editor, net)
    /\ Looking /\ UNCHANGED used

\* onLocalSubmit, once the overlay is gone that covers the form until its row is
\* loaded (what the user types is not blank); the memberships of a user are looked up by name in lists that
\* may not be loaded yet
SubmitEdit ==
    /\ dialog = "edit" /\ editor.of # NoId /\ ~InFlight("edit") /\ Changed
    /\ LET id == IF Edit.sendsLoaded THEN editor.of ELSE editor.id
       IN  \E extra \in {editor.form.extra} \cup (IF Edit.looksUp THEN {FALSE} ELSE {}) :
              Dialog(dialog, editor,
                     net \cup {Request("edit", DetailKey(id), [editor.form EXCEPT !.extra = extra])})
    /\ Looking

SubmitNew ==
    /\ dialog = "new" /\ ~InFlight("add") /\ Changed
    /\ New.once => ~added
    /\ Dialog(dialog, editor, net \cup {Request("add", DetailKey(NoId), [name |-> TRUE, extra |-> TRUE])})
    /\ Looking

\* handleSubmit of the dialogs that delete the ticked rows, or the row shown
SubmitDelete ==
    /\ dialog = "delete" /\ ~InFlight("delete") /\ ~InFlight("delete one") /\ Changed
    /\ Dialog(dialog, editor,
              net \cup (IF at = List THEN {Request("delete", DetailKey(i), Blank) : i \in selectedIds}
                        ELSE {Request("delete one", DetailKey(at), Blank)}))
    /\ Looking

-----------------------------------------------------------------------------
(* The server, and its answers *)

\* the server does what a request asks; it may refuse an add or an edit (a name
\* that is taken), and knows nothing of rows that are gone
Answer(r) ==
    /\ r \in net /\ ~r.answered
    /\ \E i \in (IF r.is = "add" THEN Ids \ used.ids ELSE {r.key.id}), ok \in BOOLEAN :
          LET exists == i \in DOMAIN rows
              row == [v |-> IF exists THEN rows[i].v + 1 ELSE 1, name |-> r.form.name, extra |-> r.form.extra]
              after == [j \in DOMAIN rows \cup {i} |-> IF j = i THEN row ELSE rows[j]]
          IN  /\ r.is \notin {"add", "edit"} => ok = (exists \/ (r.is = "query" /\ r.key.id = NoId))
              /\ r.is = "edit" => (ok => exists)
              /\ rows' = CASE r.is \in {"add", "edit"} /\ ok -> after
                           [] r.is \in {"delete", "delete one"} -> [j \in DOMAIN rows \ {i} |-> rows[j]]
                           [] OTHER -> rows
              /\ net' = (net \ {r}) \cup {[r EXCEPT !.answered = TRUE, !.ok = ok,
                             !.key = IF r.is = "add" THEN DetailKey(i) ELSE r.key,
                             !.data = CASE r.is = "query" -> Paged(r.key)
                                        [] r.is \in {"add", "edit"} /\ ok -> [j \in {i} |-> row]
                                        [] OTHER -> Nothing]}
              /\ used' = [used EXCEPT !.ids = @ \cup DOMAIN rows']
    /\ UNCHANGED <<kind, at, view, lastPageSize, selectedIds, cache, stale, editor, dialog, added, seen>>

\* an answer to a query; a row that is gone leaves what was cached before
QueryArrives(r) ==
    /\ r \in net /\ r.is = "query" /\ r.answered
    /\ LET data == IF r.ok \/ r.key \notin DOMAIN cache THEN r.data ELSE cache[r.key]
       IN  Client(view, at, selectedIds, net \ {r}, stale,
                  [k \in DOMAIN cache \cup {r.key} |-> IF k = r.key THEN data ELSE cache[k]], editor, dialog)
    /\ lastPageSize' = IF r.key.id = NoId /\ Slice.answerSetsSize THEN r.key.size ELSE lastPageSize
    /\ UNCHANGED <<kind, rows, added, seen, used>>

\* an answer to an edit, an add, the delete of one row or the last of several,
\* and what the handler that waited for it does
MutationArrives(r) ==
    /\ r \in net /\ r.is # "query" /\ r.answered
    /\ LET n == net \ {r}
           id == r.key.id
           last == r.is = "delete" /\ \A q \in n : q.is # "delete"
           closes == CASE r.is = "edit" -> r.ok \/ Edit.closes
                       [] r.is = "add" -> r.ok \/ New.closes
                       [] r.is = "delete one" -> r.ok \/ ~Delete.oneUnwraps
                       [] OTHER -> last /\ (r.ok \/ ~Delete.manyUnwrap)
           open == CASE r.is = "edit" -> "edit" [] r.is = "add" -> "new" [] OTHER -> "delete"
           shut == closes /\ dialog = open
           leaves == r.is = "delete one" /\ closes /\ at # List
       IN  /\ Client(IF leaves THEN Remounted ELSE view, IF leaves THEN List ELSE at,
                     IF last THEN {} ELSE selectedIds,
                     n, stale \cup Invalidated(r), cache,
                     IF shut /\ open = "edit" THEN Reset(editor, "open") ELSE editor,
                     IF shut \/ leaves THEN "none" ELSE dialog)
           /\ added' = (added \/ (r.is = "add" /\ r.ok))
           /\ seen' = CASE r.is \in {"add", "edit"} /\ r.ok -> [seen EXCEPT !.saved[id] = r.data[id].v]
                        [] r.is \in {"delete", "delete one"} /\ r.ok -> [seen EXCEPT !.deleted = @ \cup {id}]
                        [] OTHER -> seen
    /\ UNCHANGED <<kind, rows, lastPageSize, used>>

\* keepUnusedDataFor is over for a query nobody subscribes to
Expire ==
    /\ \E k \in DOMAIN cache \ Subscribed(view, at, selectedIds) :
          cache' = [q \in DOMAIN cache \ {k} |-> cache[q]]
    /\ UNCHANGED <<kind, rows, at, view, lastPageSize, selectedIds, net, stale, editor, dialog, added, seen, used>>

\* another client edits or deletes a row
Elsewhere ==
    /\ Changed
    /\ \E i \in DOMAIN rows :
          \/ rows' = [rows EXCEPT ![i].v = @ + 1]
          \/ rows' = [j \in DOMAIN rows \ {i} |-> rows[j]]
    /\ UNCHANGED <<kind, at, view, lastPageSize, selectedIds, cache, net, stale, editor, dialog, added, seen>>

ListInit ==
    /\ kind \in Kinds
    /\ rows = [i \in InitialIds |-> [v |-> 1, name |-> TRUE, extra |-> TRUE]]
    /\ at = List /\ view = FirstView(DefaultSize) /\ lastPageSize = DefaultSize
    /\ selectedIds = {} /\ cache = Nothing /\ stale = {}
    /\ net = {Request("query", FirstView(DefaultSize), Blank)}
    /\ editor = NoEditor /\ dialog = "none" /\ added = FALSE
    /\ seen = [saved |-> [i \in Ids |-> 0], deleted |-> {}]
    /\ used = [changes |-> 0, views |-> 0, ids |-> InitialIds]

ListNext ==
    \/ ChangePage \/ ChangeSize \/ SortBy \/ Filter \/ TickRow \/ TickAll
    \/ OpenDetails \/ BackToList
    \/ \E d \in {"edit", "new", "delete"} : OpenDialog(d)
    \/ CloseDialog
    \/ SubmitEdit \/ SubmitNew \/ SubmitDelete
    \/ \E r \in net : Answer(r) \/ QueryArrives(r) \/ MutationArrives(r)
    \/ Expire \/ Elsewhere

ListSpec == ListInit /\ [][ListNext]_listVars

-----------------------------------------------------------------------------
(* Properties *)

\* Type invariant.
ListTypeOK ==
    /\ kind \in Kinds /\ at \in {List} \cup Ids /\ dialog \in {"none", "edit", "new", "delete"}
    /\ DOMAIN rows \subseteq Ids /\ selectedIds \subseteq Ids
    /\ view \in [page : Nat \ {0}, size : PageSizes, by : {"name"} \cup Slice.sorts,
                 reverse : BOOLEAN, filter : BOOLEAN, id : {NoId}]
    /\ lastPageSize \in PageSizes
    /\ \A k \in DOMAIN cache : DOMAIN cache[k] \subseteq Ids
    /\ editor.id \in {NoId} \cup Ids /\ editor.of \in {NoId} \cup Ids

\* When nothing is in flight, no table the client keeps, shown or not, has a row
\* this client deleted, and nothing it keeps of a row that exists is older than
\* what it saved, however answers and invalidations crossed (the tags of the six
\* apiSlice files).  The details of a deleted row do stay: a refusal leaves the
\* data of its query.
SettledIsCurrent ==
    net = {} => \A k \in DOMAIN cache : \A i \in DOMAIN cache[k] :
                    /\ k.id = NoId => i \notin seen.deleted
                    /\ k.id = NoId \/ i \in DOMAIN rows => cache[k][i].v >= seen.saved[i]

\* Groups and document types: an edit sends no field blank that the user did not
\* blank, however late the row is loaded and whatever answers arrive while the
\* form is open (the effect that resets the form of their dialogs).
EditsKeepFields ==
    (kind \in {"groups", "document-types"}) => \A i \in DOMAIN rows : rows[i].name /\ rows[i].extra

\* An edit dialog holds the row that is ticked, or shown, never the one before it
\* (ActionButtons mounts it for exactly one id, and its form is not reset when
\* only the id changes).
EditsTheTicked ==
    editor.of # NoId => editor.of = editor.id /\ editor.of \in (IF at = List THEN selectedIds ELSE {at})

=============================================================================
