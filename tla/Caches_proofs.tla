---------------------------- MODULE Caches_proofs ----------------------------
(***************************************************************************)
(* That what the client keeps of the server's answers is true of the       *)
(* server once nothing is in flight: the listings of the folders, for any  *)
(* tree and any number of clicks, and the tables of the administration,    *)
(* for any rows.  The argument is about tags: whatever a cached answer     *)
(* says that is no longer so is covered by the tag of a mutation, which    *)
(* waits until the last call in flight is answered, or by a query that was *)
(* sent when the tag hit.  The edit dialogs of the administration take     *)
(* their rows from that cache.  Both parts keep typed state; for the       *)
(* commander this says that no node of the server is left without its      *)
(* folder.                                                                 *)
(***************************************************************************)
EXTENDS Commander, AdminLists, FiniteSetTheorems, TLAPS

-----------------------------------------------------------------------------
(* The listings of folders *)

\* the tags that are invalidated when the calls n are answered
PendingOf(n, t) == t \cup UNION {InvalidatesTags(r) : r \in {q \in n : q.is # "query"}}

\* what data says of its nodes is so, or a tag hits the listing; but for folders
\* that are gone, and for the race of the code
Stands(n, data) == n \in DOMAIN tree /\ tree[n] = data.items[n]
Covered(tags, key, data) ==
    IsFolder(key.folder) /\ key.folder \notin missed =>
        \A n \in DOMAIN data.items : Stands(n, data) \/ \E tag \in tags : ProvidesTag(tag, key, data)

\* a listing has children of its folder
OfFolder(key, data) == \A n \in DOMAIN data.items : data.items[n].parent = key.folder

Asked(n, k) == \E r \in n : r.is = "query" /\ r.key = k

\* answers on their way are covered; a listing is, or will be replaced
CoverOf(n, t, c) ==
    /\ \A r \in n : r.is = "query" /\ r.answered =>
          OfFolder(r.key, r.data) /\ Covered(PendingOf(n, t), r.key, r.data)
    /\ \A k \in DOMAIN c :
          OfFolder(k, c[k]) /\ (Covered(PendingOf(n, t), k, c[k]) \/ Asked(n, k))

\* tags wait for calls only
HitsWait == hits # {} => calls # {}

CoverInv == CoverOf(calls, hits, listings) /\ HitsWait

IsCall(r) ==
    /\ r = [f \in DOMAIN r |-> r[f]]
    /\ {"is", "key", "ids", "to", "from", "row", "answered", "ok", "data"} \subseteq DOMAIN r
    /\ r.is \in {"query", "add", "rename", "tags", "delete", "move"}

\* identities are given once
ServerInv ==
    /\ DOMAIN tree \subseteq NodeIds \cap done.ids
    /\ "ids" \in DOMAIN done
    /\ \A r \in calls : IsCall(r)

LEMMA CoveredMore ==
    ASSUME NEW tags, NEW more, tags \subseteq more, NEW key, NEW data, Covered(tags, key, data)
    PROVE  Covered(more, key, data)
BY DEF Covered

LEMMA QueryIs ==
    ASSUME NEW k
    PROVE  /\ Query(k).is = "query" /\ Query(k).key = k /\ ~Query(k).answered /\ IsCall(Query(k))
BY DEF Query, IsCall

\* what every step of the client brings about keeps the cover
LEMMA UiCover ==
    ASSUME NEW v, NEW n, NEW t, NEW c, NEW d, NEW w, Ui(v, n, t, c, d, w), CoverOf(n, t, c)
    PROVE  CoverOf(calls', hits', listings') /\ HitsWait'
<1> DEFINE hit == IF n = {} THEN {k \in DOMAIN c : \E tag \in t : ProvidesTag(tag, k, c[k])} ELSE {}
           Asks(wanted) == {Query(k) : k \in {q \in wanted : (q \notin DOMAIN c \/ q \in hit)
                                                  /\ ~\E r \in n : r.is = "query" /\ r.key = q}}
<1>1. PICK wanted :
         /\ listings' = [k \in (DOMAIN c \ hit) \cup (hit \cap wanted) |-> c[k]]
         /\ calls' = n \cup Asks(wanted)
         /\ hits' = IF n = {} THEN {} ELSE t
  BY Zenon DEF Ui
<1>2. /\ DOMAIN listings' \subseteq DOMAIN c /\ \A k \in DOMAIN listings' : listings'[k] = c[k]
      /\ \A k \in DOMAIN listings' : k \in hit => k \in wanted
  BY <1>1
<1>3. \A r \in calls' : r \in n \/ (r.is = "query" /\ ~r.answered)
  BY <1>1, QueryIs
<1>4. \A k : Asked(n, k) => Asked(calls', k)
  BY <1>1 DEF Asked
<1>5. ASSUME n = {} PROVE CoverOf(calls', hits', listings')
  <2>1. \A k \in DOMAIN listings' : Covered(t, k, c[k])
    <3>1. PendingOf(n, t) = t
      BY <1>5 DEF PendingOf
    <3> QED BY <1>2, <1>5, <3>1 DEF CoverOf, Asked
  <2>2. ASSUME NEW k \in DOMAIN listings', k \notin hit PROVE Covered(PendingOf(calls', hits'), k, listings'[k])
    <3>1. \A tag \in t : ~ProvidesTag(tag, k, c[k])
      BY <1>2, <1>5, <2>2
    <3>2. Covered({}, k, c[k])
      BY <2>1, <3>1 DEF Covered
    <3> QED BY <1>2, <3>2, CoveredMore
  <2>3. ASSUME NEW k \in DOMAIN listings', k \in hit PROVE Asked(calls', k)
    <3>1. Query(k) \in calls'
      BY <1>1, <1>2, <1>5, <2>3
    <3> QED BY <3>1, QueryIs DEF Asked
  <2> QED BY <1>2, <1>3, <1>5, <2>2, <2>3 DEF CoverOf
<1>6. ASSUME n # {} PROVE CoverOf(calls', hits', listings')
  <2>1. PendingOf(calls', hits') = PendingOf(n, t)
    <3>1. {q \in calls' : q.is # "query"} = {q \in n : q.is # "query"}
      BY <1>1, <1>3
    <3> QED BY <1>1, <1>6, <3>1 DEF PendingOf
  <2> QED BY <1>2, <1>3, <1>4, <2>1 DEF CoverOf
<1>7. HitsWait'
  BY <1>1 DEF HitsWait
<1> QED BY <1>5, <1>6, <1>7

LEMMA UiCalls ==
    ASSUME NEW v, NEW n, NEW t, NEW c, NEW d, NEW w, Ui(v, n, t, c, d, w), \A r \in n : IsCall(r)
    PROVE  \A r \in calls' : IsCall(r)
<1>1. \A r \in calls' : r \in n \/ \E k : r = Query(k)
  BY Zenon DEF Ui
<1> QED BY <1>1, QueryIs

LEMMA CoverStays ==
    ASSUME CoverOf(calls', hits', listings'), HitsWait', UNCHANGED <<tree, missed>>
    PROVE  CoverInv'
BY DEF CoverInv, CoverOf, Covered, OfFolder, IsFolder, Stands, PendingOf, Asked, ProvidesTag, InvalidatesTags

LEMMA UiStep ==
    ASSUME NEW v, NEW n, NEW t, NEW c, NEW d, NEW w, Ui(v, n, t, c, d, w),
           CoverOf(n, t, c), UNCHANGED <<tree, missed>>
    PROVE  CoverInv'
BY UiCover, CoverStays

-----------------------------------------------------------------------------
(* Steps of the panels and dialogs *)

\* a step that sends and answers nothing
Looks == \E v, d, w : Ui(v, calls, hits, listings, d, w) /\ w.files \subseteq Files

LEMMA LooksAre ==
    ASSUME modal.files \subseteq Files,
           \/ \E m \in Sides :
                 \/ EnterFolder(m) \/ OnPageNumberChange(m) \/ ToggleTick(m) \/ OnDragStartLocal(m)
                 \/ OpenModal(m) \/ OnUpload(m) \/ OnDrop(m) \/ OnDropFolder(m)
           \/ ToggleSecond \/ LeaveErrorPage \/ CancelModal
    PROVE  Looks /\ Kept /\ (UNCHANGED done \/ Look)
<1>1. NoModal.files \subseteq Files
  BY DEF NoModal
<1>2. ASSUME NEW m \in Sides, EnterFolder(m) PROVE Looks /\ Kept /\ Look
  BY <1>2 DEF EnterFolder, Panel, Looks
<1>3. ASSUME NEW m \in Sides, OnPageNumberChange(m) PROVE Looks /\ Kept /\ Look
  BY <1>3 DEF OnPageNumberChange, Panel, Looks
<1>4. ASSUME NEW m \in Sides, ToggleTick(m) PROVE Looks /\ Kept /\ Look
  BY <1>4 DEF ToggleTick, Panel, Looks
<1>5. ASSUME NEW m \in Sides, OnDragStartLocal(m) PROVE Looks /\ Kept /\ Look
  BY <1>5 DEF OnDragStartLocal, Looks
<1>6. ASSUME NEW m \in Sides, OpenModal(m) PROVE Looks /\ Kept /\ UNCHANGED done
  <2>1. \A is : [NoModal EXCEPT !.is = is, !.mode = m].files \subseteq Files
    BY DEF NoModal
  <2> QED BY <1>6, <2>1 DEF OpenModal, Opens, Looks
<1>7. ASSUME NEW m \in Sides, OnUpload(m) PROVE Looks /\ Kept /\ UNCHANGED done
  BY <1>7 DEF OnUpload, Opens, Looks
<1>8. ASSUME NEW m \in Sides, OnDrop(m) PROVE Looks /\ Kept /\ UNCHANGED done
  <2>1. [NoModal EXCEPT !.is = "move", !.mode = m].files \subseteq Files
    BY DEF NoModal
  <2>2. ASSUME NEW files \in SUBSET Supported, Opens([is |-> "drop", mode |-> m, at |-> Nowhere, files |-> files])
        PROVE  Looks
    <3>1. [is |-> "drop", mode |-> m, at |-> Nowhere, files |-> files].files \subseteq Files
      BY CommanderAssumption
    <3> QED BY <2>2, <3>1 DEF Opens, Looks
  <2>3. ASSUME Opens([NoModal EXCEPT !.is = "move", !.mode = m]) PROVE Looks
    BY <2>1, <2>3 DEF Opens, Looks
  <2> QED BY <1>8, <2>2, <2>3, Zenon DEF OnDrop
<1>9. ASSUME NEW m \in Sides, OnDropFolder(m) PROVE Looks /\ Kept /\ UNCHANGED done
  <2>1. \A f : [NoModal EXCEPT !.is = "move", !.mode = m, !.at = f].files \subseteq Files
    BY DEF NoModal
  <2> QED BY <1>9, <2>1 DEF OnDropFolder, Opens, Looks
<1>10. ASSUME ToggleSecond PROVE Looks /\ Kept /\ Look
  BY <1>10 DEF ToggleSecond, Looks
<1>11. ASSUME LeaveErrorPage PROVE Looks /\ Kept /\ UNCHANGED done
  BY <1>11 DEF LeaveErrorPage, Looks
<1>12. ASSUME CancelModal PROVE Looks /\ Kept /\ UNCHANGED done
  BY <1>1, <1>12 DEF CancelModal, Looks
<1> QED BY <1>2, <1>3, <1>4, <1>5, <1>6, <1>7, <1>8, <1>9, <1>10, <1>11, <1>12

\* a step that sends a mutation
Sends == \E r : /\ IsCall(r) /\ r.is # "query"
                /\ Ui(panel, calls \cup {r}, hits, listings, dragged, modal)

LEMMA SendsAre ==
    ASSUME DeleteNodesModal \/ NewFolderModal \/ EditNodeTitleModal \/ EditNodeTagsModal \/ DropNodesModal
    PROVE  Sends /\ Kept /\ Change
<1>1. ASSUME NEW is \in {"add", "rename", "tags", "delete", "move"}, NEW ids, NEW to, NEW from, NEW row, Call(is, ids, to, from, row)
      PROVE  Sends /\ Kept /\ Change
  <2> DEFINE r == [is |-> is, no |-> done.changes, key |-> Key(Nowhere, 1), mode |-> modal.mode, at |-> modal.at, ids |-> ids,
                   to |-> to, from |-> from, row |-> row, answered |-> FALSE, ok |-> FALSE, data |-> NoData]
  <2>1. IsCall(r) /\ r.is # "query"
    BY <1>1 DEF IsCall
  <2>2. Ui(panel, calls \cup {r}, hits, listings, dragged, modal) /\ Kept /\ Change
    BY <1>1 DEF Call
  <2> HIDE DEF r
  <2> QED BY <2>1, <2>2 DEF Sends
<1> QED BY <1>1, Zenon DEF DeleteNodesModal, NewFolderModal, EditNodeTitleModal, EditNodeTagsModal, DropNodesModal

-----------------------------------------------------------------------------
(* The server of the folders *)

LEMMA BelowHas ==
    ASSUME NEW S, NEW n \in DOMAIN tree, n \in S \/ tree[n].parent \in S \cup Below(S)
    PROVE  n \in Below(S)
BY DEF Below

LEMMA BelowDown ==
    ASSUME NEW S, NEW n \in Below(S), n \notin S
    PROVE  tree[n].parent \in S \cup Below(S)
<1> SUFFICES ASSUME tree[n].parent \notin S \cup Below(S) PROVE FALSE
  OBVIOUS
<1> DEFINE X == Below(S) \ {n}
<1>1. X \in SUBSET DOMAIN tree
  BY DEF Below
<1>2. ASSUME NEW m \in DOMAIN tree, m \in S \/ tree[m].parent \in S \cup X PROVE m \in X
  BY <1>2, BelowHas
<1>3. n \in X
  BY <1>1, <1>2 DEF Below
<1> QED BY <1>3

LEMMA ListingIs ==
    ASSUME NEW key
    PROVE  OfFolder(key, Listing(key)) /\ \A n \in DOMAIN Listing(key).items : Stands(n, Listing(key))
<1>1. CASE IsFolder(key.folder)
  <2>1. PICK page, pages : /\ page \subseteq ChildrenOf(key.folder)
                           /\ Listing(key) = [is |-> "ok", folder |-> key.folder,
                                              items |-> [n \in page |-> tree[n]], pages |-> pages]
    <3> DEFINE all == ChildrenOf(key.folder)
               page == {n \in all : Cardinality({m \in all : m < n}) \div PerPage = key.page - 1}
               pages == (Cardinality(all) + PerPage - 1) \div PerPage
    <3>1. Listing(key) = [is |-> "ok", folder |-> key.folder, items |-> [n \in page |-> tree[n]], pages |-> pages]
      BY <1>1, Zenon DEF Listing
    <3>2. page \subseteq ChildrenOf(key.folder)
      OBVIOUS
    <3> QED BY <3>1, <3>2, Zenon
  <2> QED BY <2>1 DEF ChildrenOf, OfFolder, Stands
<1>2. CASE ~IsFolder(key.folder)
  <2>1. Listing(key).items = [n \in {} |-> 0]
    BY <1>2 DEF Listing, NoData
  <2> QED BY <2>1 DEF OfFolder
<1> QED BY <1>1, <1>2

\* what the server makes of a mutation is covered by the tags of the mutation
LEMMA EffectCovered ==
    ASSUME ServerInv, NEW r \in calls, r.is # "query", NEW e \in Effects(r), tree' = e.tree,
           missed' = IF r.is = "move" /\ e.ok
                     THEN missed \cup ({tree[n].parent : n \in r.ids \cap DOMAIN tree} \ {r.from}) ELSE missed,
           NEW tags, InvalidatesTags(r) \subseteq tags,
           NEW key, NEW data, OfFolder(key, data), Covered(tags, key, data)
    PROVE  Covered(tags, key, data)'
<1> SUFFICES ASSUME IsFolder(key.folder)', key.folder \notin missed', NEW n \in DOMAIN data.items
             PROVE  Stands(n, data)' \/ \E tag \in tags : ProvidesTag(tag, key, data)
  BY DEF Covered, ProvidesTag
<1>1. CASE r.is \in {"add", "rename", "tags"}
  <2>1. Every \in tags
    BY <1>1 DEF InvalidatesTags
  <2> QED BY <2>1 DEF ProvidesTag
<1>2. CASE r.is = "delete"
  <2>1. r.ids \subseteq tags
    BY <1>2 DEF InvalidatesTags
  <2>2. tree' = Without(r.ids)
    BY <1>2 DEF Effects
  <2>3. DOMAIN tree' = DOMAIN tree \ Below(r.ids) /\ \A m \in DOMAIN tree' : tree'[m] = tree[m]
    BY <2>2 DEF Without
  <2>4. IsFolder(key.folder) /\ key.folder \notin missed
    BY <2>3, <1>2 DEF IsFolder
  <2>5. CASE \E tag \in tags : ProvidesTag(tag, key, data)
    BY <2>5
  <2>6. CASE Stands(n, data)
    <3>1. CASE n \notin Below(r.ids)
      BY <2>3, <2>6, <3>1 DEF Stands
    <3>2. CASE n \in r.ids
      BY <2>1, <3>2 DEF ProvidesTag
    <3>3. CASE n \in Below(r.ids) /\ n \notin r.ids
      <4>1. key.folder \in r.ids \cup Below(r.ids)
        BY <3>3, <2>6, BelowDown DEF Stands, OfFolder
      <4>2. CASE key.folder \in r.ids
        BY <2>1, <4>2 DEF ProvidesTag
      <4>3. CASE key.folder \in Below(r.ids)
        <5>1. key.folder \in DOMAIN tree /\ key.folder \notin DOMAIN tree'
          BY <4>3, <2>3 DEF Below
        <5>2. key.folder # Root
          BY <5>1, CommanderAssumption DEF ServerInv
        <5> QED BY <5>1, <5>2 DEF IsFolder
      <4> QED BY <4>1, <4>2, <4>3
    <3> QED BY <3>1, <3>2, <3>3
  <2> QED BY <2>4, <2>5, <2>6 DEF Covered
<1>3. CASE r.is = "move"
  <2>1. r.from \in tags
    BY <1>3 DEF InvalidatesTags
  <2>2. \/ tree' = tree /\ ~e.ok
        \/ /\ e.ok /\ DOMAIN tree' = DOMAIN tree
           /\ \A m \in DOMAIN tree : m \notin r.ids => tree'[m] = tree[m]
    BY <1>3 DEF Effects
  <2>3. IsFolder(key.folder) /\ key.folder \notin missed
    BY <2>2 DEF IsFolder
  <2>4. CASE \E tag \in tags : ProvidesTag(tag, key, data)
    BY <2>4
  <2>5. CASE Stands(n, data)
    <3>1. CASE tree' = tree \/ n \notin r.ids
      BY <2>2, <2>5, <3>1 DEF Stands
    <3>2. CASE tree' # tree /\ n \in r.ids
      <4>1. tree[n].parent = key.folder /\ n \in DOMAIN tree
        BY <2>5 DEF Stands, OfFolder
      <4>2. key.folder = r.from
        BY <1>3, <2>2, <3>2, <4>1
      <4> QED BY <2>1, <4>2 DEF ProvidesTag
    <3> QED BY <3>1, <3>2
  <2> QED BY <2>3, <2>4, <2>5 DEF Covered
<1>4. r.is \in {"query", "add", "rename", "tags", "delete", "move"}
  BY DEF ServerInv, IsCall
<1> QED BY <1>1, <1>2, <1>3, <1>4

LEMMA EffectTree ==
    ASSUME ServerInv, NEW r \in calls, r.is # "query", NEW e \in Effects(r)
    PROVE  DOMAIN e.tree \subseteq NodeIds
<1>0. DOMAIN tree \subseteq NodeIds /\ FolderIds \subseteq NodeIds
  BY CommanderAssumption DEF ServerInv
<1>1. CASE e.tree = tree
  BY <1>0, <1>1
<1>2. CASE e.tree = Without(r.ids)
  BY <1>0, <1>2 DEF Without
<1>3. ASSUME NEW n \in NodeIds, NEW row, e.tree = With(n, row) PROVE DOMAIN e.tree \subseteq NodeIds
  BY <1>0, <1>3 DEF With
<1>4. CASE DOMAIN e.tree = DOMAIN tree
  BY <1>0, <1>4
<1>5. r.is \in {"query", "add", "rename", "tags", "delete", "move"}
  BY DEF ServerInv, IsCall
<1>6. CASE r.is = "delete"
  BY <1>2, <1>6 DEF Effects
<1>7. CASE r.is = "add"
  BY <1>0, <1>1, <1>3, <1>7 DEF Effects
<1>8. CASE r.is = "rename"
  <2> DEFINE row(n) == [tree[n] EXCEPT !.title = r.row.title]
  <2>2. e = [ok |-> FALSE, tree |-> tree] \/ \E n \in DOMAIN tree : e = [ok |-> TRUE, tree |-> With(n, row(n))]
    BY <1>8 DEF Effects
  <2> HIDE DEF row
  <2>1. e.tree = tree \/ \E n \in DOMAIN tree : e.tree = With(n, row(n))
    BY <2>2
  <2> QED BY <1>0, <1>1, <1>3, <2>1
<1>9. CASE r.is = "tags"
  <2> DEFINE row(n) == [tree[n] EXCEPT !.tagged = r.row.tagged]
  <2>2. e = [ok |-> FALSE, tree |-> tree] \/ \E n \in DOMAIN tree : e = [ok |-> TRUE, tree |-> With(n, row(n))]
    BY <1>9 DEF Effects
  <2> HIDE DEF row
  <2>1. e.tree = tree \/ \E n \in DOMAIN tree : e.tree = With(n, row(n))
    BY <2>2
  <2> QED BY <1>0, <1>1, <1>3, <2>1
<1>10. CASE r.is = "move"
  BY <1>1, <1>4, <1>10 DEF Effects
<1> QED BY <1>5, <1>6, <1>7, <1>8, <1>9, <1>10

LEMMA AnswerServer == ASSUME ServerInv, NEW r \in calls, ServerAnswers(r) PROVE ServerInv'
<1>1. IsCall(r)
  BY DEF ServerInv
<1>2. CASE r.is = "query"
  <2>1. IsCall([r EXCEPT !.answered = TRUE, !.data = Listing(r.key)])
    BY <1>1 DEF IsCall
  <2>2. \A q \in calls' : IsCall(q)
    BY <1>2, <2>1 DEF ServerAnswers, ServerInv
  <2> QED BY <1>2, <2>2 DEF ServerAnswers, ServerInv
<1>3. CASE r.is # "query"
  <2>1. PICK e \in Effects(r) : /\ calls' = (calls \ {r}) \cup {[r EXCEPT !.answered = TRUE, !.ok = e.ok]}
                               /\ tree' = e.tree
                               /\ done' = [done EXCEPT !.ids = @ \cup DOMAIN e.tree]
    BY <1>3 DEF ServerAnswers
  <2>2. IsCall([r EXCEPT !.answered = TRUE, !.ok = e.ok])
    BY <1>1 DEF IsCall
  <2>3. \A q \in calls' : IsCall(q)
    BY <2>1, <2>2 DEF ServerInv
  <2>4. DOMAIN tree' \subseteq NodeIds \cap done'.ids /\ "ids" \in DOMAIN done'
    BY <1>3, <2>1, EffectTree DEF ServerInv
  <2> QED BY <2>3, <2>4 DEF ServerInv
<1> QED BY <1>2, <1>3

LEMMA AnswerCover == ASSUME ServerInv, CoverInv, NEW r \in calls, ServerAnswers(r) PROVE CoverInv'
<1>1. IsCall(r)
  BY DEF ServerInv
<1>2. PICK s : /\ calls' = (calls \ {r}) \cup {s} /\ s.is = r.is /\ s.key = r.key
               /\ s.ids = r.ids /\ s.to = r.to /\ s.from = r.from
               /\ r.is = "query" => s.data = Listing(r.key)
  <2>1. CASE r.is = "query"
    <3> DEFINE s == [r EXCEPT !.answered = TRUE, !.data = Listing(r.key)]
    <3>1. /\ s.is = r.is /\ s.key = r.key /\ s.ids = r.ids /\ s.to = r.to /\ s.from = r.from
          /\ s.data = Listing(r.key)
      BY <1>1 DEF IsCall
    <3>2. calls' = (calls \ {r}) \cup {s}
      BY <2>1 DEF ServerAnswers
    <3> HIDE DEF s
    <3> QED BY <3>1, <3>2
  <2>2. CASE r.is # "query"
    <3>1. PICK e : calls' = (calls \ {r}) \cup {[r EXCEPT !.answered = TRUE, !.ok = e.ok]}
      BY <2>2 DEF ServerAnswers
    <3> DEFINE s == [r EXCEPT !.answered = TRUE, !.ok = e.ok]
    <3>2. s.is = r.is /\ s.key = r.key /\ s.ids = r.ids /\ s.to = r.to /\ s.from = r.from
      BY <1>1 DEF IsCall
    <3>3. calls' = (calls \ {r}) \cup {s}
      BY <3>1
    <3> HIDE DEF s
    <3> QED BY <2>2, <3>2, <3>3
  <2> QED BY <2>1, <2>2
<1>7. PICK tags : tags = PendingOf(calls, hits)
  OBVIOUS
<1>3. InvalidatesTags(s) = InvalidatesTags(r)
  BY <1>2 DEF InvalidatesTags
<1>4. PendingOf(calls', hits') = tags
  <2>1. hits' = hits
    BY DEF ServerAnswers
  <2>2. UNION {InvalidatesTags(q) : q \in {p \in calls' : p.is # "query"}}
         = UNION {InvalidatesTags(q) : q \in {p \in calls : p.is # "query"}}
    BY <1>2, <1>3
  <2> QED BY <1>7, <2>1, <2>2 DEF PendingOf
<1>5. \A k : Asked(calls, k) => Asked(calls', k)
  BY <1>2 DEF Asked
<1>6. ASSUME NEW key, NEW data, OfFolder(key, data), Covered(tags, key, data) PROVE Covered(tags, key, data)'
  <2>1. CASE r.is = "query"
    BY <2>1, <1>6 DEF ServerAnswers, Covered, IsFolder, Stands, ProvidesTag
  <2>2. CASE r.is # "query"
    <3>1. InvalidatesTags(r) \subseteq tags
      BY <1>7, <2>2 DEF PendingOf
    <3>2. PICK e \in Effects(r) :
             /\ tree' = e.tree
             /\ missed' = IF r.is = "move" /\ e.ok
                          THEN missed \cup ({tree[n].parent : n \in r.ids \cap DOMAIN tree} \ {r.from}) ELSE missed
      BY <2>2 DEF ServerAnswers
    <3> QED BY <1>6, <2>2, <3>1, <3>2, EffectCovered
  <2> QED BY <2>1, <2>2
<1>8. \A q \in calls : q.is = "query" /\ q.answered => OfFolder(q.key, q.data) /\ Covered(tags, q.key, q.data)
  BY <1>7 DEF CoverInv, CoverOf
<1>9. \A k \in DOMAIN listings : OfFolder(k, listings[k]) /\ (Covered(tags, k, listings[k]) \/ Asked(calls, k))
  BY <1>7 DEF CoverInv, CoverOf
<1>10. \A q \in calls' : q.is = "query" /\ q.answered => OfFolder(q.key, q.data) /\ Covered(tags, q.key, q.data)'
  <2>1. ASSUME NEW q \in calls', q.is = "query", q.answered, q = s
        PROVE  OfFolder(q.key, q.data) /\ Covered(tags, q.key, q.data)'
    <3>1. s.data = Listing(r.key) /\ s.key = r.key /\ r.is = "query"
      BY <1>2, <2>1
    <3>2. OfFolder(s.key, s.data) /\ Covered(tags, s.key, s.data)
      BY <3>1, ListingIs DEF Covered
    <3>3. UNCHANGED <<tree, missed>>
      BY <3>1 DEF ServerAnswers
    <3> QED BY <2>1, <3>2, <3>3 DEF Covered, IsFolder, Stands, ProvidesTag
  <2>2. ASSUME NEW q \in calls', q.is = "query", q.answered, q # s
        PROVE  OfFolder(q.key, q.data) /\ Covered(tags, q.key, q.data)'
    BY <1>2, <1>6, <1>8, <2>2
  <2> QED BY <2>1, <2>2
<1>11. listings' = listings
  BY DEF ServerAnswers
<1>12. \A k \in DOMAIN listings' :
          OfFolder(k, listings'[k]) /\ (Covered(tags, k, listings[k])' \/ Asked(calls', k))
  BY <1>5, <1>6, <1>9, <1>11
<1>13. HitsWait'
  BY <1>2 DEF HitsWait
<1> QED BY <1>4, <1>10, <1>12, <1>13
        DEF CoverInv, CoverOf, Covered, OfFolder, IsFolder, Stands, PendingOf, Asked, ProvidesTag, InvalidatesTags

-----------------------------------------------------------------------------
(* Uploads, and the whole *)

LEMMA FinishedCover ==
    ASSUME CoverInv, NEW b, NEW status, Finished(b, status)
    PROVE  CoverOf(calls', hits', listings') /\ HitsWait'
<1>1. PICK w : Ui(panel, calls, hits \cup {Every}, listings, dragged, w)
  BY Zenon DEF Finished
<1>2. CoverOf(calls, hits \cup {Every}, listings)
  <2>1. PendingOf(calls, hits) \subseteq PendingOf(calls, hits \cup {Every})
    BY DEF PendingOf
  <2> QED BY <2>1, CoveredMore DEF CoverInv, CoverOf
<1> QED BY <1>1, <1>2, UiCover

\* a new document is in no listing that stands, and is no folder
LEMMA CreatedCovered ==
    ASSUME ServerInv, NEW n \in NodeIds \ (FolderIds \cup done.ids), NEW row, tree' = With(n, row), UNCHANGED missed,
           NEW tags, NEW key, NEW data, Covered(tags, key, data)
    PROVE  Covered(tags, key, data)'
<1>1. IsFolder(key.folder)' => IsFolder(key.folder)
  BY CommanderAssumption DEF IsFolder, With
<1>2. \A m \in DOMAIN tree : m # n /\ m \in DOMAIN tree' /\ tree'[m] = tree[m]
  BY DEF ServerInv, With
<1> QED BY <1>1, <1>2 DEF Covered, Stands, ProvidesTag

\* the same cover, of the tree with the document
LEMMA CreatedCover ==
    ASSUME ServerInv, NEW n \in NodeIds \ (FolderIds \cup done.ids), NEW row, tree' = With(n, row), UNCHANGED missed,
           CoverOf(calls', hits', listings'), HitsWait'
    PROVE  CoverInv'
<1>1. PICK tags : tags = PendingOf(calls', hits')
  OBVIOUS
<1>2. \A r \in calls' : r.is = "query" /\ r.answered => OfFolder(r.key, r.data) /\ Covered(tags, r.key, r.data)'
  BY <1>1, CreatedCovered DEF CoverOf
<1>3. \A k \in DOMAIN listings' :
         OfFolder(k, listings'[k]) /\ (Covered(tags, k, listings[k])' \/ Asked(calls', k))
  <2>1. PICK c : c = listings'
    OBVIOUS
  <2>2. \A k \in DOMAIN c : OfFolder(k, c[k]) /\ (Covered(tags, k, c[k]) \/ Asked(calls', k))
    BY <1>1, <2>1 DEF CoverOf
  <2>3. \A k \in DOMAIN c : Covered(tags, k, c[k]) => Covered(tags, k, c[k])'
    BY CreatedCovered
  <2> QED BY <2>1, <2>2, <2>3 DEF Covered, IsFolder, Stands, ProvidesTag
<1> QED BY <1>1, <1>2, <1>3
        DEF CoverInv, CoverOf, Covered, OfFolder, IsFolder, Stands, PendingOf, Asked, ProvidesTag, InvalidatesTags

LEMMA NodeCreatedStep ==
    ASSUME ServerInv, CoverInv, NEW b \in batches, NodeCreated(b)
    PROVE  CoverInv' /\ ServerInv'
<1>1. ASSUME NEW status, Finished(b, status) PROVE \A r \in calls' : IsCall(r)
  <2>1. PICK w : Ui(panel, calls, hits \cup {Every}, listings, dragged, w)
    BY <1>1, Zenon DEF Finished
  <2> QED BY <2>1, UiCalls DEF ServerInv
<1>2. CASE CreateRefused(b) /\ UNCHANGED <<tree, done>>
  <2>1. CoverInv'
    BY <1>2, FinishedCover, CoverStays DEF CreateRefused, NodeCreated
  <2> QED BY <1>1, <1>2, <2>1 DEF CreateRefused, ServerInv
<1>3. CASE \E n \in NodeIds \ (FolderIds \cup done.ids) :
              /\ tree' = With(n, [parent |-> b.target, title |-> b.file, tagged |-> FALSE])
              /\ done' = [done EXCEPT !.ids = @ \cup {n}]
              /\ UNCHANGED <<calls, hits, listings>> \/ Finished(b, "failure")
  <2>1. PICK n, row :
              /\ n \in NodeIds \ (FolderIds \cup done.ids)
              /\ tree' = With(n, row)
              /\ done' = [done EXCEPT !.ids = @ \cup {n}]
              /\ UNCHANGED <<calls, hits, listings>> \/ Finished(b, "failure")
    BY <1>3
  <2>2. CoverOf(calls', hits', listings') /\ HitsWait'
    BY <2>1, FinishedCover DEF CoverInv, HitsWait
  <2>3. UNCHANGED missed
    BY DEF NodeCreated
  <2>4. CoverInv'
    BY <2>1, <2>2, <2>3, CreatedCover
  <2>5. \A r \in calls' : IsCall(r)
    BY <1>1, <2>1 DEF ServerInv
  <2>6. DOMAIN tree' \subseteq NodeIds \cap done'.ids /\ "ids" \in DOMAIN done'
    BY <2>1 DEF ServerInv, With
  <2> QED BY <2>4, <2>5, <2>6 DEF ServerInv
<1> QED BY <1>2, <1>3, Zenon DEF NodeCreated

LEMMA FileSentStep ==
    ASSUME ServerInv, CoverInv, NEW b \in batches, FileSent(b)
    PROVE  CoverInv' /\ ServerInv'
<1>1. PICK status : Finished(b, status) /\ UNCHANGED <<tree, missed, done>>
  BY DEF FileSent
<1>2. CoverInv'
  BY <1>1, FinishedCover, CoverStays
<1>3. PICK w : Ui(panel, calls, hits \cup {Every}, listings, dragged, w)
  BY <1>1, Zenon DEF Finished
<1>4. \A r \in calls' : IsCall(r)
  BY <1>3, UiCalls DEF ServerInv
<1> QED BY <1>1, <1>2, <1>4 DEF ServerInv

LEMMA LooksStep ==
    ASSUME ServerInv, CoverInv, Looks, Kept, UNCHANGED done \/ Look
    PROVE  CoverInv' /\ ServerInv'
<1>1. PICK v, d, w : Ui(v, calls, hits, listings, d, w)
  BY DEF Looks
<1>2. CoverInv'
  BY <1>1, UiStep DEF CoverInv, Kept
<1>3. \A r \in calls' : IsCall(r)
  BY <1>1, UiCalls DEF ServerInv
<1>4. done'.ids = done.ids /\ "ids" \in DOMAIN done'
  BY DEF ServerInv, Look
<1> QED BY <1>2, <1>3, <1>4 DEF ServerInv, Kept

LEMMA SendsStep ==
    ASSUME ServerInv, CoverInv, Sends, Kept, Change
    PROVE  CoverInv' /\ ServerInv'
<1>1. PICK r : /\ IsCall(r) /\ r.is # "query"
               /\ Ui(panel, calls \cup {r}, hits, listings, dragged, modal)
  BY DEF Sends
<1>2. CoverOf(calls \cup {r}, hits, listings)
  <2>1. PendingOf(calls, hits) \subseteq PendingOf(calls \cup {r}, hits)
    BY DEF PendingOf
  <2>2. \A k : Asked(calls, k) => Asked(calls \cup {r}, k)
    BY DEF Asked
  <2> QED BY <1>1, <2>1, <2>2, CoveredMore DEF CoverInv, CoverOf
<1>3. CoverInv'
  BY <1>1, <1>2, UiStep DEF Kept
<1>4. \A q \in calls' : IsCall(q)
  BY <1>1, UiCalls DEF ServerInv
<1>5. done'.ids = done.ids /\ "ids" \in DOMAIN done'
  BY DEF ServerInv, Change
<1> QED BY <1>3, <1>4, <1>5 DEF ServerInv, Kept

LEMMA ListingStep ==
    ASSUME ServerInv, CoverInv, NEW r \in calls, ListingArrives(r)
    PROVE  CoverInv' /\ ServerInv'
<1> DEFINE c == [k \in DOMAIN listings \cup {r.key} |-> IF k = r.key THEN r.data ELSE listings[k]]
<1>1. r.is = "query" /\ r.answered /\ Ui(panel, calls \ {r}, hits, c, dragged, modal)
      /\ UNCHANGED <<tree, missed, done>>
  BY DEF ListingArrives, Kept
<1>2. PendingOf(calls \ {r}, hits) = PendingOf(calls, hits)
  BY <1>1 DEF PendingOf
<1>3. \A k : k # r.key /\ Asked(calls, k) => Asked(calls \ {r}, k)
  BY DEF Asked
<1>4. CoverOf(calls \ {r}, hits, c)
  BY <1>1, <1>2, <1>3 DEF CoverInv, CoverOf
<1> HIDE DEF c
<1>5. CoverInv'
  BY <1>1, <1>4, UiStep
<1>6. \A q \in calls' : IsCall(q)
  BY <1>1, UiCalls DEF ServerInv
<1> QED BY <1>1, <1>5, <1>6 DEF ServerInv

LEMMA MutationStep ==
    ASSUME ServerInv, CoverInv, NEW r \in calls, MutationDone(r)
    PROVE  CoverInv' /\ ServerInv'
<1>1. PICK v, d, w : Ui(v, calls \ {r}, hits \cup InvalidatesTags(r), listings, d, w)
  BY Zenon DEF MutationDone
<1>2. r.is # "query" /\ UNCHANGED <<tree, missed, done>>
  BY DEF MutationDone, Kept
<1>3. PendingOf(calls \ {r}, hits \cup InvalidatesTags(r)) = PendingOf(calls, hits)
  BY <1>2 DEF PendingOf
<1>4. \A k : Asked(calls, k) => Asked(calls \ {r}, k)
  BY <1>2 DEF Asked
<1>5. CoverOf(calls \ {r}, hits \cup InvalidatesTags(r), listings)
  BY <1>3, <1>4 DEF CoverInv, CoverOf
<1>6. CoverInv'
  BY <1>1, <1>2, <1>5, UiStep
<1>7. \A q \in calls' : IsCall(q)
  BY <1>1, UiCalls DEF ServerInv
<1> QED BY <1>2, <1>6, <1>7 DEF ServerInv

LEMMA QuietStep ==
    ASSUME ServerInv, CoverInv,
           \/ ListingExpires \/ LocalSubmit \/ CloseUploader \/ UNCHANGED commanderVars
           \/ \E b \in batches : UploadStarts(b) \/ UploadBreaksOff(b)
    PROVE  CoverInv' /\ ServerInv'
<1>1. /\ UNCHANGED <<tree, missed, calls, hits>> /\ done'.ids = done.ids /\ "ids" \in DOMAIN done'
      /\ DOMAIN listings' \subseteq DOMAIN listings
      /\ \A k \in DOMAIN listings' : listings'[k] = listings[k]
  BY DEF ListingExpires, LocalSubmit, CloseUploader, UploadStarts, UploadBreaksOff, commanderVars, ServerInv
<1>2. CoverOf(calls', hits', listings') /\ HitsWait'
  BY <1>1 DEF CoverInv, CoverOf, HitsWait
<1>3. CoverInv'
  BY <1>1, <1>2, CoverStays
<1> QED BY <1>1, <1>3 DEF ServerInv

LEMMA CoverInit == CommanderInit => CoverInv /\ ServerInv
<1> SUFFICES ASSUME CommanderInit PROVE CoverInv /\ ServerInv
  OBVIOUS
<1>1. \A r \in calls : r.is = "query" /\ ~r.answered /\ IsCall(r)
  BY QueryIs DEF CommanderInit
<1>2. DOMAIN listings = {} /\ hits = {} /\ tree = FirstTree /\ done.ids = DOMAIN FirstTree /\ "ids" \in DOMAIN done
  BY DEF CommanderInit
<1> QED BY <1>1, <1>2, CommanderAssumption DEF CoverInv, CoverOf, HitsWait, ServerInv

-----------------------------------------------------------------------------
(* Items of the uploader *)

\* an item that says it is uploaded is what a batch has in hand
UploadInv ==
    /\ modal.files \subseteq Files
    /\ \A b \in batches : b.rest \subseteq Files
    /\ \A b \in batches : b = [f \in DOMAIN b |-> b[f]] /\ {"rest", "file", "target", "node"} \subseteq DOMAIN b
    /\ \A i \in DOMAIN uploader :
          uploader[i] = "uploading" => \E b \in batches : b.file # "" /\ i = <<b.file, b.target>>

LEMMA UiModal ==
    ASSUME NEW v, NEW n, NEW t, NEW c, NEW d, NEW w, Ui(v, n, t, c, d, w), w.files \subseteq Files
    PROVE  modal'.files \subseteq Files
<1>1. modal' = w \/ modal' = NoModal
  BY Zenon DEF Ui
<1> QED BY <1>1 DEF NoModal

LEMMA FinishedUpload ==
    ASSUME UploadInv, NEW b \in batches, NEW status, status # "uploading", Finished(b, status)
    PROVE  UploadInv'
<1>1. PICK w : Ui(panel, calls, hits \cup {Every}, listings, dragged, w) /\ w.files \subseteq Files
  <2>1. PICK w : Ui(panel, calls, hits \cup {Every}, listings, dragged, w) /\ w \in {modal, NoModal}
    BY DEF Finished
  <2>2. NoModal.files \subseteq Files
    BY DEF NoModal
  <2>3. w.files \subseteq Files
    BY <2>1, <2>2 DEF UploadInv
  <2> QED BY <2>1, <2>3
<1>2. modal'.files \subseteq Files
  BY <1>1, UiModal
<1>3. \E next : \/ batches' = batches \ {b}
               \/ /\ batches' = (batches \ {b}) \cup {next}
                  /\ next = [b EXCEPT !.file = "", !.node = Nowhere]
  BY DEF Finished, Batch
<1> DEFINE empty == [b EXCEPT !.file = "", !.node = Nowhere]
<1>4. \A p \in batches' : p \in batches \ {b} \/ p = empty
  BY <1>3
<1>8. /\ empty = [f \in DOMAIN empty |-> empty[f]] /\ {"rest", "file", "target", "node"} \subseteq DOMAIN empty
      /\ empty.rest \subseteq Files
  BY ZenonT(40) DEF UploadInv
<1> HIDE DEF empty
<1>5. batches \ {b} \subseteq batches'
  BY <1>3
<1>6. \A p \in batches' : /\ p = [f \in DOMAIN p |-> p[f]] /\ {"rest", "file", "target", "node"} \subseteq DOMAIN p
                         /\ p.rest \subseteq Files
  BY ZenonT(40), <1>4, <1>8 DEF UploadInv
<1>7. ASSUME NEW i \in DOMAIN uploader', uploader'[i] = "uploading"
      PROVE  \E p \in batches' : p.file # "" /\ i = <<p.file, p.target>>
  <2>1. i # <<b.file, b.target>> /\ i \in DOMAIN uploader /\ uploader[i] = "uploading"
    BY <1>7 DEF Finished, ItemUpdated
  <2> QED BY <2>1, <1>5 DEF UploadInv
<1> QED BY <1>2, <1>6, <1>7 DEF UploadInv

LEMMA StartsUpload ==
    ASSUME UploadInv, NEW b \in batches, UploadStarts(b)
    PROVE  UploadInv'
<1>1. PICK file \in b.rest :
         /\ batches' = (batches \ {b}) \cup {[b EXCEPT !.file = file, !.rest = @ \ {file}]}
         /\ uploader' = ItemUpdated(file, b.target, "uploading")
  BY DEF UploadStarts, Batch
<1> DEFINE next == [b EXCEPT !.file = file, !.rest = @ \ {file}]
<1>2. b.file = "" /\ UNCHANGED modal
  BY DEF UploadStarts
<1>3. /\ next = [f \in DOMAIN next |-> next[f]] /\ {"rest", "file", "target", "node"} \subseteq DOMAIN next
      /\ next.rest \subseteq Files /\ next.file = file /\ next.target = b.target
  BY ZenonT(40) DEF UploadInv
<1>4. file # ""
  BY CommanderAssumption DEF UploadInv
<1> HIDE DEF next
<1>5. ASSUME NEW i \in DOMAIN uploader', uploader'[i] = "uploading"
      PROVE  \E p \in batches' : p.file # "" /\ i = <<p.file, p.target>>
  <2>1. CASE i = <<file, b.target>>
    BY <1>1, <1>3, <1>4, <2>1 DEF next
  <2>2. CASE i # <<file, b.target>>
    <3>1. i \in DOMAIN uploader /\ uploader[i] = "uploading"
      BY <1>1, <1>5, <2>2 DEF ItemUpdated
    <3> QED BY <1>1, <1>2, <3>1 DEF UploadInv
  <2> QED BY <2>1, <2>2
<1>6. \A p \in batches' : p \in batches \/ p = next
  BY <1>1 DEF next
<1> QED BY <1>2, <1>3, <1>5, <1>6 DEF UploadInv

LEMMA CreatedUpload ==
    ASSUME UploadInv, NEW b \in batches, NodeCreated(b)
    PROVE  UploadInv'
<1>1. ASSUME Finished(b, "failure") PROVE UploadInv'
  BY <1>1, FinishedUpload
<1>2. ASSUME NEW n, Batch(b, [b EXCEPT !.node = n]), UNCHANGED <<modal, uploader>> PROVE UploadInv'
  <2> DEFINE next == [b EXCEPT !.node = n]
  <2>1. /\ next = [f \in DOMAIN next |-> next[f]] /\ {"rest", "file", "target", "node"} \subseteq DOMAIN next
        /\ next.rest \subseteq Files /\ next.file = b.file /\ next.target = b.target
    BY DEF UploadInv
  <2>2. batches' = (batches \ {b}) \cup {next}
    BY <1>2 DEF Batch
  <2> HIDE DEF next
  <2>3. \A p \in batches' : p \in batches \/ p = next
    BY <2>2
  <2>4. ASSUME NEW i \in DOMAIN uploader', uploader'[i] = "uploading"
        PROVE  \E p \in batches' : p.file # "" /\ i = <<p.file, p.target>>
    <3>1. PICK p \in batches : p.file # "" /\ i = <<p.file, p.target>>
      BY <1>2, <2>4 DEF UploadInv
    <3>2. CASE p = b
      BY <2>1, <2>2, <3>1, <3>2
    <3>3. CASE p # b
      BY <2>2, <3>1, <3>3
    <3> QED BY <3>2, <3>3
  <2> QED BY <1>2, <2>1, <2>3, <2>4 DEF UploadInv
<1> QED BY <1>1, <1>2 DEF NodeCreated, CreateRefused

LEMMA SubmitUpload ==
    ASSUME UploadInv, LocalSubmit
    PROVE  UploadInv'
<1>1. PICK no, is, mode, target :
         batches' = batches \cup {[no |-> no, is |-> is, mode |-> mode, rest |-> modal.files,
                                   file |-> "", target |-> target, node |-> Nowhere]}
  BY DEF LocalSubmit
<1> DEFINE next == [no |-> no, is |-> is, mode |-> mode, rest |-> modal.files,
                    file |-> "", target |-> target, node |-> Nowhere]
<1>2. /\ next = [f \in DOMAIN next |-> next[f]] /\ {"rest", "file", "target", "node"} \subseteq DOMAIN next
      /\ next.rest = modal.files
  OBVIOUS
<1>3. batches' = batches \cup {next} /\ UNCHANGED <<modal, uploader>>
  BY <1>1 DEF LocalSubmit
<1> HIDE DEF next
<1> QED BY <1>2, <1>3 DEF UploadInv

LEMMA OtherUpload ==
    ASSUME UploadInv, modal'.files \subseteq Files, UNCHANGED <<batches, uploader>>
    PROVE  UploadInv'
BY DEF UploadInv

LEMMA BreaksUpload ==
    ASSUME UploadInv, NEW b \in batches, UploadBreaksOff(b)
    PROVE  UploadInv'
BY DEF UploadInv, UploadBreaksOff

LEMMA CloseUpload ==
    ASSUME UploadInv, CloseUploader
    PROVE  UploadInv'
BY DEF UploadInv, CloseUploader

LEMMA UploadNext ==
    ASSUME UploadInv, CommanderNext \/ UNCHANGED commanderVars
    PROVE  UploadInv'
<1>1. NoModal.files \subseteq Files
  BY DEF NoModal
<1>2. ASSUME Looks, Kept PROVE UploadInv'
  <2>1. modal'.files \subseteq Files
    BY <1>2, UiModal DEF Looks
  <2> QED BY <1>2, <2>1, OtherUpload DEF Kept
<1>3. ASSUME Sends, Kept PROVE UploadInv'
  <2>1. modal'.files \subseteq Files
    BY <1>3, UiModal DEF Sends, UploadInv
  <2> QED BY <1>3, <2>1, OtherUpload DEF Kept
<1>4. ASSUME NEW r \in calls, ServerAnswers(r) \/ ListingArrives(r) \/ MutationDone(r) PROVE UploadInv'
  <2>1. CASE ServerAnswers(r)
    <3>1. UNCHANGED <<modal, batches, uploader>>
      BY <2>1 DEF ServerAnswers
    <3> QED BY <3>1 DEF UploadInv
  <2>2. CASE ListingArrives(r)
    <3>1. PICK n, c : Ui(panel, n, hits, c, dragged, modal) /\ Kept
      BY <2>2, Zenon DEF ListingArrives
    <3>2. modal'.files \subseteq Files
      BY <3>1, UiModal DEF UploadInv
    <3> QED BY <3>1, <3>2, OtherUpload DEF Kept
  <2>3. CASE MutationDone(r)
    <3>1. PICK v, n, t, d, w : Ui(v, n, t, listings, d, w) /\ (w = modal \/ w = NoModal)
      BY <2>3, Zenon DEF MutationDone
    <3>2. modal'.files \subseteq Files
      BY <1>1, <3>1, UiModal DEF UploadInv
    <3>3. Kept
      BY <2>3 DEF MutationDone
    <3> QED BY <3>2, <3>3, OtherUpload DEF Kept
  <2> QED BY <1>4, <2>1, <2>2, <2>3
<1>5. ASSUME ListingExpires \/ UNCHANGED commanderVars PROVE UploadInv'
  <2>1. UNCHANGED <<modal, batches, uploader>>
    BY <1>5, Zenon DEF ListingExpires, commanderVars
  <2> QED BY <2>1 DEF UploadInv
<1>6. ASSUME NEW b \in batches, FileSent(b) PROVE UploadInv'
  BY <1>6, FinishedUpload DEF FileSent
<1>7. modal.files \subseteq Files
  BY DEF UploadInv
<1> QED BY <1>2, <1>3, <1>4, <1>5, <1>6, <1>7, LooksAre, SendsAre, SubmitUpload, CloseUpload,
           StartsUpload, BreaksUpload, CreatedUpload DEF CommanderNext

LEMMA UploadInit == CommanderInit => UploadInv
BY DEF CommanderInit, UploadInv, NoModal

-----------------------------------------------------------------------------
(* The commander as a whole *)

LEMMA CoverNext ==
    ASSUME ServerInv, CoverInv, UploadInv, CommanderNext \/ UNCHANGED commanderVars
    PROVE  CoverInv' /\ ServerInv'
<1>1. modal.files \subseteq Files
  BY DEF UploadInv
<1> QED BY <1>1, LooksAre, LooksStep, SendsAre, SendsStep, AnswerCover, AnswerServer, ListingStep, MutationStep,
           QuietStep, NodeCreatedStep, FileSentStep DEF CommanderNext

LEMMA CachesHold == CommanderSpec => [](ServerInv /\ CoverInv /\ UploadInv)
<1>1. CommanderInit => ServerInv /\ CoverInv /\ UploadInv
  BY CoverInit, UploadInit
<1>2. ServerInv /\ CoverInv /\ UploadInv /\ [CommanderNext]_commanderVars => (ServerInv /\ CoverInv /\ UploadInv)'
  BY CoverNext, UploadNext
<1> QED BY <1>1, <1>2, PTL DEF CommanderSpec

\* Once nothing is in flight no tag waits and no query is on its way, so every
\* cached listing (listings, RTK Query's) is covered by nothing else than the
\* server's tree itself.
THEOREM ListingsAreTrue == CommanderSpec => []ListedIsThere
<1>1. ASSUME CoverInv PROVE ListedIsThere
  <2> SUFFICES ASSUME calls = {}, NEW k \in DOMAIN listings, IsFolder(k.folder), k.folder \notin missed,
                      NEW n \in DOMAIN listings[k].items
               PROVE  n \in DOMAIN tree /\ tree[n] = listings[k].items[n]
    BY DEF ListedIsThere
  <2>1. PendingOf(calls, hits) = {} /\ ~Asked(calls, k)
    BY <1>1 DEF CoverInv, HitsWait, PendingOf, Asked
  <2>2. Covered({}, k, listings[k])
    BY <1>1, <2>1 DEF CoverInv, CoverOf
  <2> QED BY <2>2 DEF Covered, Stands
<1> QED BY <1>1, CachesHold, PTL

\* An item of the uploader that says "uploading" is the file a running batch
\* has in hand, so none says it when no batch runs.
THEOREM UploaderSettles == CommanderSpec => []UploaderSettled
<1>1. UploadInv => UploaderSettled
  BY DEF UploadInv, UploaderSettled
<1> QED BY <1>1, CachesHold, PTL

-----------------------------------------------------------------------------
(* The administration tables *)

Forms == [name : BOOLEAN, extra : BOOLEAN]
RowType == [v : Nat, name : BOOLEAN, extra : BOOLEAN]

\* the kinds whose rows keep their fields
Whole(f) == kind \in {"groups", "document-types"} => f.name /\ f.extra

IsRow(row) == row \in RowType /\ Whole(row)

\* what is cached or answered for a key: rows that were given out, of a row's
\* details that row only
DataOf(key, data) ==
    /\ DOMAIN data \subseteq used.ids
    /\ key.id # NoId => key.id \in used.ids /\ DOMAIN data \subseteq {key.id}
    /\ \A i \in DOMAIN data : IsRow(data[i])

RequestIs(r) ==
    /\ r = [f \in DOMAIN r |-> r[f]] /\ {"is", "key", "form", "answered", "ok", "data"} \subseteq DOMAIN r
    /\ r.is \in {"query", "edit", "add", "delete", "delete one"}
    /\ r.form \in Forms /\ (r.is \in {"edit", "add"} => Whole(r.form))
    /\ r.is = "query" => r.key.id \in {NoId} \cup used.ids
    /\ r.is = "query" /\ r.answered =>
          DataOf(r.key, r.data) /\ (r.ok \/ r.key.id \in used.ids \ DOMAIN rows)
    /\ r.is \in {"add", "edit"} /\ r.answered /\ r.ok =>
          /\ r.key.id \in used.ids /\ r.data[r.key.id].v \in Nat
          /\ r.key.id \in DOMAIN rows => r.data[r.key.id].v <= rows[r.key.id].v
    /\ r.is \in {"delete", "delete one"} /\ r.answered /\ r.ok => r.key.id \in used.ids \ DOMAIN rows

\* the table on the server, and what this client saved and deleted in it
RowsInv ==
    /\ "ids" \in DOMAIN used /\ used.ids \subseteq Ids /\ IsFiniteSet(used.ids)
    /\ DOMAIN rows \subseteq used.ids /\ \A i \in DOMAIN rows : IsRow(rows[i])
    /\ seen = [f \in DOMAIN seen |-> seen[f]] /\ {"saved", "deleted"} \subseteq DOMAIN seen
    /\ seen.saved \in [Ids -> Nat]
    /\ seen.deleted \subseteq used.ids \ DOMAIN rows
    /\ \A i \in DOMAIN rows : seen.saved[i] <= rows[i].v
    /\ \A i \in Ids \ used.ids : seen.saved[i] = 0

KeysInv ==
    /\ selectedIds \subseteq used.ids /\ at \in {List} \cup used.ids
    /\ "id" \in DOMAIN view /\ view.id = NoId
    /\ \A k \in DOMAIN cache : DataOf(k, cache[k])
    /\ \A r \in net : RequestIs(r)

\* what data says of its rows is what this client saved or newer, or a tag hits it
World == [there |-> DOMAIN rows, saved |-> seen.saved, deleted |-> seen.deleted]
Current(w, key, data, i) ==
    /\ key.id = NoId => i \notin w.deleted
    /\ key.id = NoId \/ i \in w.there => data[i].v >= w.saved[i]
TagHits(tag, key, data) ==
    \/ tag[1] = Api.type /\ tag[2] = All
    \/ key.id # NoId /\ tag = <<Api.type, key.id>>
    \/ key.id = NoId /\ (tag = <<Api.type, All>> \/ \E i \in DOMAIN data : tag = <<Api.type, i>>)
CurrentOrHit(w, tags, key, data) ==
    \A i \in DOMAIN data : Current(w, key, data, i) \/ \E tag \in tags : TagHits(tag, key, data)
QueriedAgain(n, k) == \E r \in n : r.is = "query" /\ r.key = k
CacheOf(w, n, st, c) ==
    /\ \A r \in n : r.is = "query" /\ r.answered => CurrentOrHit(w, st, r.key, r.data)
    /\ \A k \in DOMAIN c : CurrentOrHit(w, st, k, c[k]) \/ QueriedAgain(n, k)
StaleWaits == stale # {} => net # {}
CacheInv == CacheOf(World, net, stale, cache) /\ StaleWaits

\* the edit dialog is about the row that is ticked or shown, and its form is filled
EditorIs(e, p, s) ==
    /\ e \in [id : {NoId} \cup used.ids, of : {NoId} \cup used.ids, row : RowType, form : Forms]
    /\ e.of \in {NoId, e.id}
    /\ e.of # NoId => Whole(e.row) /\ Whole(e.form)
    /\ e.id # NoId => IF p = List THEN s = {e.id} ELSE e.id = p

TablesInv == RowsInv /\ KeysInv /\ CacheInv /\ EditorIs(editor, at, selectedIds)

LEMMA TagHitsIs ==
    ASSUME NEW tag, NEW key, NEW data
    PROVE  Hits(tag, Provided(key, data)) <=> TagHits(tag, key, data)
<1>1. PICK type : type = Api.type
  OBVIOUS
<1>2. /\ Provided(key, data) # {} /\ \A p \in Provided(key, data) : p[1] = type
  <2>1. CASE key.id # NoId
    <3>1. Provided(key, data) = {<<type, key.id>>}
      BY <1>1, <2>1 DEF Provided
    <3> QED BY <3>1
  <2>2. CASE key.id = NoId
    <3>1. /\ <<type, All>> \in Provided(key, data)
          /\ \A p \in Provided(key, data) : p = <<type, All>> \/ \E i : p = <<type, i>>
      BY <1>1, <2>2 DEF Provided
    <3> QED BY <3>1
  <2> QED BY <2>1, <2>2
<1>3. tag \in Provided(key, data) <=>
         \/ key.id # NoId /\ tag = <<type, key.id>>
         \/ key.id = NoId /\ (tag = <<type, All>> \/ \E i \in DOMAIN data : tag = <<type, i>>)
  <2>1. CASE key.id # NoId
    BY <1>1, <2>1 DEF Provided
  <2>2. CASE key.id = NoId
    BY <1>1, <2>2 DEF Provided
  <2> QED BY <2>1, <2>2
<1> QED BY <1>1, <1>2, <1>3 DEF Hits, TagHits

LEMMA FirstInit == ListInit => TablesInv
<1> SUFFICES ASSUME ListInit PROVE TablesInv
  OBVIOUS
<1> DEFINE r == Request("query", FirstView(DefaultSize), Blank)
<1>1. net = {r} /\ r.is = "query" /\ ~r.answered /\ r.key.id = NoId /\ RequestIs(r)
  BY DEF ListInit, Request, FirstView, Blank, RequestIs, Forms
<1>2. RowsInv
  <2>1. used.ids = InitialIds /\ "ids" \in DOMAIN used
    BY DEF ListInit
  <2>2. DOMAIN rows = InitialIds /\ \A i \in DOMAIN rows : IsRow(rows[i]) /\ rows[i].v = 1
    BY DEF ListInit, IsRow, RowType, Whole
  <2>3. /\ seen = [f \in DOMAIN seen |-> seen[f]] /\ {"saved", "deleted"} \subseteq DOMAIN seen
        /\ seen.saved = [i \in Ids |-> 0] /\ seen.deleted = {}
    BY DEF ListInit
  <2> QED BY <2>1, <2>2, <2>3, ListAssumption DEF RowsInv
<1>3. KeysInv
  BY <1>1 DEF ListInit, KeysInv, FirstView, Nothing
<1>4. CacheInv
  BY <1>1 DEF ListInit, CacheInv, CacheOf, StaleWaits, Nothing
<1>5. EditorIs(editor, at, selectedIds)
  BY DEF ListInit, EditorIs, NoEditor, NoRow, Blank, RowType, Forms
<1> QED BY <1>2, <1>3, <1>4, <1>5 DEF TablesInv

-----------------------------------------------------------------------------
(* What a step of the tables brings about *)

\* it names rows that were given out, and ticks no single row where another was ticked
TicksWell(p, s) ==
    /\ p \in {List} \cup used.ids /\ s \subseteq used.ids
    /\ p = at => s = selectedIds \/ (\A i, j : s = {i} => selectedIds # {j})
KeysOf(v) == "id" \in DOMAIN v /\ v.id = NoId

LEMMA QueryRequest ==
    ASSUME NEW k, k.id \in {NoId} \cup used.ids
    PROVE  LET q == Request("query", k, Blank) IN q.is = "query" /\ q.key = k /\ ~q.answered /\ RequestIs(q)
BY DEF Request, Blank, RequestIs, Forms

LEMMA SingletonIs ==
    ASSUME IsFiniteSet(used.ids), NEW s \in SUBSET used.ids, Cardinality(s) = 1
    PROVE  \E i \in s : s = {i} /\ (CHOOSE j \in s : TRUE) = i
<1>1. IsFiniteSet(s)
  BY FS_Subset
<1>2. PICK i : s = {i}
  BY <1>1, FS_Singleton
<1> QED BY <1>2

LEMMA SubscribedIs ==
    ASSUME NEW v, NEW p, NEW s, KeysOf(v), p \in {List} \cup used.ids, s \subseteq used.ids,
           NEW k \in Subscribed(v, p, s)
    PROVE  k.id \in {NoId} \cup used.ids
BY DEF Subscribed, KeysOf, DetailKey, FirstView, List, NoId

LEMMA ClientCache ==
    ASSUME NEW w, NEW v, NEW p, NEW s, NEW n, NEW st, NEW c, NEW e, NEW d, Client(v, p, s, n, st, c, e, d),
           KeysOf(v), p \in {List} \cup used.ids, s \subseteq used.ids,
           CacheOf(w, n, st, c), \A r \in n : RequestIs(r), \A k \in DOMAIN c : DataOf(k, c[k])
    PROVE  /\ CacheOf(w, net', stale', cache') /\ StaleWaits'
           /\ \A r \in net' : RequestIs(r)
           /\ \A k \in DOMAIN cache' : DataOf(k, cache'[k])
           /\ view' = v /\ at' = p /\ selectedIds' = s
<1> DEFINE hit == WhatIsHit(n, st, c)
           wanted == Subscribed(v, p, s)
           asked == {k \in wanted : k \notin DOMAIN c \/ k \in hit}
<1>1. /\ cache' = [k \in (DOMAIN c \ hit) \cup (hit \cap wanted) |-> c[k]]
      /\ net' = n \cup {Request("query", k, Blank) :
                             k \in {q \in asked : \A r \in n : r.is = "query" => r.key # q}}
      /\ stale' = IF n # {} THEN st ELSE {}
      /\ view' = v /\ at' = p /\ selectedIds' = s
  BY DEF Client, Delayed
<1>2. hit \subseteq DOMAIN c
  BY DEF WhatIsHit
<1>3. /\ DOMAIN cache' \subseteq DOMAIN c /\ \A k \in DOMAIN cache' : cache'[k] = c[k]
      /\ \A k \in DOMAIN cache' : k \in hit => k \in wanted
  BY <1>1, <1>2
<1>4. \A k \in wanted : k.id \in {NoId} \cup used.ids
  BY SubscribedIs
<1>5. \A r \in net' : r \in n \/ (r.is = "query" /\ ~r.answered /\ RequestIs(r))
  BY <1>1, <1>4, QueryRequest
<1>6. \A k : QueriedAgain(n, k) => QueriedAgain(net', k)
  BY <1>1 DEF QueriedAgain
<1>7. ASSUME n = {} PROVE CacheOf(w, net', stale', cache')
  <2>1. \A k \in DOMAIN c : CurrentOrHit(w, st, k, c[k])
    BY <1>7 DEF CacheOf, QueriedAgain
  <2>2. ASSUME NEW k \in DOMAIN cache', k \notin hit PROVE CurrentOrHit(w, stale', k, cache'[k])
    <3>1. \A tag \in st : ~TagHits(tag, k, c[k])
      BY <1>3, <1>7, <2>2, TagHitsIs DEF WhatIsHit, Delayed
    <3> QED BY <1>3, <2>1, <3>1 DEF CurrentOrHit
  <2>3. ASSUME NEW k \in DOMAIN cache', k \in hit PROVE QueriedAgain(net', k)
    <3>1. Request("query", k, Blank) \in net'
      BY <1>1, <1>3, <1>7, <2>3
    <3>2. k.id \in {NoId} \cup used.ids
      BY <1>3, <1>4, <2>3
    <3> QED BY <3>1, <3>2, QueryRequest DEF QueriedAgain
  <2> QED BY <1>5, <1>7, <2>2, <2>3 DEF CacheOf
<1>8. ASSUME n # {} PROVE CacheOf(w, net', stale', cache')
  <2>1. stale' = st
    BY <1>1, <1>8
  <2> QED BY <1>3, <1>5, <1>6, <2>1 DEF CacheOf
<1>9. StaleWaits'
  BY <1>1 DEF StaleWaits
<1>10. \A k \in DOMAIN cache' : DataOf(k, cache'[k])
  BY <1>3
<1>11. \A r \in net' : RequestIs(r)
  BY <1>5
<1> QED BY <1>1, <1>7, <1>8, <1>9, <1>10, <1>11

LEMMA ResetIs ==
    ASSUME NEW e, NEW p, NEW s, EditorIs(e, p, s), NEW event
    PROVE  EditorIs(Reset(e, event), p, s) /\ Reset(e, event).id = e.id
<1> DEFINE f == [e EXCEPT !.form.name = e.row.name,
                          !.form.extra = IF event \in Edit.extra THEN e.row.extra ELSE e.form.extra]
<1>1. CASE e.of = NoId \/ event \notin Edit.reset
  BY <1>1 DEF Reset
<1>2. CASE e.of # NoId /\ event \in Edit.reset
  <2>1. Reset(e, event) = f
    BY <1>2 DEF Reset
  <2>2. /\ f \in [id : {NoId} \cup used.ids, of : {NoId} \cup used.ids, row : RowType, form : Forms]
        /\ f.id = e.id /\ f.of = e.of /\ f.row = e.row /\ f.form.name = e.row.name
        /\ f.form.extra = e.row.extra \/ f.form.extra = e.form.extra
    BY DEF EditorIs, Forms, RowType
  <2>3. Whole(f.form)
    BY <1>2, <2>2 DEF EditorIs, Whole
  <2> HIDE DEF f
  <2> QED BY <2>1, <2>2, <2>3 DEF EditorIs
<1> QED BY <1>1, <1>2

\* the form is filled when the row of a group or a document type is loaded
LEMMA LoadedIs ==
    ASSUME NEW e \in [id : {NoId} \cup used.ids, of : {NoId} \cup used.ids, row : RowType, form : Forms],
           e.of # NoId, e.of = e.id, Whole(e.row), NEW event \in {"mount", "data"},
           NEW p, NEW s, IF p = List THEN s = {e.id} ELSE e.id = p
    PROVE  EditorIs(Reset(e, event), p, s)
<1> DEFINE f == [e EXCEPT !.form.name = e.row.name,
                          !.form.extra = IF event \in Edit.extra THEN e.row.extra ELSE e.form.extra]
<1>1. kind \in {"groups", "document-types"} => event \in Edit.reset /\ event \in Edit.extra
  BY DEF Edit, GroupsEdit, DocumentTypesEdit
<1>2. CASE event \notin Edit.reset
  <2>1. Reset(e, event) = e
    BY <1>2 DEF Reset
  <2>2. Whole(e.form)
    BY <1>1, <1>2 DEF Whole
  <2> QED BY <2>1, <2>2 DEF EditorIs
<1>3. CASE event \in Edit.reset
  <2>1. Reset(e, event) = f
    BY <1>3 DEF Reset
  <2>2. /\ f \in [id : {NoId} \cup used.ids, of : {NoId} \cup used.ids, row : RowType, form : Forms]
        /\ f.id = e.id /\ f.of = e.of /\ f.row = e.row /\ f.form.name = e.row.name
        /\ event \in Edit.extra => f.form.extra = e.row.extra
    BY DEF Forms, RowType
  <2>3. Whole(f.form)
    BY <1>1, <2>2 DEF Whole
  <2> HIDE DEF f
  <2> QED BY <2>1, <2>2, <2>3 DEF EditorIs
<1> QED BY <1>2, <1>3

LEMMA CacheStays ==
    ASSUME NEW w, w = World', CacheOf(w, net', stale', cache'), StaleWaits', UNCHANGED kind
    PROVE  CacheInv'
<1>1. Api' = Api
  BY DEF Api
<1> QED BY <1>1 DEF CacheInv, CacheOf, StaleWaits, CurrentOrHit, Current, TagHits, QueriedAgain, World

LEMMA ClientEditor ==
    ASSUME NEW v, NEW p, NEW s, NEW n, NEW st, NEW c, NEW e, NEW d, Client(v, p, s, n, st, c, e, d),
           EditorIs(e, at, selectedIds), TicksWell(p, s), IsFiniteSet(used.ids), used.ids \subseteq Ids,
           \A k \in DOMAIN c : DataOf(k, c[k])
    PROVE  EditorIs(editor', p, s)
<1> DEFINE id == EditedId(p, s, c)
           mounts == e.id = NoId \/ p # at
           kept == [(IF mounts THEN NoEditor ELSE e) EXCEPT !.id = id]
           row == c[DetailKey(id)][id]
           loaded == [kept EXCEPT !.of = id, !.row = row]
           there == DetailKey(id) \in DOMAIN c /\ id \in DOMAIN c[DetailKey(id)]
<1>1. editor' = CASE id = NoId -> NoEditor
                  [] id # NoId /\ (DetailKey(id) \notin DOMAIN c \/ id \notin DOMAIN c[DetailKey(id)]) -> kept
                  [] OTHER -> IF mounts THEN Reset(loaded, "mount")
                              ELSE IF loaded = kept THEN kept ELSE Reset(loaded, "data")
  BY Zenon DEF Client, EditorAfter
<1>2. id # NoId => id \in used.ids /\ IF p = List THEN s = {id} ELSE id = p
  BY SingletonIs DEF EditedId, TicksWell, List, NoId
<1>3. NoEditor \in [id : {NoId} \cup used.ids, of : {NoId} \cup used.ids, row : RowType, form : Forms]
      /\ NoEditor.of = NoId /\ NoEditor.id = NoId
  BY DEF NoEditor, NoRow, Blank, RowType, Forms
<1>4. CASE id = NoId
  BY <1>1, <1>3, <1>4 DEF EditorIs
<1>5. CASE id # NoId
  <2>1. ~mounts => id = e.id
    BY <1>2, <1>5 DEF EditorIs, TicksWell
  <2>2. /\ kept \in [id : {NoId} \cup used.ids, of : {NoId} \cup used.ids, row : RowType, form : Forms]
        /\ kept.id = id
        /\ mounts => kept.of = NoId
        /\ ~mounts => kept.of = e.of /\ kept.row = e.row /\ kept.form = e.form
    BY <1>2, <1>3, <1>5 DEF EditorIs
  <2>3. EditorIs(kept, p, s)
    <3> HIDE DEF kept, id, mounts
    <3> QED BY <1>2, <2>1, <2>2, <1>5 DEF EditorIs
  <2>4. CASE ~there
    BY <1>1, <1>5, <2>3, <2>4, Zenon
  <2>5. CASE there
    <3>1. editor' = IF mounts THEN Reset(loaded, "mount")
                    ELSE IF loaded = kept THEN kept ELSE Reset(loaded, "data")
      BY <1>1, <1>5, <2>5, Zenon
    <3>2. row \in RowType /\ Whole(row)
      BY <2>5 DEF DataOf, IsRow
    <3>3. /\ loaded \in [id : {NoId} \cup used.ids, of : {NoId} \cup used.ids, row : RowType, form : Forms]
          /\ loaded.id = id /\ loaded.of = id /\ loaded.row = row
      <4> HIDE DEF kept, id, row
      <4> QED BY <1>2, <2>2, <3>2
    <3>4. IF p = List THEN s = {loaded.id} ELSE loaded.id = p
      <4> HIDE DEF loaded, id
      <4> QED BY <1>2, <1>5, <3>3
    <3>5. EditorIs(Reset(loaded, "mount"), p, s) /\ EditorIs(Reset(loaded, "data"), p, s)
      <4> HIDE DEF loaded, id, row
      <4> QED BY <1>5, <3>2, <3>3, <3>4, LoadedIs
    <3> HIDE DEF loaded, kept, mounts
    <3> QED BY <2>3, <3>1, <3>5
  <2> QED BY <2>4, <2>5
<1> QED BY <1>4, <1>5

-----------------------------------------------------------------------------
(* Steps of the tables and the dialogs *)

\* what the step sends is a request nobody has answered
SendsOnly(n) == /\ net \subseteq n
            /\ \A r \in n \ net : RequestIs(r) /\ r.is # "query" /\ ~r.answered

\* a step of the user: it answers nothing
Uses == /\ \E v, p, s, n, e, d :
              /\ Client(v, p, s, n, stale, cache, e, d)
              /\ KeysOf(v) /\ TicksWell(p, s) /\ SendsOnly(n) /\ (e = editor \/ e = Reset(editor, "open"))
        /\ UNCHANGED <<kind, rows, seen>>
        /\ "ids" \in DOMAIN used' /\ used'.ids = used.ids

LEMMA UsesStep == ASSUME TablesInv, Uses PROVE TablesInv'
<1>1. PICK v, p, s, n, e, d :
              /\ Client(v, p, s, n, stale, cache, e, d)
              /\ KeysOf(v) /\ TicksWell(p, s) /\ SendsOnly(n) /\ (e = editor \/ e = Reset(editor, "open"))
  BY DEF Uses
<1>2. UNCHANGED <<kind, rows, seen>> /\ "ids" \in DOMAIN used' /\ used'.ids = used.ids
  BY DEF Uses
<1>3. /\ \A r \in n : RequestIs(r)
      /\ \A k \in DOMAIN cache : DataOf(k, cache[k])
  BY <1>1 DEF TablesInv, KeysInv, SendsOnly
<1>4. CacheOf(World, n, stale, cache)
  BY <1>1 DEF TablesInv, CacheInv, CacheOf, SendsOnly, QueriedAgain
<1>5. EditorIs(e, at, selectedIds)
  BY <1>1, ResetIs DEF TablesInv
<1>6. /\ CacheOf(World, net', stale', cache') /\ StaleWaits'
      /\ \A r \in net' : RequestIs(r)
      /\ \A k \in DOMAIN cache' : DataOf(k, cache'[k])
      /\ view' = v /\ at' = p /\ selectedIds' = s
  BY <1>1, <1>3, <1>4, ClientCache DEF TicksWell
<1>7. EditorIs(editor', p, s)
  BY <1>1, <1>3, <1>5, ClientEditor DEF TablesInv, RowsInv
<1>8. RowsInv'
  BY <1>2 DEF TablesInv, RowsInv, IsRow, Whole
<1>9. KeysInv'
  BY <1>1, <1>2, <1>6 DEF KeysInv, TicksWell, KeysOf, RequestIs, DataOf, IsRow, Whole
<1>10. CacheInv'
  BY <1>2, <1>6, CacheStays DEF World
<1>11. EditorIs(editor, at, selectedIds)'
  BY <1>2, <1>6, <1>7 DEF EditorIs, Whole
<1> QED BY <1>8, <1>9, <1>10, <1>11 DEF TablesInv

LEMMA ShownAre == TablesInv => DOMAIN Shown \subseteq used.ids
BY DEF TablesInv, KeysInv, DataOf, Shown, Nothing

LEMMA TicksOne ==
    ASSUME NEW s, NEW x
    PROVE  /\ \A i, j : s \cup {x} = {i} /\ x \notin s => s # {j}
           /\ \A i, j : s \ {x} = {i} /\ x \in s => s # {j}
OBVIOUS

LEMMA TicksAll ==
    ASSUME NEW s, NEW t, Cardinality(s) # Cardinality(t)
    PROVE  \A i, j : s = {i} => t # {j}
BY FS_Singleton

LEMMA TableUses ==
    ASSUME TablesInv,
           \/ ChangePage \/ ChangeSize \/ SortBy \/ Filter \/ TickRow \/ TickAll
           \/ OpenDetails \/ BackToList \/ (\E d \in {"edit", "new", "delete"} : OpenDialog(d)) \/ CloseDialog
    PROVE  Uses
<1>1. /\ SendsOnly(net) /\ TicksWell(at, selectedIds) /\ TicksWell(at, {}) /\ KeysOf(view)
      /\ TicksWell(List, selectedIds) /\ \A i \in DOMAIN Shown : TicksWell(i, selectedIds)
  BY ShownAre DEF TablesInv, KeysInv, SendsOnly, TicksWell, KeysOf
<1>2. \A u : used' = [used EXCEPT !.views = u] => "ids" \in DOMAIN used' /\ used'.ids = used.ids
  BY DEF TablesInv, RowsInv
<1>3. UNCHANGED used => "ids" \in DOMAIN used' /\ used'.ids = used.ids
  BY DEF TablesInv, RowsInv
<1>4. \A v, p, d : Show(v, p) /\ KeysOf(v) /\ TicksWell(p, selectedIds) =>
                       \E s, n, e, f : /\ Client(v, p, s, n, stale, cache, e, f)
                                       /\ TicksWell(p, s) /\ SendsOnly(n) /\ (e = editor \/ e = Reset(editor, "open"))
  BY <1>1, Zenon DEF Show
<1>5. ASSUME ChangePage PROVE Uses
  <2>1. \A page : KeysOf([view EXCEPT !.page = page])
    BY <1>1 DEF KeysOf
  <2>2. at = List
    BY <1>5 DEF ChangePage, HasControls, OnTable
  <2> QED BY <1>1, <1>2, <1>4, <1>5, <2>1, <2>2 DEF ChangePage, Viewed, Looking, Uses
<1>6. ASSUME ChangeSize PROVE Uses
  <2>1. \A size : KeysOf([view EXCEPT !.size = size])
    BY <1>1 DEF KeysOf
  <2>2. at = List
    BY <1>6 DEF ChangeSize, HasControls, OnTable
  <2> QED BY <1>1, <1>2, <1>4, <1>6, <2>1, <2>2 DEF ChangeSize, Viewed, Uses
<1>7. ASSUME SortBy PROVE Uses
  <2>2. at = List
    BY <1>7 DEF SortBy, HasControls, OnTable
  <2>1. PICK col : Show([view EXCEPT !.by = col, !.reverse = (view.by = col /\ ~view.reverse)], List)
    BY <1>7 DEF SortBy
  <2>3. KeysOf([view EXCEPT !.by = col, !.reverse = (view.by = col /\ ~view.reverse)])
    BY <1>1 DEF KeysOf
  <2> QED BY ZenonT(40), <1>1, <1>2, <1>4, <1>7, <2>1, <2>2, <2>3 DEF SortBy, Viewed, Looking, Uses
<1>8. ASSUME Filter PROVE Uses
  <2>1. KeysOf([view EXCEPT !.filter = ~view.filter, !.page = 1])
    BY <1>1 DEF KeysOf
  <2> QED BY <1>1, <1>2, <1>4, <1>8, <2>1 DEF Filter, OnTable, Viewed, Looking, Uses
<1>9. ASSUME TickRow PROVE Uses
  <2>1. PICK i, s : /\ i \in DOMAIN Shown /\ Client(view, at, s, net, stale, cache, editor, dialog)
                    /\ s = IF i \in selectedIds THEN selectedIds \ {i} ELSE selectedIds \cup {i}
    BY <1>9, Zenon DEF TickRow, Tick
  <2>2. s \subseteq used.ids
    BY <1>1, <2>1, ShownAre DEF TicksWell
  <2>3. TicksWell(at, s)
    BY <1>1, <2>1, <2>2, TicksOne DEF TicksWell
  <2> QED BY <1>1, <1>3, <1>9, <2>1, <2>3 DEF TickRow, Looking, Uses
<1>10. ASSUME TickAll PROVE Uses
  <2>1. PICK s : /\ Client(view, at, s, net, stale, cache, editor, dialog)
                 /\ s = IF Cardinality(DOMAIN Shown) = Cardinality(selectedIds) THEN {} ELSE DOMAIN Shown
    BY <1>10, Zenon DEF TickAll, Tick
  <2>2. TicksWell(at, s)
    BY <1>1, <2>1, ShownAre, TicksAll DEF TicksWell
  <2> QED BY <1>1, <1>3, <1>10, <2>1, <2>2 DEF TickAll, Looking, Uses
<1>11. ASSUME OpenDetails PROVE Uses
  BY <1>1, <1>2, <1>4, <1>11 DEF OpenDetails, Viewed, Uses
<1>12. ASSUME BackToList PROVE Uses
  <2>1. KeysOf(Remounted)
    BY <1>1 DEF KeysOf, Remounted
  <2> QED BY <1>1, <1>3, <1>4, <1>12, <2>1 DEF BackToList, Looking, Uses
<1>13. ASSUME NEW d, OpenDialog(d) PROVE Uses
  BY <1>1, <1>3, <1>13 DEF OpenDialog, Dialog, Looking, Uses
<1>14. ASSUME CloseDialog PROVE Uses
  BY <1>1, <1>3, <1>14 DEF CloseDialog, Dialog, Looking, Uses
<1> QED BY <1>5, <1>6, <1>7, <1>8, <1>9, <1>10, <1>11, <1>12, <1>13, <1>14

LEMMA RequestOf ==
    ASSUME NEW is \in {"edit", "add", "delete", "delete one"}, NEW key, NEW form \in Forms,
           is \in {"edit", "add"} => Whole(form)
    PROVE  LET q == Request(is, key, form) IN RequestIs(q) /\ q.is # "query" /\ ~q.answered
BY DEF Request, RequestIs

LEMMA SubmitUses ==
    ASSUME TablesInv, SubmitEdit \/ SubmitNew \/ SubmitDelete
    PROVE  Uses
<1>1. TicksWell(at, selectedIds) /\ KeysOf(view)
  BY DEF TablesInv, KeysInv, TicksWell, KeysOf
<1>2. Changed => "ids" \in DOMAIN used' /\ used'.ids = used.ids
  BY DEF TablesInv, RowsInv, Changed
<1>3. ASSUME SubmitEdit PROVE Uses
  <2>1. PICK id, extra :
           /\ extra \in {editor.form.extra} \cup (IF Edit.looksUp THEN {FALSE} ELSE {})
           /\ Dialog(dialog, editor,
                     net \cup {Request("edit", DetailKey(id), [editor.form EXCEPT !.extra = extra])})
    BY <1>3, Zenon DEF SubmitEdit
  <2> DEFINE form == [editor.form EXCEPT !.extra = extra]
  <2>2. editor.form \in Forms /\ Whole(editor.form)
    BY <1>3 DEF SubmitEdit, TablesInv, EditorIs
  <2>3. kind \in {"groups", "document-types"} => extra = editor.form.extra
    BY <2>1 DEF Edit, GroupsEdit, DocumentTypesEdit
  <2>4. extra \in BOOLEAN
    BY <2>1, <2>2 DEF Forms
  <2>5. form \in Forms /\ form.name = editor.form.name /\ form.extra = extra
    BY <2>2, <2>4 DEF Forms
  <2>6. Whole(form)
    BY <2>2, <2>3, <2>5 DEF Whole
  <2>7. SendsOnly(net \cup {Request("edit", DetailKey(id), form)})
    <3> HIDE DEF form
    <3> QED BY <2>5, <2>6, RequestOf DEF SendsOnly
  <2> QED BY <1>1, <1>2, <1>3, <2>1, <2>7 DEF SubmitEdit, Dialog, Looking, Uses
<1>4. ASSUME SubmitNew PROVE Uses
  <2>1. Whole([name |-> TRUE, extra |-> TRUE]) /\ [name |-> TRUE, extra |-> TRUE] \in Forms
    BY DEF Whole, Forms
  <2>2. SendsOnly(net \cup {Request("add", DetailKey(NoId), [name |-> TRUE, extra |-> TRUE])})
    BY <2>1, RequestOf DEF SendsOnly
  <2> QED BY <1>1, <1>2, <1>4, <2>2 DEF SubmitNew, Dialog, Looking, Uses
<1>5. ASSUME SubmitDelete PROVE Uses
  <2>1. Blank \in Forms
    BY DEF Blank, Forms
  <2>2. SendsOnly(net \cup (IF at = List THEN {Request("delete", DetailKey(i), Blank) : i \in selectedIds}
                        ELSE {Request("delete one", DetailKey(at), Blank)}))
    BY <2>1, RequestOf DEF SendsOnly
  <2> QED BY <1>1, <1>2, <1>5, <2>2 DEF SubmitDelete, Dialog, Looking, Uses
<1> QED BY <1>3, <1>4, <1>5

-----------------------------------------------------------------------------
(* Answers that arrive at the tables *)

LEMMA QueryStep == ASSUME TablesInv, NEW r \in net, QueryArrives(r) PROVE TablesInv'
<1> DEFINE data == IF r.ok \/ r.key \notin DOMAIN cache THEN r.data ELSE cache[r.key]
           c == [k \in DOMAIN cache \cup {r.key} |-> IF k = r.key THEN data ELSE cache[k]]
<1>1. /\ r.is = "query" /\ r.answered
      /\ Client(view, at, selectedIds, net \ {r}, stale, c, editor, dialog)
      /\ UNCHANGED <<kind, rows, seen, used>>
  BY DEF QueryArrives
<1>2. RequestIs(r)
  BY DEF TablesInv, KeysInv
<1>3. DataOf(r.key, data)
  BY <1>1, <1>2 DEF RequestIs, TablesInv, KeysInv
<1>4. CurrentOrHit(World, stale, r.key, data)
  <2>1. CASE r.ok \/ r.key \notin DOMAIN cache
    BY <1>1, <2>1 DEF TablesInv, CacheInv, CacheOf
  <2>2. CASE ~r.ok
    <3>1. r.key.id \in used.ids \ DOMAIN rows
      BY <1>1, <1>2, <2>2 DEF RequestIs
    <3>2. r.key.id # NoId
      BY <3>1, ListAssumption DEF TablesInv, RowsInv, NoId
    <3>3. \A i \in DOMAIN data : i = r.key.id
      BY <1>3, <3>2 DEF DataOf
    <3> HIDE DEF data
    <3> QED BY <3>1, <3>2, <3>3 DEF CurrentOrHit, Current, World
  <2> QED BY <2>1, <2>2
<1> HIDE DEF data
<1>5. \A k \in DOMAIN c : DataOf(k, c[k])
  BY <1>3 DEF TablesInv, KeysInv
<1>6. CacheOf(World, net \ {r}, stale, c)
  BY <1>1, <1>4 DEF TablesInv, CacheInv, CacheOf, QueriedAgain
<1>7. TicksWell(at, selectedIds) /\ KeysOf(view)
  BY DEF TablesInv, KeysInv, TicksWell, KeysOf
<1>8. \A q \in net \ {r} : RequestIs(q)
  BY DEF TablesInv, KeysInv
<1> HIDE DEF c
<1>9. /\ CacheOf(World, net', stale', cache') /\ StaleWaits'
      /\ \A q \in net' : RequestIs(q)
      /\ \A k \in DOMAIN cache' : DataOf(k, cache'[k])
      /\ view' = view /\ at' = at /\ selectedIds' = selectedIds
  BY <1>1, <1>5, <1>6, <1>7, <1>8, ClientCache DEF TicksWell
<1>10. EditorIs(editor', at, selectedIds)
  BY <1>1, <1>5, <1>7, ClientEditor DEF TablesInv, RowsInv
<1>11. RowsInv'
  BY <1>1 DEF TablesInv, RowsInv, IsRow, Whole
<1>12. KeysInv'
  BY <1>1, <1>7, <1>9 DEF KeysInv, TicksWell, KeysOf, RequestIs, DataOf, IsRow, Whole
<1>13. CacheInv'
  BY <1>1, <1>9, CacheStays DEF World
<1>14. EditorIs(editor, at, selectedIds)'
  BY <1>1, <1>9, <1>10 DEF EditorIs, Whole
<1> QED BY <1>11, <1>12, <1>13, <1>14 DEF TablesInv

\* from w to x the client learns of the row that r changed only
Learns(r, w, x) ==
    /\ r.is \in {"edit", "add", "delete", "delete one"} /\ used.ids \subseteq Ids
    /\ LET i == r.key.id IN
       /\ x.there = w.there /\ x.deleted \subseteq w.deleted \cup {i}
       /\ \A j \in Ids : j # i => x.saved[j] = w.saved[j]

\* what an answered mutation changes of what this client knows is hit
LEMMA SavedIsHit ==
    ASSUME NEW r, NEW w, NEW x, Learns(r, w, x),
           NEW key, NEW data, DataOf(key, data), NEW tags, CurrentOrHit(w, tags, key, data)
    PROVE  CurrentOrHit(x, tags \cup Invalidated(r), key, data)
<1> SUFFICES ASSUME NEW i \in DOMAIN data
             PROVE  Current(x, key, data, i) \/ \E tag \in tags \cup Invalidated(r) : TagHits(tag, key, data)
  BY DEF CurrentOrHit
<1>1. CASE i # r.key.id
  BY <1>1 DEF CurrentOrHit, Current, DataOf, Learns
<1>a. r.is \in {"edit", "add", "delete", "delete one"}
  BY DEF Learns
<1>2. CASE i = r.key.id /\ r.is = "add"
  <2>1. <<Api.type, All>> \in Invalidated(r)
    BY <1>2 DEF Invalidated
  <2> QED BY <2>1 DEF TagHits
<1>3. CASE i = r.key.id /\ r.is # "add"
  <2>1. <<Api.type, r.key.id>> \in Invalidated(r)
    BY <1>3, <1>a DEF Invalidated
  <2>2. TagHits(<<Api.type, r.key.id>>, key, data)
    BY <1>3 DEF TagHits, DataOf
  <2> QED BY <2>1, <2>2
<1> QED BY <1>1, <1>2, <1>3

LEMMA MutationSeen ==
    ASSUME TablesInv, NEW r \in net, MutationArrives(r)
    PROVE  /\ r.is \in {"edit", "add", "delete", "delete one"} /\ RowsInv'
           /\ \A i \in Ids : i # r.key.id => seen'.saved[i] = seen.saved[i]
           /\ seen'.deleted \subseteq seen.deleted \cup {r.key.id}
           /\ UNCHANGED <<kind, rows, used>>
<1>1. RequestIs(r) /\ r.is # "query" /\ r.answered
  BY DEF TablesInv, KeysInv, MutationArrives
<1>2. r.is \in {"edit", "add", "delete", "delete one"}
  BY <1>1 DEF RequestIs
<1>3. UNCHANGED <<kind, rows, used>>
  BY DEF MutationArrives
<1>4. RowsInv
  BY DEF TablesInv
<1>5. seen' = CASE r.is \in {"add", "edit"} /\ r.ok -> [seen EXCEPT !.saved[r.key.id] = r.data[r.key.id].v]
                [] r.is \in {"delete", "delete one"} /\ r.ok -> [seen EXCEPT !.deleted = @ \cup {r.key.id}]
                [] OTHER -> seen
  BY Zenon DEF MutationArrives
<1>6. CASE r.is \in {"add", "edit"} /\ r.ok
  <2>1. seen' = [seen EXCEPT !.saved[r.key.id] = r.data[r.key.id].v]
    BY <1>5, <1>6
  <2>2. /\ seen' = [f \in DOMAIN seen' |-> seen'[f]] /\ {"saved", "deleted"} \subseteq DOMAIN seen'
        /\ seen'.deleted = seen.deleted
        /\ seen'.saved = [seen.saved EXCEPT ![r.key.id] = r.data[r.key.id].v]
    BY <1>4, <2>1 DEF RowsInv
  <2>3. /\ r.key.id \in used.ids /\ r.data[r.key.id].v \in Nat
        /\ r.key.id \in DOMAIN rows => r.data[r.key.id].v <= rows[r.key.id].v
    BY <1>1, <1>6 DEF RequestIs
  <2>4. /\ seen'.saved \in [Ids -> Nat]
        /\ \A i \in Ids : i # r.key.id => seen'.saved[i] = seen.saved[i]
        /\ r.key.id \in DOMAIN rows => seen'.saved[r.key.id] <= rows[r.key.id].v
    BY <1>4, <2>2, <2>3 DEF RowsInv
  <2>5. RowsInv'
    BY <1>3, <1>4, <2>2, <2>3, <2>4 DEF RowsInv, IsRow, Whole
  <2> QED BY <1>2, <1>3, <2>2, <2>4, <2>5
<1>7. CASE r.is \in {"delete", "delete one"} /\ r.ok
  <2>1. seen' = [seen EXCEPT !.deleted = @ \cup {r.key.id}]
    BY <1>5, <1>7
  <2>2. /\ seen' = [f \in DOMAIN seen' |-> seen'[f]] /\ {"saved", "deleted"} \subseteq DOMAIN seen'
        /\ seen'.deleted = seen.deleted \cup {r.key.id} /\ seen'.saved = seen.saved
    BY <1>4, <2>1 DEF RowsInv
  <2>3. r.key.id \in used.ids \ DOMAIN rows
    BY <1>1, <1>7 DEF RequestIs
  <2>4. RowsInv'
    BY <1>3, <1>4, <2>2, <2>3 DEF RowsInv, IsRow, Whole
  <2> QED BY <1>2, <1>3, <1>7, <2>2, <2>4
<1>8. CASE ~r.ok
  <2>1. seen' = seen
    BY <1>5, <1>8
  <2>2. RowsInv'
    BY <1>3, <1>4, <2>1 DEF RowsInv, IsRow, Whole
  <2> QED BY <1>2, <1>3, <2>1, <2>2
<1> QED BY <1>2, <1>6, <1>7, <1>8

LEMMA SavedStep == ASSUME TablesInv, NEW r \in net, MutationArrives(r) PROVE TablesInv'
<1>1. PICK v, p, s, e, d :
         /\ Client(v, p, s, net \ {r}, stale \cup Invalidated(r), cache, e, d)
         /\ v \in {view, Remounted} /\ p \in {at, List} /\ s \in {selectedIds, {}}
         /\ e = editor \/ e = Reset(editor, "open")
  <2> DEFINE n == net \ {r}
             last == r.is = "delete" /\ \A q \in n : q.is # "delete"
             closes == CASE r.is = "edit" -> r.ok \/ Edit.closes
                         [] r.is = "add" -> r.ok \/ New.closes
                         [] r.is = "delete one" -> r.ok \/ ~Delete.oneUnwraps
                         [] OTHER -> last /\ (r.ok \/ ~Delete.manyUnwrap)
             open == CASE r.is = "edit" -> "edit" [] r.is = "add" -> "new" [] OTHER -> "delete"
             shut == closes /\ dialog = open
             leaves == r.is = "delete one" /\ closes /\ at # List
  <2>1. Client(IF leaves THEN Remounted ELSE view, IF leaves THEN List ELSE at,
               IF last THEN {} ELSE selectedIds,
               n, stale \cup Invalidated(r), cache,
               IF shut /\ open = "edit" THEN Reset(editor, "open") ELSE editor,
               IF shut \/ leaves THEN "none" ELSE dialog)
    BY Zenon DEF MutationArrives
  <2>2. /\ (IF leaves THEN Remounted ELSE view) \in {view, Remounted}
        /\ (IF leaves THEN List ELSE at) \in {at, List}
        /\ (IF last THEN {} ELSE selectedIds) \in {selectedIds, {}}
        /\ LET e == IF shut /\ open = "edit" THEN Reset(editor, "open") ELSE editor
           IN  e = editor \/ e = Reset(editor, "open")
    OBVIOUS
  <2> QED BY <2>1, <2>2, Zenon
<1>2. /\ r.is \in {"edit", "add", "delete", "delete one"} /\ RowsInv'
      /\ \A i \in Ids : i # r.key.id => seen'.saved[i] = seen.saved[i]
      /\ seen'.deleted \subseteq seen.deleted \cup {r.key.id}
      /\ UNCHANGED <<kind, rows, used>>
  BY MutationSeen
<1>3. PICK w : w = World'
  OBVIOUS
<1>4. /\ \A k \in DOMAIN cache : DataOf(k, cache[k])
      /\ \A q \in net \ {r} : RequestIs(q)
      /\ KeysOf(v) /\ TicksWell(p, s)
  BY <1>1 DEF TablesInv, KeysInv, KeysOf, TicksWell, Remounted
<1>5. \A key, data : DataOf(key, data) /\ CurrentOrHit(World, stale, key, data)
                         => CurrentOrHit(w, stale \cup Invalidated(r), key, data)
  <2>1. PICK u : u = World
    OBVIOUS
  <2>2. Learns(r, u, w)
    BY <1>2, <1>3, <2>1 DEF World, TablesInv, RowsInv, Learns
  <2>3. ASSUME NEW key, NEW data, DataOf(key, data), CurrentOrHit(u, stale, key, data)
        PROVE  CurrentOrHit(w, stale \cup Invalidated(r), key, data)
    BY <2>2, <2>3, SavedIsHit
  <2> QED BY <2>1, <2>3
<1>6. CacheOf(w, net \ {r}, stale \cup Invalidated(r), cache)
  <2>1. ASSUME NEW q \in net \ {r}, q.is = "query", q.answered
        PROVE  CurrentOrHit(w, stale \cup Invalidated(r), q.key, q.data)
    <3>1. DataOf(q.key, q.data)
      BY <1>4, <2>1 DEF RequestIs
    <3> QED BY <1>5, <2>1, <3>1 DEF TablesInv, CacheInv, CacheOf
  <2>2. ASSUME NEW k \in DOMAIN cache
        PROVE  CurrentOrHit(w, stale \cup Invalidated(r), k, cache[k]) \/ QueriedAgain(net \ {r}, k)
    BY <1>2, <1>4, <1>5 DEF TablesInv, CacheInv, CacheOf, QueriedAgain
  <2> QED BY <2>1, <2>2 DEF CacheOf
<1>7. /\ CacheOf(w, net', stale', cache') /\ StaleWaits'
      /\ \A q \in net' : RequestIs(q)
      /\ \A k \in DOMAIN cache' : DataOf(k, cache'[k])
      /\ view' = v /\ at' = p /\ selectedIds' = s
  BY <1>1, <1>4, <1>6, ClientCache DEF TicksWell
<1>8. EditorIs(editor', p, s)
  <2>1. EditorIs(e, at, selectedIds)
    BY <1>1, ResetIs DEF TablesInv
  <2> QED BY <1>1, <1>4, <2>1, ClientEditor DEF TablesInv, RowsInv
<1>9. KeysInv'
  BY ZenonT(40), <1>2, <1>4, <1>7 DEF KeysInv, TicksWell, KeysOf, RequestIs, DataOf, IsRow, Whole
<1>10. CacheInv'
  BY <1>2, <1>3, <1>7, CacheStays
<1>11. EditorIs(editor, at, selectedIds)'
  BY <1>2, <1>7, <1>8 DEF EditorIs, Whole
<1> QED BY <1>2, <1>9, <1>10, <1>11 DEF TablesInv

-----------------------------------------------------------------------------
(* The server of the tables *)

\* rows are added under new identities, rewritten with a higher revision, removed
Moves ==
    /\ UNCHANGED <<kind, seen>>
    /\ "ids" \in DOMAIN used' /\ used.ids \subseteq used'.ids /\ used'.ids \subseteq Ids /\ IsFiniteSet(used'.ids)
    /\ DOMAIN rows' \subseteq used'.ids /\ \A i \in DOMAIN rows' : IsRow(rows'[i])
    /\ \A i \in used.ids \cap DOMAIN rows' : i \in DOMAIN rows /\ rows[i].v <= rows'[i].v

LEMMA MovesRows == ASSUME RowsInv, Moves PROVE RowsInv'
<1>1. \A i \in DOMAIN rows : rows[i].v \in Nat
  BY DEF RowsInv, IsRow, RowType
<1>2. \A i \in DOMAIN rows' : rows'[i].v \in Nat /\ IsRow(rows'[i])
  BY DEF Moves, IsRow, RowType
<1>3. ASSUME NEW i \in DOMAIN rows' PROVE seen.saved[i] <= rows'[i].v /\ i \notin seen.deleted
  <2>1. CASE i \in used.ids
    <3>1. i \in DOMAIN rows /\ rows[i].v <= rows'[i].v /\ seen.saved[i] <= rows[i].v /\ seen.saved[i] \in Nat
      BY <2>1 DEF Moves, RowsInv
    <3>2. rows[i].v \in Nat /\ rows'[i].v \in Nat
      BY <1>1, <1>2, <3>1
    <3>3. seen.saved[i] <= rows'[i].v
      BY <3>1, <3>2
    <3> QED BY <3>1, <3>3 DEF RowsInv
  <2>2. CASE i \notin used.ids
    <3>1. seen.saved[i] = 0 /\ i \notin seen.deleted
      BY <2>2 DEF Moves, RowsInv
    <3> QED BY <1>2, <3>1
  <2> QED BY <2>1, <2>2
<1>4. PICK t : t = rows' /\ \A i \in DOMAIN t : IsRow(t[i])'
  BY <1>2 DEF IsRow, Whole, Moves
<1>5. seen.deleted \subseteq used'.ids \ DOMAIN rows'
  BY <1>3 DEF RowsInv, Moves
<1>6. \A i \in Ids \ used'.ids : seen.saved[i] = 0
  BY DEF RowsInv, Moves
<1> QED BY <1>3, <1>4, <1>5, <1>6 DEF RowsInv, Moves, IsRow, Whole

LEMMA MovesData == ASSUME Moves, NEW key, NEW data, DataOf(key, data) PROVE DataOf(key, data)'
BY DEF Moves, DataOf, IsRow, Whole

LEMMA MovesRequest == ASSUME RowsInv, Moves, NEW r, RequestIs(r) PROVE RequestIs(r)'
<1>1. \A i \in DOMAIN rows : rows[i].v \in Nat
  BY DEF RowsInv, IsRow, RowType
<1>2. \A i \in DOMAIN rows' : rows'[i].v \in Nat
  BY DEF Moves, IsRow, RowType
<1>3. r.is \in {"edit", "add"} => Whole(r.form)'
  BY DEF RequestIs, Whole, Moves
<1>4. r.is = "query" => r.key.id \in {NoId} \cup used'.ids
  BY DEF RequestIs, Moves
<1>5. r.is = "query" /\ r.answered => DataOf(r.key, r.data)' /\ (r.ok \/ r.key.id \in used'.ids \ DOMAIN rows')
  BY MovesData DEF RequestIs, Moves
<1>6. r.is \in {"delete", "delete one"} /\ r.answered /\ r.ok => r.key.id \in used'.ids \ DOMAIN rows'
  BY DEF RequestIs, Moves
<1>7. ASSUME r.is \in {"add", "edit"}, r.answered, r.ok
      PROVE  /\ r.key.id \in used'.ids /\ r.data[r.key.id].v \in Nat
             /\ r.key.id \in DOMAIN rows' => r.data[r.key.id].v <= rows'[r.key.id].v
  <2>1. /\ r.key.id \in used.ids /\ r.data[r.key.id].v \in Nat
        /\ r.key.id \in DOMAIN rows => r.data[r.key.id].v <= rows[r.key.id].v
    BY <1>7 DEF RequestIs
  <2>2. ASSUME r.key.id \in DOMAIN rows' PROVE r.data[r.key.id].v <= rows'[r.key.id].v
    <3>1. r.key.id \in DOMAIN rows /\ rows[r.key.id].v <= rows'[r.key.id].v
      BY <2>1, <2>2 DEF Moves
    <3> QED BY <1>1, <1>2, <2>1, <2>2, <3>1
  <2> QED BY <2>1, <2>2 DEF Moves
<1> QED BY <1>3, <1>4, <1>5, <1>6, <1>7 DEF RequestIs

LEMMA MovesCurrent ==
    ASSUME Moves, NEW w, w = World, NEW x, x = World', NEW tags, NEW key, NEW data, DataOf(key, data),
           CurrentOrHit(w, tags, key, data)
    PROVE  CurrentOrHit(x, tags, key, data)
BY DEF Moves, World, DataOf, CurrentOrHit, Current

\* the rest, when no answer of a query is made
LEMMA MovesStep ==
    ASSUME TablesInv, Moves, UNCHANGED <<at, view, selectedIds, cache, stale, editor>>,
           net # {} => net' # {},
           \A r \in net' : r \in net \/ RequestIs(r)',
           \A r \in net' : r \in net \/ (r.is = "query" => CurrentOrHit(World', stale, r.key, r.data)),
           \A k : QueriedAgain(net, k) => QueriedAgain(net', k)
    PROVE  TablesInv'
<1>1. RowsInv'
  BY MovesRows DEF TablesInv
<1>2. KeysInv'
  <2>1. \E c : c = cache' /\ \A k \in DOMAIN c : DataOf(k, c[k])'
    BY MovesData DEF TablesInv, KeysInv
  <2>2. \A r \in net' : RequestIs(r)'
    BY MovesRequest DEF TablesInv, KeysInv
  <2>3. at \in {List} \cup used'.ids /\ selectedIds \subseteq used'.ids
    BY DEF TablesInv, KeysInv, Moves
  <2>4. PICK c : c = cache' /\ \A k \in DOMAIN c : DataOf(k, c[k])'
    BY <2>1
  <2> QED BY ZenonT(40), <2>2, <2>3, <2>4 DEF TablesInv, KeysInv, RequestIs, DataOf, IsRow, Whole
<1>3. CacheInv'
  <2>1. PICK w, x : w = World /\ x = World'
    OBVIOUS
  <2>2. CacheOf(w, net, stale, cache) /\ StaleWaits
    BY <2>1 DEF TablesInv, CacheInv
  <2>3. \A k \in DOMAIN cache : CurrentOrHit(x, stale, k, cache[k]) \/ QueriedAgain(net', k)
    BY <2>1, <2>2, MovesCurrent DEF CacheOf, TablesInv, KeysInv
  <2>4. \A r \in net' : r.is = "query" /\ r.answered => CurrentOrHit(x, stale, r.key, r.data)
    BY <2>1, <2>2, MovesCurrent DEF CacheOf, TablesInv, KeysInv, RequestIs
  <2>5. CacheOf(x, net', stale', cache')
    BY <2>3, <2>4 DEF CacheOf
  <2> QED BY <2>1, <2>2, <2>5, CacheStays DEF StaleWaits, Moves
<1>4. EditorIs(editor, at, selectedIds)'
  BY DEF TablesInv, EditorIs, Moves, Whole
<1> QED BY <1>1, <1>2, <1>3, <1>4 DEF TablesInv

LEMMA PagedIs ==
    ASSUME RowsInv, NEW key, key.id \in {NoId} \cup used.ids
    PROVE  /\ DataOf(key, Paged(key)) /\ DOMAIN Paged(key) \subseteq DOMAIN rows
           /\ \A i \in DOMAIN Paged(key) : Paged(key)[i] = rows[i]
<1>1. PICK page : /\ Paged(key) = [i \in page |-> rows[i]] /\ page \subseteq DOMAIN rows
                  /\ key.id # NoId => page \subseteq {key.id}
  <2> DEFINE matching == IF key.filter THEN DOMAIN rows \cap FilterMatches ELSE DOMAIN rows
             rank(i) == Cardinality({j \in matching : IF key.reverse THEN j > i ELSE j < i})
             first == (key.page - 1) * key.size
             page == IF key.id # NoId THEN {key.id} \cap DOMAIN rows
                     ELSE {i \in matching : first <= rank(i) /\ rank(i) < first + key.size}
  <2>1. Paged(key) = [i \in page |-> rows[i]]
    BY Zenon DEF Paged
  <2>2. page \subseteq DOMAIN rows /\ (key.id # NoId => page \subseteq {key.id})
    <3> HIDE DEF rank, first
    <3> QED OBVIOUS
  <2> HIDE DEF page
  <2> QED BY <2>1, <2>2
<1> QED BY <1>1 DEF RowsInv, DataOf

LEMMA GivenFinite ==
    ASSUME RowsInv, NEW i \in Ids, used'.ids \subseteq used.ids \cup {i}
    PROVE  IsFiniteSet(used'.ids)
<1>1. IsFiniteSet(used.ids \cup {i})
  BY FS_AddElement DEF RowsInv
<1> QED BY <1>1, FS_Subset

LEMMA AnswerStep == ASSUME TablesInv, NEW r \in net, Answer(r) PROVE TablesInv'
<1> DEFINE row(i) == [v |-> IF i \in DOMAIN rows THEN rows[i].v + 1 ELSE 1,
                      name |-> r.form.name, extra |-> r.form.extra]
           after(i) == [j \in DOMAIN rows \cup {i} |-> IF j = i THEN row(i) ELSE rows[j]]
           answer(i, ok) == [r EXCEPT !.answered = TRUE, !.ok = ok,
                                 !.key = IF r.is = "add" THEN DetailKey(i) ELSE r.key,
                                 !.data = CASE r.is = "query" -> Paged(r.key)
                                            [] r.is \in {"add", "edit"} /\ ok -> [j \in {i} |-> row(i)]
                                            [] OTHER -> Nothing]
<1>1. PICK i \in (IF r.is = "add" THEN Ids \ used.ids ELSE {r.key.id}), ok \in BOOLEAN :
         /\ r.is \notin {"add", "edit"} => ok = (i \in DOMAIN rows \/ (r.is = "query" /\ r.key.id = NoId))
         /\ r.is = "edit" => (ok => i \in DOMAIN rows)
         /\ rows' = CASE r.is \in {"add", "edit"} /\ ok -> after(i)
                      [] r.is \in {"delete", "delete one"} -> [j \in DOMAIN rows \ {i} |-> rows[j]]
                      [] OTHER -> rows
         /\ net' = (net \ {r}) \cup {answer(i, ok)}
         /\ used' = [used EXCEPT !.ids = @ \cup DOMAIN rows']
  BY Zenon DEF Answer
<1>2. /\ RequestIs(r) /\ ~r.answered /\ RowsInv
      /\ UNCHANGED <<kind, at, view, selectedIds, cache, stale, editor, seen>>
  BY DEF Answer, TablesInv, KeysInv
<1>a. PICK q : q = answer(i, ok)
  OBVIOUS
<1>3. /\ q = [f \in DOMAIN q |-> q[f]] /\ {"is", "key", "form", "answered", "ok", "data"} \subseteq DOMAIN q
      /\ q.is = r.is /\ q.form = r.form /\ q.answered /\ q.ok = ok
      /\ r.is = "add" => q.key = DetailKey(i)
      /\ r.is # "add" => q.key = r.key
      /\ r.is = "query" => q.data = Paged(r.key)
      /\ r.is \in {"add", "edit"} /\ ok => q.data = [j \in {i} |-> row(i)]
  <2> DEFINE data == CASE r.is = "query" -> Paged(r.key)
                       [] r.is \in {"add", "edit"} /\ ok -> [j \in {i} |-> row(i)]
                       [] OTHER -> Nothing
  <2>1. /\ r.is = "query" => data = Paged(r.key)
        /\ r.is \in {"add", "edit"} /\ ok => data = [j \in {i} |-> row(i)]
    <3> HIDE DEF row
    <3> QED OBVIOUS
  <2>2. q = [r EXCEPT !.answered = TRUE, !.ok = ok, !.key = IF r.is = "add" THEN DetailKey(i) ELSE r.key, !.data = data]
    BY <1>a
  <2> HIDE DEF data, row
  <2> QED BY <1>2, <2>1, <2>2 DEF RequestIs
<1>4. net' = (net \ {r}) \cup {q}
  BY <1>1, <1>a
<1>5. r.is \in {"add", "edit"} /\ ok => rows' = after(i) /\ i \in Ids
  BY <1>1, <1>2 DEF RowsInv
<1>6. r.is \in {"delete", "delete one"} => rows' = [j \in DOMAIN rows \ {i} |-> rows[j]]
  BY <1>1
<1>7. r.is = "query" \/ (r.is \in {"add", "edit"} /\ ~ok) => rows' = rows
  BY <1>1
<1>8. used'.ids = used.ids \cup DOMAIN rows' /\ "ids" \in DOMAIN used'
  BY <1>1, <1>2 DEF RowsInv
<1>9. r.is \in {"query", "edit", "add", "delete", "delete one"}
  BY <1>2 DEF RequestIs
<1>10. ASSUME r.is \in {"add", "edit"}, ok
       PROVE  /\ row(i).v \in Nat /\ IsRow(row(i))
              /\ i \in DOMAIN rows => rows[i].v <= row(i).v
  <2>1. r.form.name \in BOOLEAN /\ r.form.extra \in BOOLEAN /\ Whole(r.form)
    BY <1>2, <1>10 DEF RequestIs, Forms
  <2>2. i \in DOMAIN rows => rows[i].v \in Nat
    BY <1>2 DEF RowsInv, IsRow, RowType
  <2>3. row(i).v \in Nat /\ (i \in DOMAIN rows => rows[i].v <= row(i).v)
    BY <2>2
  <2>4. row(i) \in RowType
    BY <2>1, <2>3 DEF RowType
  <2>5. Whole(row(i))
    BY <2>1 DEF Whole
  <2> QED BY <2>3, <2>4, <2>5 DEF IsRow
<1> HIDE DEF answer
<1>11. Moves
  <2>1. \A j \in DOMAIN rows : rows[j].v \in Nat /\ IsRow(rows[j])
    BY <1>2 DEF RowsInv, IsRow, RowType
  <2>2. CASE r.is \in {"add", "edit"} /\ ok
    <3>1. DOMAIN rows' = DOMAIN rows \cup {i} /\ rows'[i] = row(i)
          /\ \A j \in DOMAIN rows : j # i => rows'[j] = rows[j]
      <4> HIDE DEF row
      <4> QED BY <1>5, <2>2
    <3>2. r.is = "add" => i \notin used.ids
      BY <1>1
    <3>3. r.is = "edit" => i \in DOMAIN rows
      BY <1>1, <2>2
    <3>4. used'.ids \subseteq used.ids \cup {i} /\ i \in Ids
      BY <1>2, <1>5, <1>8, <2>2, <3>1 DEF RowsInv
    <3>5. IsFiniteSet(used'.ids)
      BY <1>2, <3>4, GivenFinite
    <3>6. \A j \in used.ids \cap DOMAIN rows' : j \in DOMAIN rows /\ rows[j].v <= rows'[j].v
      <4> HIDE DEF row
      <4> QED BY <1>10, <2>1, <2>2, <3>1, <3>2, <3>3
    <3>7. \A j \in DOMAIN rows' : IsRow(rows'[j])
      <4> HIDE DEF row
      <4> QED BY <1>10, <2>1, <2>2, <3>1
    <3> QED BY <1>2, <1>8, <3>4, <3>5, <3>6, <3>7 DEF Moves, RowsInv
  <2>3. CASE ~(r.is \in {"add", "edit"} /\ ok)
    <3>1. DOMAIN rows' \subseteq DOMAIN rows /\ \A j \in DOMAIN rows' : rows'[j] = rows[j]
      BY <1>6, <1>7, <1>9, <2>3
    <3>2. used'.ids = used.ids
      BY <1>2, <1>8, <3>1 DEF RowsInv
    <3> QED BY <1>2, <1>8, <2>1, <3>1, <3>2 DEF Moves, RowsInv
  <2> QED BY <2>2, <2>3
<1>12. RequestIs(q)'
  <2>1. CASE r.is = "query"
    <3>1. r.key.id \in {NoId} \cup used.ids
      BY <1>2, <2>1 DEF RequestIs
    <3>2. DataOf(r.key, q.data)'
      BY <1>2, <1>3, <1>11, <2>1, <3>1, PagedIs, MovesData
    <3>3. ok \/ r.key.id \in used'.ids \ DOMAIN rows'
      BY <1>1, <1>7, <1>8, <2>1, <3>1
    <3> QED BY <1>2, <1>3, <1>8, <2>1, <3>1, <3>2, <3>3 DEF RequestIs
  <2>2. CASE r.is \in {"add", "edit"} /\ ok
    <3>1. q.key.id = i
      BY <1>1, <1>3, <2>2 DEF DetailKey, FirstView
    <3>2. i \in DOMAIN rows' /\ rows'[i] = row(i) /\ q.data[i] = row(i)
      <4> HIDE DEF row
      <4> QED BY <1>3, <1>5, <2>2
    <3>3. row(i).v \in Nat /\ row(i).v <= row(i).v
      BY <1>10, <2>2
    <3>4. Whole(r.form)'
      BY <1>2, <2>2 DEF RequestIs, Whole
    <3> HIDE DEF row
    <3> QED BY <1>2, <1>3, <1>8, <2>2, <3>1, <3>2, <3>3, <3>4 DEF RequestIs
  <2>3. CASE r.is \in {"add", "edit"} /\ ~ok
    <3>1. Whole(r.form)'
      BY <1>2, <2>3 DEF RequestIs, Whole
    <3> QED BY <1>2, <1>3, <2>3, <3>1 DEF RequestIs
  <2>4. CASE r.is \in {"delete", "delete one"}
    <3>1. ok => r.key.id \in used.ids /\ r.key.id \notin DOMAIN rows'
      BY <1>1, <1>2, <1>6, <2>4 DEF RowsInv
    <3> QED BY <1>2, <1>3, <1>8, <2>4, <3>1 DEF RequestIs
  <2> QED BY <1>9, <2>1, <2>2, <2>3, <2>4
<1>13. q.is = "query" => CurrentOrHit(World', stale, q.key, q.data)
  <2> SUFFICES ASSUME r.is = "query" PROVE CurrentOrHit(World', stale, r.key, q.data)
    BY <1>3
  <2>1. UNCHANGED <<rows, seen>> /\ r.key.id \in {NoId} \cup used.ids
    BY <1>2, <1>7 DEF RequestIs
  <2>2. \A j \in DOMAIN q.data : j \in DOMAIN rows /\ q.data[j] = rows[j]
    BY <1>2, <1>3, <2>1, PagedIs
  <2>3. \A j \in DOMAIN rows : rows[j].v \in Nat /\ seen.saved[j] \in Nat /\ seen.saved[j] <= rows[j].v /\ j \notin seen.deleted
    BY <1>2 DEF RowsInv, IsRow, RowType
  <2> QED BY <2>1, <2>2, <2>3 DEF CurrentOrHit, Current, World
<1>14. \A k : QueriedAgain(net, k) => QueriedAgain(net', k)
  BY <1>3, <1>4 DEF QueriedAgain
<1> QED BY <1>2, <1>4, <1>11, <1>12, <1>13, <1>14, MovesStep

\* what nobody subscribes to is forgotten after a while
LEMMA ExpireStep == ASSUME TablesInv, Expire PROVE TablesInv'
<1>1. PICK c : c = cache' /\ DOMAIN c \subseteq DOMAIN cache /\ \A k \in DOMAIN c : c[k] = cache[k]
  BY DEF Expire
<1>2. UNCHANGED <<kind, rows, at, view, selectedIds, net, stale, editor, seen, used>>
  BY DEF Expire
<1>3. RowsInv'
  BY <1>2 DEF TablesInv, RowsInv, IsRow, Whole
<1>4. \A k \in DOMAIN c : DataOf(k, c[k])
  BY <1>1 DEF TablesInv, KeysInv
<1>5. KeysInv'
  BY ZenonT(40), <1>1, <1>2, <1>4 DEF TablesInv, KeysInv, RequestIs, DataOf, IsRow, Whole
<1>6. PICK w : w = World /\ w = World'
  BY <1>2 DEF World
<1>7. CacheOf(w, net, stale, c) /\ StaleWaits
  BY <1>1, <1>6 DEF TablesInv, CacheInv, CacheOf
<1>8. CacheInv'
  BY <1>1, <1>2, <1>6, <1>7, CacheStays DEF StaleWaits
<1>9. EditorIs(editor, at, selectedIds)'
  BY <1>2 DEF TablesInv, EditorIs, Whole
<1> QED BY <1>3, <1>5, <1>8, <1>9 DEF TablesInv

LEMMA ElsewhereStep == ASSUME TablesInv, Elsewhere PROVE TablesInv'
<1>1. RowsInv /\ \A j \in DOMAIN rows : rows[j].v \in Nat /\ IsRow(rows[j])
  BY DEF TablesInv, RowsInv, IsRow, RowType
<1>2. UNCHANGED <<kind, at, view, selectedIds, cache, net, stale, editor, seen>>
  BY DEF Elsewhere
<1>3. "ids" \in DOMAIN used' /\ used'.ids = used.ids
  BY <1>1 DEF Elsewhere, Changed, RowsInv
<1>4. /\ DOMAIN rows' \subseteq DOMAIN rows
      /\ \A j \in DOMAIN rows' : rows[j].v <= rows'[j].v /\ IsRow(rows'[j])
  <2>1. PICK i \in DOMAIN rows : \/ rows' = [rows EXCEPT ![i].v = @ + 1]
                                \/ rows' = [j \in DOMAIN rows \ {i} |-> rows[j]]
    BY DEF Elsewhere
  <2>2. CASE rows' = [j \in DOMAIN rows \ {i} |-> rows[j]]
    BY <1>1, <2>2
  <2>3. CASE rows' = [rows EXCEPT ![i].v = @ + 1]
    <3>1. /\ rows'[i] = [rows[i] EXCEPT !.v = @ + 1] /\ DOMAIN rows' = DOMAIN rows
          /\ \A j \in DOMAIN rows : j # i => rows'[j] = rows[j]
      BY <2>3
    <3>2. rows[i] \in RowType /\ Whole(rows[i])
      BY <1>1 DEF IsRow
    <3>3. rows'[i] \in RowType /\ Whole(rows'[i]) /\ rows[i].v <= rows'[i].v
      BY <3>1, <3>2 DEF RowType, Whole
    <3>4. \A j \in DOMAIN rows : rows[j].v <= rows[j].v /\ IsRow(rows[j])
      BY <1>1
    <3>5. IsRow(rows'[i]) /\ rows[i].v <= rows'[i].v
      BY <3>3 DEF IsRow
    <3> QED BY <3>1, <3>4, <3>5, Zenon
  <2> QED BY <2>1, <2>2, <2>3
<1>5. Moves
  BY <1>1, <1>2, <1>3, <1>4 DEF Moves, RowsInv
<1> QED BY <1>2, <1>5, MovesStep DEF TablesInv, CacheInv, StaleWaits, QueriedAgain

LEMMA TablesNext == TablesInv /\ [ListNext]_listVars => TablesInv'
<1> SUFFICES ASSUME TablesInv, [ListNext]_listVars PROVE TablesInv'
  OBVIOUS
<1>1. CASE UNCHANGED listVars
  <2>1. PICK w : w = World /\ w = World'
    BY <1>1 DEF listVars, World
  <2>2. CacheInv'
    BY <1>1, <2>1, CacheStays DEF listVars, TablesInv, CacheInv, StaleWaits
  <2>3. RowsInv'
    BY <1>1 DEF listVars, TablesInv, RowsInv, IsRow, Whole
  <2>4. KeysInv'
    BY ZenonT(40), <1>1 DEF listVars, TablesInv, KeysInv, RequestIs, DataOf, IsRow, Whole
  <2>5. EditorIs(editor, at, selectedIds)'
    BY <1>1 DEF listVars, TablesInv, EditorIs, Whole
  <2> QED BY <2>2, <2>3, <2>4, <2>5 DEF TablesInv
<1>2. CASE \/ ChangePage \/ ChangeSize \/ SortBy \/ Filter \/ TickRow \/ TickAll
           \/ OpenDetails \/ BackToList \/ (\E d \in {"edit", "new", "delete"} : OpenDialog(d)) \/ CloseDialog
  BY <1>2, TableUses, UsesStep
<1>3. CASE SubmitEdit \/ SubmitNew \/ SubmitDelete
  BY <1>3, SubmitUses, UsesStep
<1>4. ASSUME NEW r \in net, Answer(r) \/ QueryArrives(r) \/ MutationArrives(r) PROVE TablesInv'
  BY <1>4, AnswerStep, QueryStep, SavedStep
<1>5. CASE Expire \/ Elsewhere
  BY <1>5, ExpireStep, ElsewhereStep
<1> QED BY <1>1, <1>2, <1>3, <1>4, <1>5 DEF ListNext

LEMMA TablesAlways == ListSpec => []TablesInv
<1> QED BY FirstInit, TablesNext, PTL DEF ListSpec

-----------------------------------------------------------------------------
(* Theorems about the tables *)

\* Once nothing is in flight, no table the client keeps has a row it deleted, and
\* nothing it keeps of a row that exists is older than what it saved, for every
\* set of rows and every order of the answers (the tags of the six apiSlice files).
THEOREM TablesAreCurrent == ListSpec => []SettledIsCurrent
<1>1. TablesInv => SettledIsCurrent
  <2> SUFFICES ASSUME TablesInv, net = {}, NEW k \in DOMAIN cache, NEW i \in DOMAIN cache[k]
               PROVE  Current(World, k, cache[k], i)
    BY DEF SettledIsCurrent, Current, World
  <2>1. stale = {}
    BY DEF TablesInv, CacheInv, StaleWaits
  <2>2. CurrentOrHit(World, stale, k, cache[k])
    BY DEF TablesInv, CacheInv, CacheOf, QueriedAgain
  <2> QED BY <2>1, <2>2 DEF CurrentOrHit
<1> QED BY <1>1, TablesAlways, PTL

\* Groups and document types keep their fields, whatever answers arrive while a
\* form is open: the form is filled whenever its row is loaded (the effect of
\* their edit dialogs that resets the form).
THEOREM EditsLoseNothing == ListSpec => []EditsKeepFields
<1>1. TablesInv => EditsKeepFields
  BY DEF TablesInv, RowsInv, IsRow, Whole, EditsKeepFields
<1> QED BY <1>1, TablesAlways, PTL

\* The row in an edit dialog is the one that is ticked, or shown (ActionButtons
\* of the six tables and details).
THEOREM DialogsEditTheTicked == ListSpec => []EditsTheTicked
<1>1. TablesInv => EditsTheTicked
  <2> SUFFICES ASSUME TablesInv, editor.of # NoId
               PROVE  editor.of = editor.id /\ editor.of \in (IF at = List THEN selectedIds ELSE {at})
    BY DEF EditsTheTicked
  <2> QED BY DEF TablesInv, EditorIs
<1> QED BY <1>1, TablesAlways, PTL

-----------------------------------------------------------------------------
(* The types of the tables *)

ViewType == [page : Nat \ {0}, size : PageSizes, by : {"name"} \cup Slice.sorts,
             reverse : BOOLEAN, filter : BOOLEAN, id : {NoId}]
DialogNames == {"none", "edit", "new", "delete"}

\* a table asks for pages of a size that can be chosen, which the answers set again
SizesOf(n) == \A r \in n : r.is = "query" => r.key.size \in PageSizes

ViewsInv ==
    /\ kind \in Kinds /\ dialog \in DialogNames /\ view \in ViewType
    /\ lastPageSize \in PageSizes /\ SizesOf(net)

LEMMA FirstViews == ListInit => ViewsInv
<1> SUFFICES ASSUME ListInit PROVE ViewsInv
  OBVIOUS
<1>1. FirstView(DefaultSize) \in ViewType /\ FirstView(DefaultSize).size \in PageSizes
  BY ListAssumption DEF FirstView, ViewType
<1>2. \A r \in net : r.key = FirstView(DefaultSize)
  BY DEF ListInit, Request
<1> QED BY <1>1, <1>2, ListAssumption DEF ListInit, ViewsInv, SizesOf, DialogNames

\* what a step of the client shows and asks for is of these types
LEMMA ClientViews ==
    ASSUME NEW v \in ViewType, NEW p, NEW s, NEW n, SizesOf(n), NEW st, NEW c, NEW e, NEW d \in DialogNames,
           Client(v, p, s, n, st, c, e, d)
    PROVE  view' \in ViewType /\ dialog' \in DialogNames /\ SizesOf(net')
<1>1. view' = v /\ dialog' \in {"none", d}
  BY DEF Client
<1>2. \A r \in net' : r \in n \/ \E k \in Subscribed(v, p, s) : r = Request("query", k, Blank)
  BY DEF Client
<1>3. \A k \in Subscribed(v, p, s) : k.size \in PageSizes
  <2>1. v.size \in PageSizes
    BY DEF ViewType
  <2>2. \A i : DetailKey(i).size = DefaultSize
    BY DEF DetailKey, FirstView
  <2> QED BY <2>1, <2>2, ListAssumption DEF Subscribed
<1>4. \A k : Request("query", k, Blank).key = k
  BY DEF Request
<1> QED BY <1>1, <1>2, <1>3, <1>4 DEF SizesOf, DialogNames

LEMMA ViewsStay ==
    ASSUME kind' = kind, kind \in Kinds, dialog' \in DialogNames, view' \in ViewType,
           lastPageSize' \in PageSizes, SizesOf(net')
    PROVE  ViewsInv'
<1>1. Slice' = Slice
  BY DEF Slice
<1> QED BY <1>1 DEF ViewsInv, ViewType, SizesOf

\* a step of the user that keeps the page size, or picks one
LEMMA ClientStep ==
    ASSUME ViewsInv, kind' = kind, lastPageSize' \in PageSizes,
           NEW v \in ViewType, NEW p, NEW s, NEW n, SizesOf(n), NEW st, NEW c, NEW e, NEW d \in DialogNames,
           Client(v, p, s, n, st, c, e, d)
    PROVE  ViewsInv'
BY ClientViews, ViewsStay DEF ViewsInv

LEMMA RemountedIs == ViewsInv => Remounted \in ViewType
<1> SUFFICES ASSUME ViewsInv PROVE Remounted \in ViewType
  OBVIOUS
<1>1. PICK page \in Nat \ {0}, size \in PageSizes : Remounted = [view EXCEPT !.page = page, !.size = size]
  <2>1. PICK size \in PageSizes : size = IF Table.remembersSize THEN lastPageSize ELSE DefaultSize
    BY ListAssumption DEF ViewsInv
  <2>2. Remounted = [view EXCEPT !.page = 1, !.size = size]
    BY <2>1 DEF Remounted
  <2>3. 1 \in Nat \ {0}
    OBVIOUS
  <2> QED BY <2>1, <2>2, <2>3, Zenon
<1>2. view \in ViewType
  BY DEF ViewsInv
<1>3. [view EXCEPT !.page = page, !.size = size] \in ViewType
  BY <1>2 DEF ViewType
<1> QED BY <1>1, <1>3

LEMMA TableViews ==
    ASSUME ViewsInv,
           \/ ChangePage \/ ChangeSize \/ SortBy \/ Filter \/ TickRow \/ TickAll
           \/ OpenDetails \/ BackToList
    PROVE  ViewsInv'
<1>0. /\ lastPageSize \in PageSizes /\ view \in ViewType /\ SizesOf(net) /\ dialog \in DialogNames
      /\ "none" \in DialogNames
  BY DEF ViewsInv, DialogNames
<1>1. ASSUME NEW v \in ViewType, NEW p, Show(v, p), kind' = kind, lastPageSize' \in PageSizes PROVE ViewsInv'
  BY <1>0, <1>1, ClientStep DEF Show
<1>2. ASSUME NEW s, Tick(s), Looking PROVE ViewsInv'
  BY <1>0, <1>2, ClientStep DEF Tick, Looking
<1>3. CASE ChangePage
  <2>1. PICK page \in {view.page - 1, view.page + 1} \ {0} : Show([view EXCEPT !.page = page], List)
    BY <1>3 DEF ChangePage
  <2>2. [view EXCEPT !.page = page] \in ViewType
    BY <1>0 DEF ViewType
  <2> QED BY <1>0, <1>1, <1>3, <2>1, <2>2 DEF ChangePage, Looking
<1>4. CASE ChangeSize
  <2>1. PICK size \in PageSizes : Show([view EXCEPT !.size = size], List) /\ lastPageSize' = size
    BY <1>4 DEF ChangeSize
  <2>2. [view EXCEPT !.size = size] \in ViewType
    BY <1>0 DEF ViewType
  <2> QED BY <1>0, <1>1, <1>4, <2>1, <2>2 DEF ChangeSize
<1>5. CASE SortBy
  <2>1. PICK col \in Slice.sorts, reverse \in BOOLEAN : Show([view EXCEPT !.by = col, !.reverse = reverse], List)
    BY <1>5 DEF SortBy
  <2>2. [view EXCEPT !.by = col, !.reverse = reverse] \in ViewType
    BY <1>0 DEF ViewType
  <2> QED BY <1>0, <1>1, <1>5, <2>1, <2>2 DEF SortBy, Looking
<1>6. CASE Filter
  <2>1. PICK filter \in BOOLEAN, page \in Nat \ {0} : Show([view EXCEPT !.filter = filter, !.page = page], List)
    <3>1. Show([view EXCEPT !.filter = ~view.filter, !.page = 1], List)
      BY <1>6, Zenon DEF Filter
    <3>2. (~view.filter) \in BOOLEAN /\ 1 \in Nat \ {0}
      OBVIOUS
    <3> QED BY <3>1, <3>2, Zenon
  <2>2. [view EXCEPT !.filter = filter, !.page = page] \in ViewType
    BY <1>0 DEF ViewType
  <2> QED BY <1>0, <1>1, <1>6, <2>1, <2>2 DEF Filter, Looking
<1>7. CASE TickRow
  BY <1>2, <1>7 DEF TickRow
<1>8. CASE TickAll
  BY <1>2, <1>8 DEF TickAll
<1>9. CASE OpenDetails
  BY <1>0, <1>1, <1>9 DEF OpenDetails
<1>10. CASE BackToList
  BY <1>0, <1>1, <1>10, RemountedIs DEF BackToList, Looking
<1> QED BY <1>3, <1>4, <1>5, <1>6, <1>7, <1>8, <1>9, <1>10

LEMMA DialogViews ==
    ASSUME ViewsInv,
           (\E d \in {"edit", "new", "delete"} : OpenDialog(d)) \/ CloseDialog \/ SubmitEdit \/ SubmitNew \/ SubmitDelete
    PROVE  ViewsInv'
<1>0. /\ lastPageSize \in PageSizes /\ view \in ViewType /\ SizesOf(net) /\ dialog \in DialogNames
      /\ \A d \in {"none", "edit", "new", "delete"} : d \in DialogNames
  BY DEF ViewsInv, DialogNames
<1>1. ASSUME NEW d \in DialogNames, NEW e, NEW n, Dialog(d, e, n), SizesOf(n), Looking PROVE ViewsInv'
  BY <1>0, <1>1, ClientStep DEF Dialog, Looking
<1>2. \A is, key, form : Request(is, key, form).is = is
  BY DEF Request
<1>3. ASSUME NEW d \in {"edit", "new", "delete"}, OpenDialog(d) PROVE ViewsInv'
  BY <1>0, <1>1, <1>3 DEF OpenDialog
<1>4. CASE CloseDialog
  <2>1. CASE dialog = "delete" /\ at = List
    BY <1>0, <1>4, <2>1, ClientStep DEF CloseDialog, Looking
  <2>2. CASE ~(dialog = "delete" /\ at = List)
    BY <1>0, <1>1, <1>4, <2>2 DEF CloseDialog
  <2> QED BY <2>1, <2>2
<1>5. CASE SubmitEdit
  <2>1. PICK key, form : Dialog(dialog, editor, net \cup {Request("edit", key, form)}) /\ Looking
    BY <1>5, Zenon DEF SubmitEdit
  <2>2. SizesOf(net \cup {Request("edit", key, form)})
    BY <1>0, <1>2 DEF SizesOf
  <2> QED BY <1>0, <1>1, <2>1, <2>2
<1>6. CASE SubmitNew
  <2>1. PICK key, form : Dialog(dialog, editor, net \cup {Request("add", key, form)}) /\ Looking
    BY <1>6, Zenon DEF SubmitNew
  <2>2. SizesOf(net \cup {Request("add", key, form)})
    BY <1>0, <1>2 DEF SizesOf
  <2> QED BY <1>0, <1>1, <2>1, <2>2
<1>7. CASE SubmitDelete
  <2>1. PICK n : /\ Dialog(dialog, editor, n) /\ Looking
                 /\ n = net \cup (IF at = List THEN {Request("delete", DetailKey(i), Blank) : i \in selectedIds}
                                  ELSE {Request("delete one", DetailKey(at), Blank)})
    BY <1>7, Zenon DEF SubmitDelete
  <2>2. \A r \in n : r \in net \/ r.is \in {"delete", "delete one"}
    <3> SUFFICES ASSUME NEW r \in n, r \notin net PROVE r.is \in {"delete", "delete one"}
      OBVIOUS
    <3>1. PICK key : r = Request("delete", key, Blank) \/ r = Request("delete one", key, Blank)
      BY <2>1, Zenon
    <3> QED BY <1>2, <3>1, Zenon
  <2>3. SizesOf(n)
    BY <1>0, <2>2, ZenonT(40) DEF SizesOf
  <2> QED BY <1>0, <1>1, <2>1, <2>3
<1> QED BY <1>3, <1>4, <1>5, <1>6, <1>7

LEMMA ArrivesViews ==
    ASSUME TablesInv, ViewsInv, NEW r \in net, Answer(r) \/ QueryArrives(r) \/ MutationArrives(r)
    PROVE  ViewsInv'
<1>0. /\ lastPageSize \in PageSizes /\ view \in ViewType /\ SizesOf(net) /\ dialog \in DialogNames
      /\ "none" \in DialogNames /\ SizesOf(net \ {r})
  BY DEF ViewsInv, DialogNames, SizesOf
<1>1. CASE Answer(r)
  <2>1. PICK ok, key, data :
           /\ net' = (net \ {r}) \cup {[r EXCEPT !.answered = TRUE, !.ok = ok, !.key = key, !.data = data]}
           /\ r.is # "add" => key = r.key
    <3>1. PICK i, ok :
             LET exists == i \in DOMAIN rows
                 row == [v |-> IF exists THEN rows[i].v + 1 ELSE 1, name |-> r.form.name, extra |-> r.form.extra]
             IN  net' = (net \ {r}) \cup {[r EXCEPT !.answered = TRUE, !.ok = ok,
                                !.key = IF r.is = "add" THEN DetailKey(i) ELSE r.key,
                                !.data = CASE r.is = "query" -> Paged(r.key)
                                           [] r.is \in {"add", "edit"} /\ ok -> [j \in {i} |-> row]
                                           [] OTHER -> Nothing]}
      BY <1>1, Zenon DEF Answer
    <3>2. \E data : net' = (net \ {r}) \cup {[r EXCEPT !.answered = TRUE, !.ok = ok,
                             !.key = IF r.is = "add" THEN DetailKey(i) ELSE r.key, !.data = data]}
      BY <3>1, Zenon
    <3> QED BY <3>2
  <2> DEFINE q == [r EXCEPT !.answered = TRUE, !.ok = ok, !.key = key, !.data = data]
  <2>2. q.is = r.is /\ q.key = key
    BY DEF TablesInv, KeysInv, RequestIs
  <2>3. SizesOf(net')
    <3> HIDE DEF q
    <3> QED BY <1>0, <2>1, <2>2 DEF SizesOf, q
  <2>4. UNCHANGED <<kind, view, lastPageSize, dialog>>
    BY <1>1 DEF Answer
  <2> QED BY <1>0, <2>3, <2>4, ViewsStay DEF ViewsInv
<1>2. CASE QueryArrives(r)
  <2>1. PICK c : Client(view, at, selectedIds, net \ {r}, stale, c, editor, dialog)
    BY <1>2, Zenon DEF QueryArrives
  <2>2. kind' = kind /\ lastPageSize' \in PageSizes
    BY <1>0, <1>2 DEF QueryArrives, SizesOf
  <2> QED BY <1>0, <2>1, <2>2, ClientStep
<1>3. CASE MutationArrives(r)
  <2>1. PICK v, p, s, st, e, d : /\ Client(v, p, s, net \ {r}, st, cache, e, d)
                                 /\ v \in {view, Remounted} /\ d \in {"none", dialog}
    <3> DEFINE n == net \ {r}
               last == r.is = "delete" /\ \A q \in n : q.is # "delete"
               closes == CASE r.is = "edit" -> r.ok \/ Edit.closes
                           [] r.is = "add" -> r.ok \/ New.closes
                           [] r.is = "delete one" -> r.ok \/ ~Delete.oneUnwraps
                           [] OTHER -> last /\ (r.ok \/ ~Delete.manyUnwrap)
               open == CASE r.is = "edit" -> "edit" [] r.is = "add" -> "new" [] OTHER -> "delete"
               shut == closes /\ dialog = open
               leaves == r.is = "delete one" /\ closes /\ at # List
    <3>1. Client(IF leaves THEN Remounted ELSE view, IF leaves THEN List ELSE at,
                 IF last THEN {} ELSE selectedIds,
                 n, stale \cup Invalidated(r), cache,
                 IF shut /\ open = "edit" THEN Reset(editor, "open") ELSE editor,
                 IF shut \/ leaves THEN "none" ELSE dialog)
      BY <1>3, Zenon DEF MutationArrives
    <3>2. /\ (IF leaves THEN Remounted ELSE view) \in {view, Remounted}
          /\ (IF shut \/ leaves THEN "none" ELSE dialog) \in {"none", dialog}
      OBVIOUS
    <3> QED BY <3>1, <3>2, Zenon
  <2>2. kind' = kind /\ lastPageSize' \in PageSizes
    BY <1>0, <1>3 DEF MutationArrives
  <2> QED BY <1>0, <2>1, <2>2, RemountedIs, ClientStep
<1> QED BY <1>1, <1>2, <1>3

LEMMA ViewsNext == TablesInv /\ ViewsInv /\ [ListNext]_listVars => ViewsInv'
<1> SUFFICES ASSUME TablesInv, ViewsInv, [ListNext]_listVars PROVE ViewsInv'
  OBVIOUS
<1>1. CASE UNCHANGED <<kind, dialog, view, lastPageSize, net>>
  BY <1>1, ViewsStay DEF ViewsInv
<1>2. CASE \/ ChangePage \/ ChangeSize \/ SortBy \/ Filter \/ TickRow \/ TickAll \/ OpenDetails \/ BackToList
  BY <1>2, TableViews
<1>3. CASE (\E d \in {"edit", "new", "delete"} : OpenDialog(d)) \/ CloseDialog \/ SubmitEdit \/ SubmitNew \/ SubmitDelete
  BY <1>3, DialogViews
<1>4. ASSUME NEW r \in net, Answer(r) \/ QueryArrives(r) \/ MutationArrives(r) PROVE ViewsInv'
  BY <1>4, ArrivesViews
<1>5. CASE Expire
  BY <1>1, <1>5 DEF Expire
<1>6. CASE Elsewhere
  BY <1>1, <1>6 DEF Elsewhere
<1>7. CASE UNCHANGED listVars
  BY <1>1, <1>7 DEF listVars
<1> QED BY <1>2, <1>3, <1>4, <1>5, <1>6, <1>7 DEF ListNext

\* The administration tables keep well-typed state: rows that were given out,
\* pages of a size that can be chosen, columns the slice sorts by (the slices,
\* tables and dialogs of the six kinds).
THEOREM ListTypes == ListSpec => []ListTypeOK
<1>1. TablesInv /\ ViewsInv => ListTypeOK
  <2> SUFFICES ASSUME TablesInv, ViewsInv PROVE ListTypeOK
    OBVIOUS
  <2>1. /\ used.ids \subseteq Ids /\ DOMAIN rows \subseteq Ids /\ selectedIds \subseteq Ids /\ at \in {List} \cup Ids
        /\ \A k \in DOMAIN cache : DOMAIN cache[k] \subseteq Ids
    BY DEF TablesInv, RowsInv, KeysInv, DataOf
  <2>2. editor.id \in {NoId} \cup Ids /\ editor.of \in {NoId} \cup Ids
    BY <2>1 DEF TablesInv, EditorIs
  <2> QED BY <2>1, <2>2 DEF ViewsInv, ViewType, DialogNames, ListTypeOK
<1> QED BY <1>1, FirstViews, ViewsNext, FirstInit, TablesNext, PTL DEF ListSpec

-----------------------------------------------------------------------------
(* The types of the commander *)

\* a tree of finitely many nodes in the home or in folders that are there
TreeOf(t) ==
    /\ IsFiniteSet(DOMAIN t) /\ DOMAIN t \subseteq NodeIds
    /\ \A n \in DOMAIN t : "parent" \in DOMAIN t[n] /\ t[n].parent \in {Root} \cup (FolderIds \cap DOMAIN t)

\* the row of a folder that is added has its parent
AddsTo(n) == \A r \in n : r.is = "add" => "parent" \in DOMAIN r.row /\ r.row.parent = r.to
TreeInv == TreeOf(tree) /\ AddsTo(calls)

LEMMA WithTree ==
    ASSUME TreeOf(tree), NEW n \in NodeIds, NEW row, "parent" \in DOMAIN row, IsFolder(row.parent)
    PROVE  TreeOf(With(n, row))
<1>1. /\ DOMAIN With(n, row) = DOMAIN tree \cup {n}
      /\ With(n, row)[n] = row /\ \A m \in DOMAIN tree : m # n => With(n, row)[m] = tree[m]
  BY DEF With
<1>2. IsFiniteSet(DOMAIN tree \cup {n})
  BY FS_AddElement DEF TreeOf
<1>3. row.parent \in {Root} \cup (FolderIds \cap DOMAIN tree)
  BY DEF IsFolder
<1> QED BY <1>1, <1>2, <1>3 DEF TreeOf

LEMMA WithoutTree ==
    ASSUME TreeOf(tree), NEW S
    PROVE  TreeOf(Without(S))
<1>1. DOMAIN Without(S) = DOMAIN tree \ Below(S) /\ \A m \in DOMAIN Without(S) : Without(S)[m] = tree[m]
  BY DEF Without
<1>2. IsFiniteSet(DOMAIN tree \ Below(S))
  BY FS_Subset DEF TreeOf
<1>3. \A m \in DOMAIN tree \ Below(S) : tree[m].parent \notin Below(S)
  BY BelowHas
<1> QED BY <1>1, <1>2, <1>3 DEF TreeOf

LEMMA MovedTree ==
    ASSUME TreeOf(tree), NEW s, NEW to, IsFolder(to)
    PROVE  TreeOf([n \in DOMAIN tree |-> IF n \in s THEN [tree[n] EXCEPT !.parent = to] ELSE tree[n]])
<1> DEFINE t == [n \in DOMAIN tree |-> IF n \in s THEN [tree[n] EXCEPT !.parent = to] ELSE tree[n]]
<1>1. DOMAIN t = DOMAIN tree /\ \A n \in DOMAIN tree : t[n] = [tree[n] EXCEPT !.parent = to] \/ t[n] = tree[n]
  OBVIOUS
<1>2. \A n \in DOMAIN tree : "parent" \in DOMAIN t[n] /\ t[n].parent \in {to, tree[n].parent}
  BY <1>1 DEF TreeOf
<1> HIDE DEF t
<1>3. to \in {Root} \cup (FolderIds \cap DOMAIN tree)
  BY DEF IsFolder
<1>4. TreeOf(t)
  BY <1>1, <1>2, <1>3 DEF TreeOf
<1> QED BY <1>4 DEF t

\* whatever the server makes of a mutation, no node is left without its folder
LEMMA EffectTreeOf ==
    ASSUME ServerInv, TreeInv, NEW r \in calls, r.is # "query", NEW e \in Effects(r)
    PROVE  TreeOf(e.tree)
<1>0. TreeOf(tree) /\ DOMAIN tree \subseteq NodeIds /\ FolderIds \subseteq NodeIds
  BY CommanderAssumption DEF ServerInv, TreeInv
<1>1. CASE e.tree = tree
  BY <1>0, <1>1
<1>5. r.is \in {"query", "add", "rename", "tags", "delete", "move"}
  BY DEF ServerInv, IsCall
<1>6. CASE r.is = "delete"
  <2>1. e.tree = Without(r.ids)
    BY <1>6 DEF Effects
  <2> QED BY <1>0, <2>1, WithoutTree
<1>7. CASE r.is = "add"
  <2>1. e.tree = tree \/ \E n \in FolderIds : e.tree = With(n, r.row) /\ IsFolder(r.to)
    BY <1>7 DEF Effects
  <2>2. "parent" \in DOMAIN r.row /\ r.row.parent = r.to
    BY <1>7 DEF TreeInv, AddsTo
  <2> QED BY <1>0, <1>1, <2>1, <2>2, WithTree
<1>8. ASSUME NEW f \in {"title", "tagged"}, NEW x, NEW n \in DOMAIN tree, e.tree = With(n, [tree[n] EXCEPT ![f] = x])
      PROVE  TreeOf(e.tree)
  <2> DEFINE row == [tree[n] EXCEPT ![f] = x]
  <2>1. "parent" \in DOMAIN row /\ row.parent = tree[n].parent
    BY <1>0 DEF TreeOf
  <2>2. IsFolder(row.parent)
    BY <1>0, <2>1 DEF TreeOf, IsFolder
  <2> HIDE DEF row
  <2>3. TreeOf(With(n, row))
    BY <1>0, <2>1, <2>2, WithTree
  <2> QED BY <1>8, <2>3 DEF row
<1>9. CASE r.is = "rename"
  <2> DEFINE row(n) == [tree[n] EXCEPT !["title"] = r.row.title]
  <2>2. e = [ok |-> FALSE, tree |-> tree] \/ \E n \in DOMAIN tree : e = [ok |-> TRUE, tree |-> With(n, row(n))]
    BY <1>9 DEF Effects
  <2> HIDE DEF row
  <2>1. e.tree = tree \/ \E n \in DOMAIN tree : e.tree = With(n, row(n))
    BY <2>2
  <2> QED BY <1>1, <1>8, <2>1 DEF row
<1>10. CASE r.is = "tags"
  <2> DEFINE row(n) == [tree[n] EXCEPT !["tagged"] = r.row.tagged]
  <2>2. e = [ok |-> FALSE, tree |-> tree] \/ \E n \in DOMAIN tree : e = [ok |-> TRUE, tree |-> With(n, row(n))]
    BY <1>10 DEF Effects
  <2> HIDE DEF row
  <2>1. e.tree = tree \/ \E n \in DOMAIN tree : e.tree = With(n, row(n))
    BY <2>2
  <2> QED BY <1>1, <1>8, <2>1 DEF row
<1>11. CASE r.is = "move"
  <2> DEFINE moved(s) == [n \in DOMAIN tree |-> IF n \in s THEN [tree[n] EXCEPT !.parent = r.to] ELSE tree[n]]
  <2>1. \A s : IsFolder(r.to) => TreeOf(moved(s))
    BY <1>0, MovedTree, Zenon
  <2>2. e = [ok |-> FALSE, tree |-> tree] \/ \E s : IsFolder(r.to) /\ e = [ok |-> TRUE, tree |-> moved(s)]
    BY <1>11 DEF Effects
  <2> HIDE DEF moved
  <2>3. e.tree = tree \/ \E s : IsFolder(r.to) /\ e.tree = moved(s)
    BY <2>2
  <2> QED BY <1>1, <2>1, <2>3
<1> QED BY <1>5, <1>6, <1>7, <1>9, <1>10, <1>11

LEMMA AnswerTree == ASSUME ServerInv, TreeInv, NEW r \in calls, ServerAnswers(r) PROVE TreeInv'
<1>1. IsCall(r)
  BY DEF ServerInv
<1>2. CASE r.is = "query"
  <2>1. PICK q : calls' = (calls \ {r}) \cup {q} /\ q = [r EXCEPT !.answered = TRUE, !.data = Listing(r.key)]
    BY <1>2 DEF ServerAnswers
  <2>2. q.is = "query"
    BY <1>1, <1>2, <2>1 DEF IsCall
  <2>3. tree' = tree
    BY <1>2 DEF ServerAnswers
  <2> QED BY <2>1, <2>2, <2>3 DEF TreeInv, AddsTo, TreeOf
<1>3. CASE r.is # "query"
  <2>1. PICK e \in Effects(r) : /\ calls' = (calls \ {r}) \cup {[r EXCEPT !.answered = TRUE, !.ok = e.ok]}
                                /\ tree' = e.tree
    BY <1>3 DEF ServerAnswers
  <2> DEFINE q == [r EXCEPT !.answered = TRUE, !.ok = e.ok]
  <2>2. q.is = r.is /\ q.row = r.row /\ q.to = r.to
    BY <1>1 DEF IsCall
  <2>3. calls' = (calls \ {r}) \cup {q}
    BY <2>1
  <2> HIDE DEF q
  <2>4. AddsTo(calls')
    BY <2>2, <2>3 DEF TreeInv, AddsTo
  <2>5. TreeOf(tree')
    BY <1>3, <2>1, EffectTreeOf
  <2> QED BY <2>4, <2>5 DEF TreeInv
<1> QED BY <1>2, <1>3

\* what the client sends of itself are queries
LEMMA UiAdds ==
    ASSUME NEW v, NEW n, NEW t, NEW c, NEW d, NEW w, Ui(v, n, t, c, d, w), AddsTo(n)
    PROVE  AddsTo(calls')
<1>1. \A r \in calls' : r \in n \/ \E k : r = Query(k)
  BY Zenon DEF Ui
<1> QED BY <1>1, QueryIs DEF AddsTo

LEMMA SendTree ==
    ASSUME TreeInv,
           DeleteNodesModal \/ NewFolderModal \/ EditNodeTitleModal \/ EditNodeTagsModal \/ DropNodesModal
    PROVE  TreeInv'
<1>1. ASSUME NEW is \in {"add", "rename", "tags", "delete", "move"}, NEW ids, NEW to, NEW from, NEW row, Call(is, ids, to, from, row),
             is = "add" => "parent" \in DOMAIN row /\ row.parent = to
      PROVE  TreeInv'
  <2> DEFINE r == [is |-> is, no |-> done.changes, key |-> Key(Nowhere, 1), mode |-> modal.mode, at |-> modal.at, ids |-> ids,
                   to |-> to, from |-> from, row |-> row, answered |-> FALSE, ok |-> FALSE, data |-> NoData]
  <2>1. r.is = is /\ r.row = row /\ r.to = to
    OBVIOUS
  <2>2. Ui(panel, calls \cup {r}, hits, listings, dragged, modal) /\ tree' = tree
    BY <1>1 DEF Call, Kept
  <2> HIDE DEF r
  <2>3. AddsTo(calls \cup {r})
    BY <1>1, <2>1 DEF TreeInv, AddsTo
  <2>4. AddsTo(calls')
    BY <2>2, <2>3, UiAdds
  <2> QED BY <2>2, <2>4 DEF TreeInv
<1>2. CASE NewFolderModal
  <2>1. PICK title : Call("add", {}, Of.node, Nowhere, [NoNodeRow EXCEPT !.parent = Of.node, !.title = title])
    BY <1>2, Zenon DEF NewFolderModal
  <2> DEFINE row == [NoNodeRow EXCEPT !.parent = Of.node, !.title = title]
  <2>2. "parent" \in DOMAIN row /\ row.parent = Of.node
    BY DEF NoNodeRow
  <2> HIDE DEF row
  <2>3. Call("add", {}, Of.node, Nowhere, row)
    BY <2>1 DEF row
  <2> QED BY <1>1, <2>2, <2>3
<1>3. CASE DeleteNodesModal
  BY <1>1, <1>3 DEF DeleteNodesModal
<1>4. CASE EditNodeTitleModal
  BY <1>1, <1>4 DEF EditNodeTitleModal
<1>5. CASE EditNodeTagsModal
  BY <1>1, <1>5 DEF EditNodeTagsModal
<1>6. CASE DropNodesModal
  BY <1>1, <1>6 DEF DropNodesModal
<1> QED BY <1>2, <1>3, <1>4, <1>5, <1>6

LEMMA CreatedTree == ASSUME ServerInv, TreeInv, NEW b \in batches, NodeCreated(b) PROVE TreeInv'
<1>1. AddsTo(calls')
  <2>1. calls' = calls \/ \E w : Ui(panel, calls, hits \cup {Every}, listings, dragged, w)
    BY Zenon DEF NodeCreated, CreateRefused, Finished
  <2> QED BY <2>1, UiAdds DEF TreeInv
<1>2. TreeOf(tree')
  <2> DEFINE row == [parent |-> b.target, title |-> b.file, tagged |-> FALSE]
  <2>1. "parent" \in DOMAIN row /\ row.parent = b.target
    OBVIOUS
  <2>2. \/ tree' = tree
        \/ IsFolder(b.target) /\ \E n \in NodeIds : tree' = With(n, row)
    BY DEF NodeCreated
  <2> HIDE DEF row
  <2> QED BY <2>1, <2>2, WithTree DEF TreeInv
<1> QED BY <1>1, <1>2 DEF TreeInv

LEMMA TreeNext ==
    ASSUME ServerInv, UploadInv, TreeInv, CommanderNext \/ UNCHANGED commanderVars
    PROVE  TreeInv'
<1>1. modal.files \subseteq Files
  BY DEF UploadInv
<1>2. ASSUME NEW v, NEW n, NEW t, NEW c, NEW d, NEW w, Ui(v, n, t, c, d, w), n \subseteq calls, tree' = tree
      PROVE  TreeInv'
  <2>1. AddsTo(calls')
    BY <1>2, UiAdds DEF TreeInv, AddsTo
  <2> QED BY <1>2, <2>1 DEF TreeInv
<1>3. ASSUME Looks, Kept PROVE TreeInv'
  BY <1>2, <1>3 DEF Looks, Kept
<1>4. ASSUME NEW r \in calls, ListingArrives(r) PROVE TreeInv'
  <2>1. PICK c : Ui(panel, calls \ {r}, hits, c, dragged, modal) /\ Kept
    BY <1>4, Zenon DEF ListingArrives
  <2> QED BY <1>2, <2>1 DEF Kept
<1>5. ASSUME NEW r \in calls, MutationDone(r) PROVE TreeInv'
  <2>1. PICK v, t, d, w : Ui(v, calls \ {r}, t, listings, d, w) /\ Kept
    BY <1>5, Zenon DEF MutationDone
  <2> QED BY <1>2, <2>1 DEF Kept
<1>6. ASSUME UNCHANGED <<tree, calls>> PROVE TreeInv'
  BY <1>6 DEF TreeInv
<1>7. CASE ListingExpires \/ LocalSubmit \/ CloseUploader \/ UNCHANGED commanderVars
  BY <1>6, <1>7 DEF ListingExpires, LocalSubmit, CloseUploader, commanderVars
<1>8. ASSUME NEW b \in batches, UploadStarts(b) \/ UploadBreaksOff(b) PROVE TreeInv'
  BY <1>6, <1>8 DEF UploadStarts, UploadBreaksOff
<1>9. ASSUME NEW b \in batches, FileSent(b) PROVE TreeInv'
  <2>1. PICK w : Ui(panel, calls, hits \cup {Every}, listings, dragged, w) /\ tree' = tree
    BY <1>9, Zenon DEF FileSent, Finished
  <2> QED BY <1>2, <2>1
<1> QED BY <1>1, <1>3, <1>4, <1>5, <1>7, <1>8, <1>9, AnswerTree, SendTree, CreatedTree, LooksAre
        DEF CommanderNext

LEMMA TreeInit == CommanderInit => TreeInv
<1> SUFFICES ASSUME CommanderInit PROVE TreeInv
  OBVIOUS
<1>1. \A r \in calls : r.is = "query"
  BY QueryIs DEF CommanderInit
<1>2. tree = FirstTree
  BY DEF CommanderInit
<1>3. TreeOf(FirstTree)
  <2>1. ASSUME NEW S, NEW row \in [parent : S, title : STRING, tagged : BOOLEAN]
        PROVE  "parent" \in DOMAIN row /\ row.parent \in S
    BY <2>1
  <2>2. \A n \in DOMAIN FirstTree :
           /\ "parent" \in DOMAIN FirstTree[n]
           /\ FirstTree[n].parent \in {Root} \cup (FolderIds \cap DOMAIN FirstTree)
    BY <2>1, CommanderAssumption
  <2> QED BY <2>2, CommanderAssumption DEF TreeOf
<1> QED BY <1>1, <1>2, <1>3 DEF TreeInv, AddsTo

ModalNames == {"none", "new", "delete", "rename", "tags", "move", "upload", "drop"}

\* what a panel shows and ticks are nodes, on pages from one
ListIs(data) == DOMAIN data.items \subseteq NodeIds /\ data.pages \in Nat
PanelOf(p) ==
    /\ p = [f \in DOMAIN p |-> p[f]] /\ {"node", "page", "ticked", "data"} \subseteq DOMAIN p
    /\ p.ticked \subseteq NodeIds /\ p.page \in Nat \ {0} /\ ListIs(p.data)
PanelsOf(v) == v = [m \in Sides |-> v[m]] /\ \A m \in Sides : PanelOf(v[m])

AnswersOf(n) == \A r \in n : r.is = "query" /\ r.answered => ListIs(r.data)
ListingsOf(c) == \A k \in DOMAIN c : ListIs(c[k])
ScreenInv ==
    /\ PanelsOf(panel) /\ AnswersOf(calls) /\ ListingsOf(listings)
    /\ dragged.nodes \subseteq NodeIds /\ modal.is \in ModalNames

LEMMA UiScreen ==
    ASSUME NEW v, PanelsOf(v), NEW n, AnswersOf(n), NEW t, NEW c, ListingsOf(c),
           NEW d, d.nodes \subseteq NodeIds, NEW w, w.is \in ModalNames, Ui(v, n, t, c, d, w)
    PROVE  ScreenInv'
<1>1. panel' = Displayed(v, c) /\ dragged' = d /\ modal' \in {w, NoModal}
  BY DEF Ui
<1>2. ASSUME NEW m \in Sides PROVE PanelOf(Displayed(v, c)[m])
  <2>1. PanelOf(v[m])
    BY DEF PanelsOf
  <2>2. \/ Displayed(v, c)[m] = v[m]
        \/ PanelKey(v[m]) \in DOMAIN c /\ Displayed(v, c)[m] = [v[m] EXCEPT !.data = c[PanelKey(v[m])]]
    BY DEF Displayed
  <2>3. ASSUME NEW data, ListIs(data) PROVE PanelOf([v[m] EXCEPT !.data = data])
    BY <2>1, <2>3 DEF PanelOf
  <2> QED BY <2>1, <2>2, <2>3 DEF ListingsOf
<1>3. PanelsOf(panel')
  <2>1. panel' = [m \in Sides |-> panel'[m]]
    BY <1>1 DEF Displayed
  <2> QED BY <1>1, <1>2, <2>1 DEF PanelsOf
<1>4. AnswersOf(calls')
  <2>1. \A r \in calls' : r \in n \/ \E k : r = Query(k)
    BY Zenon DEF Ui
  <2> QED BY <2>1, QueryIs DEF AnswersOf
<1>5. ListingsOf(listings')
  <2>1. DOMAIN listings' \subseteq DOMAIN c /\ \A k \in DOMAIN listings' : listings'[k] = c[k]
    <3>1. \E hit, wanted : hit \subseteq DOMAIN c /\ listings' = [k \in (DOMAIN c \ hit) \cup (hit \cap wanted) |-> c[k]]
      <4> DEFINE hit == IF n = {} THEN {k \in DOMAIN c : \E tag \in t : ProvidesTag(tag, k, c[k])} ELSE {}
      <4>1. hit \subseteq DOMAIN c
        OBVIOUS
      <4>2. \E wanted : listings' = [k \in (DOMAIN c \ hit) \cup (hit \cap wanted) |-> c[k]]
        BY Zenon DEF Ui
      <4> QED BY <4>1, <4>2, Zenon
    <3> QED BY <3>1
  <2> QED BY <2>1 DEF ListingsOf
<1>6. NoModal.is \in ModalNames
  BY DEF NoModal, ModalNames
<1> QED BY <1>1, <1>3, <1>4, <1>5, <1>6 DEF ScreenInv

LEMMA ChangedPanel ==
    ASSUME NEW v, PanelsOf(v), NEW m \in Sides, NEW p, PanelOf(p)
    PROVE  PanelsOf([v EXCEPT ![m] = p])
BY DEF PanelsOf

LEMMA TickedPanel ==
    ASSUME NEW p, PanelOf(p), NEW s, s \subseteq NodeIds
    PROVE  PanelOf([p EXCEPT !.ticked = s])
BY DEF PanelOf

LEMMA NoDataIs == ListIs(NoData)
BY DEF ListIs, NoData

LEMMA ClearedPanels ==
    ASSUME NEW v, PanelsOf(v), NEW m
    PROVE  PanelsOf([v EXCEPT ![m].ticked = {}])
<1>1. CASE m \in Sides
  <2>1. PanelOf([v[m] EXCEPT !.ticked = {}])
    BY <1>1, TickedPanel DEF PanelsOf
  <2> QED BY <1>1, <2>1, ChangedPanel
<1>2. CASE m \notin Sides
  BY <1>2 DEF PanelsOf
<1> QED BY <1>1, <1>2

LEMMA FreshPanelIs == \A n : PanelOf(FreshPanel(n))
<1> SUFFICES ASSUME NEW n PROVE PanelOf(FreshPanel(n))
  OBVIOUS
<1>1. ASSUME NEW data, NEW p, p = [node |-> n, page |-> 1, ticked |-> {}, data |-> data], ListIs(data) PROVE PanelOf(p)
  BY <1>1 DEF PanelOf
<1> QED BY <1>1, NoDataIs DEF FreshPanel

LEMMA MountedAnewIs == ASSUME NEW p, PanelOf(p) PROVE PanelOf(MountedAnew(p))
<1> DEFINE r == [p EXCEPT !.page = 1, !.data = NoData]
<1>1. /\ r = [f \in DOMAIN r |-> r[f]] /\ {"node", "page", "ticked", "data"} \subseteq DOMAIN r
      /\ r.ticked = p.ticked /\ r.page = 1 /\ r.data = NoData
  BY DEF PanelOf
<1> HIDE DEF r
<1>2. PanelOf(r)
  BY <1>1, NoDataIs DEF PanelOf
<1> QED BY <1>2 DEF r, MountedAnew

LEMMA PanelScreen ==
    ASSUME ScreenInv, NEW m \in Sides, NEW p, PanelOf(p), Panel(m, p)
    PROVE  ScreenInv'
<1>1. PanelsOf([panel EXCEPT ![m] = p])
  BY ChangedPanel DEF ScreenInv
<1> QED BY <1>1, UiScreen DEF ScreenInv, Panel

LEMMA LooksScreen ==
    ASSUME ScreenInv,
           \/ \E m \in Sides : EnterFolder(m) \/ OnPageNumberChange(m) \/ ToggleTick(m) \/ OnDragStartLocal(m)
           \/ ToggleSecond \/ LeaveErrorPage
    PROVE  ScreenInv'
<1>1. \A m \in Sides : PanelOf(panel[m]) /\ ListIs(panel[m].data)
  BY DEF ScreenInv, PanelsOf, PanelOf
<1>2. ASSUME NEW m \in Sides, EnterFolder(m) PROVE ScreenInv'
  <2>1. PICK f : Panel(m, [panel[m] EXCEPT !.node = f, !.ticked = {}])
    BY <1>2 DEF EnterFolder
  <2>2. PanelOf([panel[m] EXCEPT !.node = f, !.ticked = {}])
    BY <1>1 DEF PanelOf
  <2> QED BY <2>1, <2>2, PanelScreen
<1>3. ASSUME NEW m \in Sides, OnPageNumberChange(m) PROVE ScreenInv'
  <2>1. PICK page \in 1..panel[m].data.pages : Panel(m, [panel[m] EXCEPT !.page = page])
    BY <1>3 DEF OnPageNumberChange
  <2>2. page \in Nat \ {0}
    BY <1>1 DEF ListIs
  <2>3. PanelOf([panel[m] EXCEPT !.page = page])
    BY <1>1, <2>2 DEF PanelOf
  <2> QED BY <2>1, <2>3, PanelScreen
<1>4. ASSUME NEW m \in Sides, ToggleTick(m) PROVE ScreenInv'
  <2>0. PICK n \in DOMAIN panel[m].data.items :
           Panel(m, [panel[m] EXCEPT !.ticked = IF n \in @ THEN @ \ {n} ELSE @ \cup {n}])
    BY <1>4, Zenon DEF ToggleTick
  <2>1. PICK s : Panel(m, [panel[m] EXCEPT !.ticked = s]) /\ s \subseteq panel[m].ticked \cup {n}
    <3>1. PICK s : s = IF n \in panel[m].ticked THEN panel[m].ticked \ {n} ELSE panel[m].ticked \cup {n}
      OBVIOUS
    <3>2. Panel(m, [panel[m] EXCEPT !.ticked = s])
      BY <2>0, <3>1, Zenon
    <3>3. s \subseteq panel[m].ticked \cup {n}
      BY <3>1
    <3> QED BY <3>2, <3>3
  <2>2. s \subseteq NodeIds
    BY <1>1, <2>1 DEF PanelOf, ListIs
  <2> QED BY <1>1, <2>1, <2>2, TickedPanel, PanelScreen
<1>5. ASSUME NEW m \in Sides, OnDragStartLocal(m) PROVE ScreenInv'
  <2>1. PICK n, d :
           /\ n \in DOMAIN panel[m].data.items
           /\ d = [nodes |-> {n} \cup panel[m].ticked, from |-> panel[m].node]
           /\ Ui(panel, calls, hits, listings, d, modal)
    BY <1>5, Zenon DEF OnDragStartLocal, DragNodesStarted
  <2>2. d.nodes \subseteq NodeIds
    BY <1>1, <2>1 DEF PanelOf, ListIs
  <2> QED BY <2>1, <2>2, UiScreen DEF ScreenInv
<1>6. CASE ToggleSecond
  <2>1. PICK v : /\ Ui(v, calls, hits, listings, dragged, modal)
                 /\ v = [m \in Sides |-> IF m = "main" THEN MountedAnew(panel[m])
                            ELSE FreshPanel(IF panel[m].node = Nowhere THEN panel["main"].node ELSE Nowhere)]
    BY <1>6, Zenon DEF ToggleSecond
  <2>2. PanelsOf(v)
    BY <1>1, <2>1, FreshPanelIs, MountedAnewIs DEF PanelsOf
  <2> QED BY <2>1, <2>2, UiScreen DEF ScreenInv
<1>7. CASE LeaveErrorPage
  <2> DEFINE q == MountedAnew(panel["secondary"])
             v == [panel EXCEPT !["main"] = FreshPanel(Root)]
  <2>0. "main" \in Sides /\ "secondary" \in Sides
    BY DEF Sides
  <2>1. PanelsOf(v)
    BY <2>0, ChangedPanel, FreshPanelIs DEF ScreenInv
  <2>2. PanelOf(q)
    BY <1>1, <2>0, MountedAnewIs
  <2>3. Ui([v EXCEPT !["secondary"] = q], calls, hits, listings, dragged, modal)
    <3>1. [panel EXCEPT !["main"] = FreshPanel(Root),
                        !["secondary"] = MountedAnew(@)] = [v EXCEPT !["secondary"] = q]
      BY DEF ScreenInv, PanelsOf
    <3> QED BY <1>7, <3>1 DEF LeaveErrorPage
  <2> HIDE DEF q, v
  <2>4. PanelsOf([v EXCEPT !["secondary"] = q])
    BY <2>0, <2>1, <2>2, ChangedPanel
  <2> QED BY <2>3, <2>4, UiScreen DEF ScreenInv
<1> QED BY <1>2, <1>3, <1>4, <1>5, <1>6, <1>7

LEMMA ModalScreen ==
    ASSUME ScreenInv,
           \/ \E m \in Sides : OpenModal(m) \/ OnUpload(m) \/ OnDrop(m) \/ OnDropFolder(m)
           \/ CancelModal
    PROVE  ScreenInv'
<1>1. ASSUME NEW w, w.is \in ModalNames, Opens(w) PROVE ScreenInv'
  BY <1>1, UiScreen DEF ScreenInv, Opens
<1>2. \A is, m, f : /\ [NoModal EXCEPT !.is = is, !.mode = m].is = is
                     /\ [NoModal EXCEPT !.is = is, !.mode = m, !.at = f].is = is
  BY DEF NoModal
<1>3. \A is \in {"none", "new", "delete", "rename", "tags", "move", "upload", "drop"} : is \in ModalNames
  BY DEF ModalNames
<1>4. ASSUME NEW m \in Sides, OpenModal(m) PROVE ScreenInv'
  <2>1. PICK is \in {"new", "delete", "rename", "tags"} : Opens([NoModal EXCEPT !.is = is, !.mode = m])
    BY <1>4 DEF OpenModal
  <2>2. [NoModal EXCEPT !.is = is, !.mode = m].is \in ModalNames
    BY <1>2, <1>3
  <2> QED BY <1>1, <2>1, <2>2, Zenon
<1>5. ASSUME NEW m \in Sides, OnUpload(m) PROVE ScreenInv'
  <2>1. PICK files : Opens([is |-> "upload", mode |-> m, at |-> Nowhere, files |-> files])
    BY <1>5 DEF OnUpload
  <2> QED BY <1>1, <1>3, <2>1
<1>6. ASSUME NEW m \in Sides, OnDrop(m) PROVE ScreenInv'
  <2>1. CASE \E files : Opens([is |-> "drop", mode |-> m, at |-> Nowhere, files |-> files])
    BY <1>1, <1>3, <2>1
  <2>2. CASE Opens([NoModal EXCEPT !.is = "move", !.mode = m])
    <3>1. [NoModal EXCEPT !.is = "move", !.mode = m].is \in ModalNames
      BY <1>2, <1>3
    <3> QED BY <1>1, <2>2, <3>1, Zenon
  <2> QED BY <1>6, <2>1, <2>2 DEF OnDrop
<1>7. ASSUME NEW m \in Sides, OnDropFolder(m) PROVE ScreenInv'
  <2>1. PICK f : Opens([NoModal EXCEPT !.is = "move", !.mode = m, !.at = f])
    BY <1>7 DEF OnDropFolder
  <2>2. [NoModal EXCEPT !.is = "move", !.mode = m, !.at = f].is \in ModalNames
    BY <1>2, <1>3
  <2> QED BY <1>1, <2>1, <2>2, Zenon
<1>8. CASE CancelModal
  <2>1. PICK v : /\ v = IF modal.is \in {"delete", "rename", "tags"} THEN [panel EXCEPT ![modal.mode].ticked = {}] ELSE panel
                 /\ Ui(v, calls, hits, listings, dragged, NoModal)
    BY <1>8, Zenon DEF CancelModal
  <2>2. PanelsOf(v)
    BY <2>1, ClearedPanels DEF ScreenInv
  <2>3. NoModal.is \in ModalNames
    BY DEF NoModal, ModalNames
  <2> QED BY <2>1, <2>2, <2>3, UiScreen DEF ScreenInv
<1> QED BY <1>4, <1>5, <1>6, <1>7, <1>8

LEMMA SendScreen ==
    ASSUME ScreenInv,
           DeleteNodesModal \/ NewFolderModal \/ EditNodeTitleModal \/ EditNodeTagsModal \/ DropNodesModal
    PROVE  ScreenInv'
<1>1. PICK r : r.is # "query" /\ Ui(panel, calls \cup {r}, hits, listings, dragged, modal)
  BY SendsAre DEF Sends
<1>2. AnswersOf(calls \cup {r})
  BY <1>1 DEF ScreenInv, AnswersOf
<1> QED BY <1>1, <1>2, UiScreen DEF ScreenInv

LEMMA ListingList == TreeInv => \A key : ListIs(Listing(key))
<1> SUFFICES ASSUME TreeInv, NEW key PROVE ListIs(Listing(key))
  OBVIOUS
<1>1. CASE IsFolder(key.folder)
  <2> DEFINE all == ChildrenOf(key.folder)
             page == {n \in all : Cardinality({m \in all : m < n}) \div PerPage = key.page - 1}
             pages == (Cardinality(all) + PerPage - 1) \div PerPage
  <2>1. Listing(key) = [is |-> "ok", folder |-> key.folder, items |-> [n \in page |-> tree[n]], pages |-> pages]
    BY <1>1, Zenon DEF Listing
  <2>2. page \subseteq NodeIds
    BY DEF ChildrenOf, TreeInv, TreeOf
  <2>3. Cardinality(all) \in Nat
    <3>1. IsFiniteSet(all)
      BY FS_Subset DEF ChildrenOf, TreeInv, TreeOf
    <3> QED BY <3>1, FS_CardinalityType
  <2>4. pages \in Nat
    <3>1. ASSUME NEW c \in Nat, NEW p \in Nat \ {0} PROVE (c + p - 1) \div p \in Nat
      OBVIOUS
    <3> HIDE DEF all
    <3> QED BY <2>3, <3>1, CommanderAssumption
  <2> HIDE DEF page, pages
  <2> QED BY <2>1, <2>2, <2>4 DEF ListIs
<1>2. CASE ~IsFolder(key.folder)
  <2>1. Listing(key) = [NoData EXCEPT !.is = "gone", !.folder = key.folder]
    BY <1>2 DEF Listing
  <2>2. Listing(key).items = NoData.items /\ Listing(key).pages = NoData.pages
    BY <2>1 DEF NoData
  <2> QED BY <2>2, NoDataIs DEF ListIs
<1> QED BY <1>1, <1>2

LEMMA AnswerScreen ==
    ASSUME ServerInv, TreeInv, ScreenInv, NEW r \in calls,
           ServerAnswers(r) \/ ListingArrives(r) \/ MutationDone(r)
    PROVE  ScreenInv'
<1>1. IsCall(r)
  BY DEF ServerInv
<1>2. CASE ServerAnswers(r)
  <2>1. UNCHANGED <<panel, listings, dragged, modal>>
    BY <1>2 DEF ServerAnswers
  <2>2. PICK q : /\ calls' = (calls \ {r}) \cup {q}
                 /\ \/ r.is = "query" /\ q = [r EXCEPT !.answered = TRUE, !.data = Listing(r.key)]
                    \/ r.is # "query" /\ \E ok : q = [r EXCEPT !.answered = TRUE, !.ok = ok]
    BY <1>2, Zenon DEF ServerAnswers
  <2>3. q.is = "query" => q.data = Listing(r.key)
    BY <1>1, <2>2 DEF IsCall
  <2>4. AnswersOf(calls')
    BY <2>2, <2>3, ListingList DEF AnswersOf, ScreenInv
  <2> QED BY <2>1, <2>4 DEF ScreenInv
<1>3. CASE ListingArrives(r)
  <2> DEFINE c == [k \in DOMAIN listings \cup {r.key} |-> IF k = r.key THEN r.data ELSE listings[k]]
  <2>1. r.is = "query" /\ r.answered /\ Ui(panel, calls \ {r}, hits, c, dragged, modal)
    BY <1>3 DEF ListingArrives
  <2>2. ListingsOf(c)
    BY <2>1 DEF ScreenInv, ListingsOf, AnswersOf
  <2>3. AnswersOf(calls \ {r})
    BY DEF ScreenInv, AnswersOf
  <2> HIDE DEF c
  <2> QED BY <2>1, <2>2, <2>3, UiScreen DEF ScreenInv
<1>4. CASE MutationDone(r)
  <2>1. PICK t, d, w : /\ Ui(SelectionCleared(r), calls \ {r}, t, listings, d, w)
                       /\ d \in {NoDrag, dragged} /\ w \in {NoModal, modal}
    <3>1. \E t, its : Ui(SelectionCleared(r), calls \ {r}, t, listings,
              IF r.is = "move" THEN NoDrag ELSE dragged, IF modal = its /\ GoesOn(r) THEN NoModal ELSE modal)
      BY <1>4, Zenon DEF MutationDone
    <3> QED BY <3>1, Zenon
  <2>2. PanelsOf(SelectionCleared(r))
    <3>1. CASE r.is = "move"
      <4>1. SelectionCleared(r) = [m \in Sides |-> [panel[m] EXCEPT !.ticked = {}]]
        BY <3>1 DEF SelectionCleared
      <4>2. \A m \in Sides : PanelOf([panel[m] EXCEPT !.ticked = {}])
        BY TickedPanel DEF ScreenInv, PanelsOf
      <4> QED BY <4>1, <4>2 DEF PanelsOf
    <3>2. CASE r.is # "move"
      <4>1. SelectionCleared(r) = panel \/ SelectionCleared(r) = [panel EXCEPT ![r.mode].ticked = {}]
        BY <3>2 DEF SelectionCleared
      <4> QED BY <4>1, ClearedPanels DEF ScreenInv
    <3> QED BY <3>1, <3>2
  <2>3. AnswersOf(calls \ {r})
    BY DEF ScreenInv, AnswersOf
  <2>4. d.nodes \subseteq NodeIds /\ w.is \in ModalNames
    BY <2>1 DEF ScreenInv, NoDrag, NoModal, ModalNames
  <2> QED BY <2>1, <2>2, <2>3, <2>4, UiScreen DEF ScreenInv
<1> QED BY <1>2, <1>3, <1>4

LEMMA BatchScreen ==
    ASSUME ScreenInv, NEW b \in batches,
           UploadStarts(b) \/ UploadBreaksOff(b) \/ NodeCreated(b) \/ FileSent(b)
    PROVE  ScreenInv'
<1>1. ASSUME NEW status, Finished(b, status) PROVE ScreenInv'
  <2>1. PICK w : w \in {NoModal, modal} /\ Ui(panel, calls, hits \cup {Every}, listings, dragged, w)
    BY <1>1 DEF Finished
  <2>2. w.is \in ModalNames
    BY <2>1 DEF ScreenInv, NoModal, ModalNames
  <2> QED BY <2>1, <2>2, UiScreen DEF ScreenInv
<1>2. ASSUME UNCHANGED <<panel, listings, calls, dragged, modal>> PROVE ScreenInv'
  BY <1>2 DEF ScreenInv
<1>3. CASE UploadStarts(b) \/ UploadBreaksOff(b)
  BY <1>2, <1>3 DEF UploadStarts, UploadBreaksOff
<1>4. CASE NodeCreated(b)
  BY <1>1, <1>2, <1>4 DEF NodeCreated, CreateRefused
<1>5. CASE FileSent(b)
  BY <1>1, <1>5 DEF FileSent
<1> QED BY <1>3, <1>4, <1>5

LEMMA ScreenNext ==
    ASSUME ServerInv, TreeInv, ScreenInv, CommanderNext \/ UNCHANGED commanderVars
    PROVE  ScreenInv'
<1>1. ASSUME UNCHANGED <<panel, calls, dragged, modal>>, ListingsOf(listings') PROVE ScreenInv'
  BY <1>1 DEF ScreenInv
<1>2. CASE ListingExpires
  <2>1. ListingsOf(listings')
    BY <1>2 DEF ListingExpires, ScreenInv, ListingsOf
  <2> QED BY <1>1, <1>2, <2>1 DEF ListingExpires
<1>3. CASE LocalSubmit \/ CloseUploader \/ UNCHANGED commanderVars
  <2>1. UNCHANGED <<panel, listings, calls, dragged, modal>>
    BY <1>3, Zenon DEF LocalSubmit, CloseUploader, commanderVars
  <2> QED BY <1>1, <2>1 DEF ScreenInv
<1> QED BY <1>2, <1>3, LooksScreen, ModalScreen, SendScreen, AnswerScreen, BatchScreen DEF CommanderNext

LEMMA ScreenInit == CommanderInit => ScreenInv
<1> SUFFICES ASSUME CommanderInit PROVE ScreenInv
  OBVIOUS
<1>1. PanelsOf(panel)
  <2>1. PICK c : panel = [m \in Sides |-> FreshPanel(IF m = "main" THEN Root ELSE c.second)]
    BY DEF CommanderInit
  <2> QED BY <2>1, FreshPanelIs DEF PanelsOf
<1>2. AnswersOf(calls)
  BY QueryIs DEF CommanderInit, AnswersOf
<1>3. ListingsOf(listings) /\ dragged.nodes \subseteq NodeIds /\ modal.is \in ModalNames
  BY DEF CommanderInit, ListingsOf, NoDrag, NoModal, ModalNames
<1> QED BY <1>1, <1>2, <1>3 DEF ScreenInv

\* The items of the uploader say one of three things.
ItemsInv == \A i \in DOMAIN uploader : uploader[i] \in {"uploading", "success", "failure"}

LEMMA ItemsNext ==
    ASSUME ItemsInv, CommanderNext \/ UNCHANGED commanderVars
    PROVE  ItemsInv'
<1>1. ASSUME NEW file, NEW target, NEW status \in {"uploading", "success", "failure"},
             uploader' = ItemUpdated(file, target, status)
      PROVE  ItemsInv'
  BY <1>1 DEF ItemsInv, ItemUpdated
<1>2. ASSUME NEW b, NEW status \in {"uploading", "success", "failure"}, Finished(b, status) PROVE ItemsInv'
  BY <1>1, <1>2 DEF Finished
<1>3. ASSUME uploader' = uploader PROVE ItemsInv'
  BY <1>3 DEF ItemsInv
<1>4. CASE \/ \E m \in Sides :
                 \/ EnterFolder(m) \/ OnPageNumberChange(m) \/ ToggleTick(m) \/ OnDragStartLocal(m)
                 \/ OpenModal(m) \/ OnUpload(m) \/ OnDrop(m) \/ OnDropFolder(m)
           \/ ToggleSecond \/ LeaveErrorPage \/ CancelModal
  BY <1>3, <1>4 DEF EnterFolder, OnPageNumberChange, ToggleTick, OnDragStartLocal, OpenModal, OnUpload, OnDrop,
        OnDropFolder, ToggleSecond, LeaveErrorPage, CancelModal, Kept
<1>5. CASE DeleteNodesModal \/ NewFolderModal \/ EditNodeTitleModal \/ EditNodeTagsModal \/ DropNodesModal
  BY <1>3, <1>5, SendsAre DEF Kept
<1>6. ASSUME NEW r \in calls, ServerAnswers(r) \/ ListingArrives(r) \/ MutationDone(r) PROVE ItemsInv'
  BY <1>3, <1>6, Zenon DEF ServerAnswers, ListingArrives, MutationDone, Kept
<1>7. CASE ListingExpires \/ LocalSubmit \/ UNCHANGED commanderVars
  BY <1>3, <1>7, Zenon DEF ListingExpires, LocalSubmit, commanderVars
<1>8. CASE CloseUploader
  BY <1>8 DEF CloseUploader, ItemsInv
<1>9. ASSUME NEW b \in batches, UploadStarts(b) PROVE ItemsInv'
  BY <1>1, <1>9 DEF UploadStarts
<1>10. ASSUME NEW b \in batches, UploadBreaksOff(b) PROVE ItemsInv'
  BY <1>3, <1>10 DEF UploadBreaksOff
<1>11. ASSUME NEW b \in batches, NodeCreated(b) PROVE ItemsInv'
  BY <1>2, <1>3, <1>11 DEF NodeCreated, CreateRefused
<1>12. ASSUME NEW b \in batches, FileSent(b) PROVE ItemsInv'
  BY <1>2, <1>12 DEF FileSent
<1> QED BY <1>4, <1>5, <1>6, <1>7, <1>8, <1>9, <1>10, <1>11, <1>12 DEF CommanderNext

\* Every node of the server's tree is in the home or in a folder of the tree, also
\* after a folder was deleted with all below it and while nodes are moved; panels
\* tick, list and drag nodes, and an item of the uploader says one of three things.
THEOREM CommanderTypes == CommanderSpec => []CommanderTypeOK
<1>1. ServerInv /\ TreeInv /\ ScreenInv /\ ItemsInv => CommanderTypeOK
  <2> SUFFICES ASSUME ServerInv, TreeInv, ScreenInv, ItemsInv PROVE CommanderTypeOK
    OBVIOUS
  <2>1. DOMAIN tree \subseteq NodeIds /\ \A n \in DOMAIN tree : IsFolder(tree[n].parent)
    BY DEF TreeInv, TreeOf, IsFolder
  <2>2. \A m \in Sides : panel[m].ticked \subseteq NodeIds /\ panel[m].page > 0
    BY DEF ScreenInv, PanelsOf, PanelOf
  <2> QED BY <2>1, <2>2 DEF ScreenInv, ModalNames, ItemsInv, CommanderTypeOK
<1>2. CommanderInit => ServerInv /\ CoverInv /\ UploadInv /\ TreeInv /\ ScreenInv /\ ItemsInv
  <2>1. CommanderInit => ItemsInv
    BY DEF CommanderInit, ItemsInv
  <2> QED BY <2>1, CoverInit, UploadInit, TreeInit, ScreenInit
<1>3. ServerInv /\ CoverInv /\ UploadInv /\ TreeInv /\ ScreenInv /\ ItemsInv /\ [CommanderNext]_commanderVars
         => (ServerInv /\ CoverInv /\ UploadInv /\ TreeInv /\ ScreenInv /\ ItemsInv)'
  BY CoverNext, UploadNext, TreeNext, ScreenNext, ItemsNext
<1> QED BY <1>1, <1>2, <1>3, PTL DEF CommanderSpec

=============================================================================
