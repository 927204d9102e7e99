----------------------------- MODULE DocVersions -----------------------------
(***************************************************************************)
(* Documents, their versions, the pages of a version and the PDF file of a *)
(* version, as the request handlers of                                     *)
(*   papermerge/core/features/document/db/api.py     (create, bump, upload) *)
(*   papermerge/core/features/page_mngm/db/api.py    (apply, move, extract) *)
(*   papermerge/core/features/nodes/db/api.py        (delete)               *)
(* change them.  A handler is a coroutine that commits several times on its *)
(* way and writes files between the commits; every action below is the part *)
(* of a handler between two such points, so the handlers of two requests    *)
(* interleave at each of them and a crash may strike at each of them.       *)
(*                                                                          *)
(* Abstracted: rotation, languages, file names, descriptions, thumbnails and*)
(* permissions (an upload keeps the file name of the version it fills).  A  *)
(* page image is a member of Content; a text is NULL, Blank ("") or the     *)
(* Content it was recognised from.                                          *)
(***************************************************************************)
EXTENDS Integers, Sequences, FiniteSets, Functions

CONSTANTS
    Docs,           \* identities of documents
    NoDoc,
    Content,        \* page images
    Initial,        \* the uploaded documents the system starts with: a
                    \* sequence of [doc : Docs, pages : Seq(Content)]
    Uploads,        \* the PDFs (sequences of Content) a client may upload
    Reqs,           \* requests; each one runs one handler
    MaxVer,         \* bound: versions ever created
    MaxPages,       \* bound: pages of a version a client chooses from
    Ops,            \* what happens: handlers the clients call, the OCR worker
    Sequential,     \* TRUE: a client waits for the answer before it goes on
    Crashes,        \* TRUE: the server process may die inside a handler
    StaleBase,      \* TRUE: pages of an older version may be chosen
    Reorder,        \* TRUE: apply may list pages in another order
    SameDocMove,    \* TRUE: source and target page may be of one document
    Reupload,       \* TRUE: upload also to a document that has pages
    RedisPresent,   \* papermerge__redis__url is configured
    SharedMedia     \* the OCR worker writes to the media volume of the server

NULL == "NULL"
Blank == ""
Texts == Content \cup {NULL, Blank}

MoveOps == {"mix", "replace"}
ExtractOps == {"extract_one", "extract_all"}
UploadOps == {"upload", "upload_image"}
Handlers == {"apply", "create", "delete"} \cup MoveOps \cup ExtractOps \cup UploadOps

ASSUME DocsAssumption == NoDoc \notin Docs
ASSUME ContentAssumption == NULL \notin Content /\ Blank \notin Content
ASSUME InitialAssumption ==
    /\ Initial \in Seq([doc : Docs, pages : Seq(Content)])
    /\ \A i, j \in DOMAIN Initial : Initial[i].doc = Initial[j].doc => i = j
ASSUME UploadsAssumption == \A s \in Uploads : s \in Seq(Content)
ASSUME BoundsAssumption ==
    /\ MaxVer \in Nat
    /\ MaxPages \in Nat
    /\ Ops \subseteq Handlers \cup {"ocr"}
    /\ Len(Initial) <= MaxVer

VARIABLES
    live,       \* documents whose node exists
    unborn,     \* identities not given to a document yet
    ver,        \* the document_versions rows with their pages rows
    nextVer,    \* versions below it have been created
    file,       \* the files under docvers/<version id>
    ocr,        \* versions whose pages have a directory under ocr/pages
    sent,       \* tasks handed to the message broker
    req         \* the requests: what was asked, and where the handler is

store == <<live, unborn, ver, nextVer>>
vars == <<live, unborn, ver, nextVer, file, ocr, sent, req>>

VerIds == 1..MaxVer

\* class Page: the columns number and text
PageRow == [number : Nat \ {0}, text : Texts]
\* class DocumentVersion; sized stands for size # 0, doc = NoDoc for no row
Version == [doc : Docs \cup {NoDoc}, number : Nat, count : Nat,
            sized : BOOLEAN, pages : Seq(PageRow)]
NoVersion == [doc |-> NoDoc, number |-> 0, count |-> 0,
              sized |-> FALSE, pages |-> <<>>]
File == [kind : {"none", "image", "pdf"}, pages : Seq(Content)]
NoFile == [kind |-> "none", pages |-> <<>>]
Pdf(s) == [kind |-> "pdf", pages |-> s]

Stopped == {"idle", "done", "error", "crashed"}
SrcPcs == {"srcRead", "srcInsert", "srcPdf", "srcText", "srcNotify"}
DstPcs == {"dstRead", "dstInsert", "dstPdf", "dstNotify"}
ExtPcs == {"extRead", "extDoc", "extPages", "extText", "extNotify"}
UpPcs == {"upFile", "upCommit", "upNotify"}
DelPcs == {"delCommit", "delNotify"}
Pcs == Stopped \cup SrcPcs \cup DstPcs \cup ExtPcs \cup UpPcs \cup DelPcs \cup {"purge"}

Request == [op : Handlers \cup {"none"},
            pc : Pcs,                  \* where the handler is
            doc : Docs \cup {NoDoc},   \* document the request works on
            old : VerIds \cup {0},     \* version the chosen pages belong to
            rows : Seq(PageRow),       \* pages of old, as the handler read them
            items : Seq(Nat),          \* chosen rows of old, in the order used
            dst : VerIds \cup {0},     \* version of the target page
            at : Nat,                  \* number of the target page in dst
            into : Docs \cup {NoDoc},  \* target document
            dlen : Nat,                \* pages of dst, as the handler read them
            new : Nat, dnew : Nat,     \* versions the handler created
            lnum : Nat, lcount : Nat,  \* number, page_count of the last version
            todo : Seq(Nat),           \* rows still to move or extract
            made : SUBSET Docs,        \* documents the handler created
            cur : Docs \cup {NoDoc},   \* the one it fills
            out : SUBSET VerIds,       \* versions that got the moved pages
            up : Seq(Content),         \* uploaded PDF
            gone : SUBSET VerIds]      \* versions to remove from the S3 store

NoRequest == [op |-> "none", pc |-> "idle", doc |-> NoDoc, old |-> 0,
              rows |-> <<>>, items |-> <<>>, dst |-> 0, at |-> 0,
              into |-> NoDoc, dlen |-> 0, new |-> 0, dnew |-> 0, lnum |-> 0, lcount |-> 0,
              todo |-> <<>>, made |-> {}, cur |-> NoDoc, out |-> {}, up |-> <<>>, gone |-> {}]

-----------------------------------------------------------------------------
(* Helpers *)

VersionsOf(d) == {v \in VerIds : ver[v].doc = d}
\* mutant: create_next_version and version_bump_from_pages ignore the size
Unsized_AnySize(d) == VersionsOf(d)
Unsized(d) == {v \in VersionsOf(d) : ~ver[v].sized}

\* ORDER BY number DESC LIMIT 1: with equal numbers any of them may come first
Highest(S) == {v \in S : \A w \in S : ver[w].number <= ver[v].number}
LastVersions(d) == Highest(VersionsOf(d))

\* the rows S of rows listed ORDER BY number
ByNumber(rows, S) ==
    {s \in [1..Cardinality(S) -> S] :
        \A j, k \in DOMAIN s :
            j < k => s[j] # s[k] /\ rows[s[j]].number <= rows[s[k]].number}

\* the members of a set of page positions in increasing order
InOrder(S) ==
    {s \in [1..Cardinality(S) -> S] : \A j, k \in DOMAIN s : j < k => s[j] < s[k]}

FreshRows(n) == [i \in 1..n |-> [number |-> i, text |-> NULL]]

\* io.StringIO(page.text).read()
TextOf(row) == IF row.text = NULL THEN Blank ELSE row.text

\* page numbers of the chosen rows, in the order the handler uses them
Numbers(r) == [k \in DOMAIN req[r].items |-> req[r].rows[req[r].items[k]].number]
Chosen(r) == Range(req[r].items)
Kept(r) == DOMAIN req[r].rows \ Chosen(r)
\* mutant: off by one
AllChosen_ButOne(r) == Len(req[r].rows) <= Len(req[r].items) + 1
\* len(src_old_version.pages) == moved_pages_count
AllChosen(r) == Len(req[r].rows) = Len(req[r].items)

Readable(v, S) == file[v].kind = "pdf" /\ S \subseteq 1..Len(file[v].pages)

Goto(r, pc) == req' = [req EXCEPT ![r].pc = pc]
At(r, pc) == req[r].pc = pc

Send(tasks) == sent' = IF RedisPresent THEN sent \cup tasks ELSE sent

\* an exception leaves the handler; what was committed stays
Raise(r) ==
    /\ Goto(r, "error")
    /\ UNCHANGED <<store, file, ocr, sent>>

-----------------------------------------------------------------------------
(* Parts shared by the handlers *)

\* version_bump: read the last version ...  (before it, the handler reads the
\* chosen pages again: none are left when their document was deleted meanwhile)
BumpRead(r, d, next) ==
    \/ \E v \in LastVersions(d) :
        /\ req' = [req EXCEPT ![r].pc = next,
                              ![r].lnum = ver[v].number, ![r].lcount = ver[v].count,
                              ![r].dlen = IF req[r].dst = 0 THEN 0
                                          ELSE Len(ver[req[r].dst].pages),
                              ![r].todo = IF ver[req[r].old].doc = NoDoc THEN <<>>
                                          ELSE req[r].items]
        /\ UNCHANGED <<store, file, ocr, sent>>
    \/ LastVersions(d) = {} /\ Raise(r)

\* new_page_count = page_count or last_ver.page_count
BumpRows(r, count) == FreshRows(IF count = 0 THEN req[r].lcount ELSE count)

\* mutant: the number is not incremented
BumpVersion_SameNumber(r, d, count) ==
    [doc |-> d, number |-> req[r].lnum, count |-> count,
     sized |-> FALSE, pages |-> BumpRows(r, count)]

BumpVersion(r, d, count) ==
    [doc |-> d, number |-> req[r].lnum + 1, count |-> count,
     sized |-> FALSE, pages |-> BumpRows(r, count)]

\* ... then insert its successor (another request may have done so meanwhile)
BumpInsert(r, d, count) ==
    /\ nextVer \in VerIds
    /\ ver' = [ver EXCEPT ![nextVer] = BumpVersion(r, d, count)]
    /\ nextVer' = nextVer + 1
    /\ UNCHANGED <<live, unborn, file, ocr, sent>>

\* the place of each row in a listing ORDER BY number
Ranking(rows) ==
    {rank \in [DOMAIN rows -> DOMAIN rows] :
        \A i, j \in DOMAIN rows :
            i # j => /\ rank[i] # rank[j]
                     /\ rank[i] < rank[j] => rows[i].number <= rows[j].number}

\* update_text_field: the k-th page gets the k-th text, unless it has a text
WriteText(v, texts) ==
    LET rows == ver[v].pages
    IN  \E rank \in Ranking(rows) :
            ver' = [ver EXCEPT ![v].pages =
                [i \in DOMAIN rows |->
                    IF rows[i].text = NULL /\ rank[i] \in DOMAIN texts
                    THEN [rows[i] EXCEPT !.text = texts[rank[i]]]
                    ELSE rows[i]]]

\* mutant: the texts of the first pages instead of the chosen ones
CopyText_FromStart(rows, S, v) ==
    \E s \in ByNumber(rows, 1..Cardinality(S)) :
        WriteText(v, [k \in DOMAIN s |-> TextOf(rows[s[k]])])

\* copy_text_field: collect_text_streams sorts the page numbers
CopyText(rows, S, v) ==
    \E s \in ByNumber(rows, S) :
        WriteText(v, [k \in DOMAIN s |-> TextOf(rows[s[k]])])

\* reuse_ocr_data: get_storage_instance() is None, so the first source page
\* that has an OCR directory raises AttributeError
ReuseOcrRaises(v, S) == v \in ocr /\ S # {}

\* DELETE FROM nodes: the versions and pages go with the document
DropDocument(d) ==
    /\ live' = live \ {d}
    /\ ver' = [v \in VerIds |-> IF ver[v].doc = d THEN NoVersion ELSE ver[v]]
    /\ UNCHANGED <<unborn, nextVer>>

-----------------------------------------------------------------------------
(* A request arrives *)

MayBegin(r, op) ==
    /\ op \in Ops
    /\ At(r, "idle")
    /\ Sequential => \A q \in Reqs : req[q].pc \in Stopped

\* versions a client may choose pages from
Choosable ==
    {v \in VerIds : /\ ver[v].doc \in live
                    /\ Len(ver[v].pages) \in 1..MaxPages
                    /\ StaleBase \/ v \in LastVersions(ver[v].doc)}

Chosenable(v) == {S \in SUBSET DOMAIN ver[v].pages : S # {}}

\* a handler that is about to read the last version of the document of page
\* version v, and knows the chosen pages
Selected(op, v, items) ==
    [NoRequest EXCEPT !.op = op, !.pc = "srcRead", !.doc = ver[v].doc,
                      !.old = v, !.rows = ver[v].pages, !.items = items]

\* target_page_id is the i-th page of version w
Targeted(q, w, i) ==
    [q EXCEPT !.dst = w, !.at = ver[w].pages[i].number, !.into = ver[w].doc]

\* the handler of POST /pages/, up to the read of the old version
BeginApply(r) ==
    /\ MayBegin(r, "apply")
    /\ \E v \in Choosable :
       \E S \in Chosenable(v) :
       \E items \in IF Reorder THEN Bijection(1..Cardinality(S), S) ELSE InOrder(S) :
            req' = [req EXCEPT ![r] = Selected("apply", v, items)]
    /\ UNCHANGED <<store, file, ocr, sent>>

\* POST /pages/move, up to the read of the source version in copy_without_pages
BeginMove(r) ==
    \E op \in MoveOps :
    /\ MayBegin(r, op)
    /\ \E v, w \in Choosable :
       \E S \in Chosenable(v), i \in DOMAIN ver[w].pages :
       \E items \in ByNumber(ver[v].pages, S) :
            /\ SameDocMove \/ ver[v].doc # ver[w].doc
            /\ req' = [req EXCEPT ![r] = Targeted(Selected(op, v, items), w, i)]
    /\ UNCHANGED <<store, file, ocr, sent>>

\* POST /pages/extract, up to the same read
BeginExtract(r) ==
    \E op \in ExtractOps :
    /\ MayBegin(r, op)
    /\ \E v \in Choosable :
       \E S \in Chosenable(v) :
       \E items \in ByNumber(ver[v].pages, S) :
            req' = [req EXCEPT ![r] = Selected(op, v, items)]
    /\ UNCHANGED <<store, file, ocr, sent>>

-----------------------------------------------------------------------------
(* The source side: apply_pages_op and copy_without_pages *)

\* mutants: operands swapped; moved pages not subtracted
SrcCount_Swapped(r) == IF req[r].op = "apply" THEN Len(req[r].items)
                       ELSE Len(req[r].items) - Len(req[r].rows)
SrcCount_All(r) == IF req[r].op = "apply" THEN Len(req[r].items) ELSE Len(req[r].rows)
SrcCount(r) == IF req[r].op = "apply" THEN Len(req[r].items)
               ELSE Len(req[r].rows) - Len(req[r].items)

SrcRead(r) ==
    /\ At(r, "srcRead")
    /\ BumpRead(r, req[r].doc, "srcInsert")

SrcInsert(r) ==
    /\ At(r, "srcInsert")
    /\ \/ /\ req[r].doc \in live
          /\ BumpInsert(r, req[r].doc, SrcCount(r))
          /\ req' = [req EXCEPT ![r].pc = "srcPdf", ![r].new = nextVer]
       \/ /\ req[r].doc \notin live
          /\ Raise(r)

\* copy_pdf_pages takes the chosen pages, copy_pdf removes them
SrcPages(r) ==
    LET f == file[req[r].old].pages
        n == Numbers(r)
    IN  IF req[r].op = "apply"
        THEN {[k \in DOMAIN n |-> f[n[k]]]}
        ELSE {[k \in DOMAIN s |-> f[s[k]]] : s \in InOrder(DOMAIN f \ Range(n))}

\* mutant: the new PDF is saved over the old one
SrcPdf_InPlace(r) ==
    /\ At(r, "srcPdf")
    /\ Readable(req[r].old, Range(Numbers(r)))
    /\ \E s \in SrcPages(r) : file' = [file EXCEPT ![req[r].old] = Pdf(s)]
    /\ Goto(r, "srcText")
    /\ UNCHANGED <<store, ocr, sent>>

\* mutant: a failing copy of the PDF is ignored
SrcPdf_Swallow(r) ==
    /\ At(r, "srcPdf")
    /\ \/ /\ Readable(req[r].old, Range(Numbers(r)))
          /\ \E s \in SrcPages(r) : file' = [file EXCEPT ![req[r].new] = Pdf(s)]
       \/ /\ ~Readable(req[r].old, Range(Numbers(r)))
          /\ UNCHANGED file
    /\ Goto(r, "srcText")
    /\ UNCHANGED <<store, ocr, sent>>

\* the file is saved, then reuse_ocr_data runs (not in apply_pages_op)
SrcPdf(r) ==
    /\ At(r, "srcPdf")
    /\ \/ /\ Readable(req[r].old, Range(Numbers(r)))
          /\ \E s \in SrcPages(r) : file' = [file EXCEPT ![req[r].new] = Pdf(s)]
          /\ Goto(r, IF req[r].op # "apply" /\ ReuseOcrRaises(req[r].old, Kept(r))
                     THEN "error" ELSE "srcText")
          /\ UNCHANGED <<store, ocr, sent>>
       \/ /\ ~Readable(req[r].old, Range(Numbers(r)))
          /\ Raise(r)

SrcText(r) ==
    /\ At(r, "srcText")
    /\ CopyText(req[r].rows, IF req[r].op = "apply" THEN Chosen(r) ELSE Kept(r), req[r].new)
    /\ Goto(r, "srcNotify")
    /\ UNCHANGED <<live, unborn, nextVer, file, ocr, sent>>

\* mutant: add and remove swapped
VersionUpdate_Swapped(add, remove) ==
    {<<"index_add", remove>>, <<"index_remove", add>>,
     <<"s3_add", remove>>, <<"s3_remove", add>>}

\* notify_version_update
VersionUpdate(add, remove) ==
    {<<"index_add", add>>, <<"index_remove", remove>>,
     <<"s3_add", add>>, <<"s3_remove", remove>>}

SrcNotify(r) ==
    /\ At(r, "srcNotify")
    /\ Send(VersionUpdate(req[r].new, req[r].old))
    /\ Goto(r, CASE req[r].op = "apply" -> "done"
                 [] req[r].op \in MoveOps -> "dstRead"
                 [] OTHER -> "extRead")
    /\ UNCHANGED <<store, file, ocr>>

-----------------------------------------------------------------------------
(* The target side: move_pages_mix and move_pages_replace *)

\* the page of target_page_id, its version, and the last version of its document
DstRead(r) ==
    /\ At(r, "dstRead")
    /\ \/ ver[req[r].dst].doc = NoDoc /\ Raise(r)
       \/ ver[req[r].dst].doc # NoDoc /\ BumpRead(r, req[r].into, "dstInsert")

DstCount(r) == IF req[r].op = "mix"
               THEN req[r].dlen + Len(req[r].items)
               ELSE Len(req[r].items)

DstInsert(r) ==
    /\ At(r, "dstInsert")
    /\ \/ /\ req[r].into \in live
          /\ BumpInsert(r, req[r].into, DstCount(r))
          /\ req' = [req EXCEPT ![r].pc = "dstPdf", ![r].dnew = nextVer]
       \/ /\ req[r].into \notin live
          /\ Raise(r)

Moved(r) == [k \in DOMAIN req[r].todo |-> req[r].rows[req[r].todo[k]].number]
MovedPages(r) == [k \in DOMAIN Moved(r) |-> file[req[r].old].pages[Moved(r)[k]]]

\* insert_pdf_pages: the moved pages go before page number at of the target
DstPages(r) ==
    LET t == file[req[r].dst].pages
    IN  IF req[r].op = "replace" THEN MovedPages(r)
        ELSE SubSeq(t, 1, req[r].at - 1) \o MovedPages(r) \o SubSeq(t, req[r].at, Len(t))

DstReadable(r) ==
    /\ Readable(req[r].old, Range(Moved(r)))
    /\ req[r].op = "mix" => /\ file[req[r].dst].kind = "pdf"
                            /\ req[r].at <= Len(file[req[r].dst].pages) + 1

DstPdf(r) ==
    /\ At(r, "dstPdf")
    /\ \/ /\ DstReadable(r)
          /\ file' = [file EXCEPT ![req[r].dnew] = Pdf(DstPages(r))]
          /\ req' = [req EXCEPT ![r].out = {req[r].dnew},
                ![r].pc = CASE \/ ReuseOcrRaises(req[r].old, Range(req[r].todo))
                               \/ req[r].op = "mix" /\ ReuseOcrRaises(req[r].dst, {req[r].at})
                                  -> "error"
                            [] OTHER -> IF AllChosen(r) THEN "purge" ELSE "dstNotify"]
          /\ UNCHANGED <<store, ocr, sent>>
       \/ /\ ~DstReadable(r)
          /\ Raise(r)

DstNotify(r) ==
    /\ At(r, "dstNotify")
    /\ Send(VersionUpdate(req[r].dnew, req[r].dst))
    /\ Goto(r, "done")
    /\ UNCHANGED <<store, file, ocr>>

\* mutant: the delete statement is not committed
Purge_Uncommitted(r) ==
    /\ At(r, "purge")
    /\ Goto(r, "done")
    /\ UNCHANGED <<store, file, ocr, sent>>

\* all pages went elsewhere: the source document is deleted
Purge(r) ==
    /\ At(r, "purge")
    /\ DropDocument(req[r].doc)
    /\ Goto(r, "done")
    /\ UNCHANGED <<file, ocr, sent>>

-----------------------------------------------------------------------------
(* New documents: create_document and the target side of extract_pages *)

\* uuid.uuid4(): identities are interchangeable, so one unused one stands for all
FreshDoc == IF unborn = {} THEN {} ELSE {CHOOSE d \in unborn : TRUE}

\* create_document: the node and its version 1, without pages, in one commit
CreateDocument(d) ==
    /\ nextVer \in VerIds
    /\ d \in unborn
    /\ unborn' = unborn \ {d}
    /\ live' = live \cup {d}
    /\ ver' = [ver EXCEPT ![nextVer] = [NoVersion EXCEPT !.doc = d, !.number = 1]]
    /\ nextVer' = nextVer + 1

\* POST /nodes/ with ctype = document
Create(r) ==
    /\ MayBegin(r, "create")
    /\ \E d \in FreshDoc : CreateDocument(d)
    /\ req' = [req EXCEPT ![r] = [NoRequest EXCEPT !.op = "create", !.pc = "done"]]
    /\ UNCHANGED <<file, ocr, sent>>

\* the chosen pages are read again, ORDER BY number
ExtRead(r) ==
    /\ At(r, "extRead")
    /\ LET found == ver[req[r].old].doc # NoDoc
       IN  Goto(r, CASE found -> "extDoc"
                     [] ~found /\ req[r].op = "extract_one" -> "extNotify"
                     [] OTHER -> "error")
    /\ UNCHANGED <<store, file, ocr, sent>>

ExtDoc(r) ==
    /\ At(r, "extDoc")
    /\ \E d \in FreshDoc :
        /\ CreateDocument(d)
        /\ req' = [req EXCEPT ![r].pc = "extPages", ![r].cur = d,
                              ![r].made = @ \cup {d},
                              ![r].todo = IF @ = <<>> THEN req[r].items ELSE @]
    /\ UNCHANGED <<file, ocr, sent>>

\* mutant: only one page is copied
Batch_First(r) == <<Head(req[r].todo)>>

\* the rows that go into the document being filled
Batch(r) == IF req[r].op = "extract_one" THEN <<Head(req[r].todo)>> ELSE req[r].todo

\* version_bump_from_pages: the pages go into a version of size 0.  The version it
\* makes when there is none is never added to the session: its id is None, the
\* commit fails on the pages, and the callers raise on the None they get back.
FillTarget(d) == Highest(Unsized(d))

\* the file is saved and the rows are committed with no other handler in between
FillVersion(d, v, s) ==
    /\ file' = [file EXCEPT ![v] = Pdf(s)]
    /\ ver' = [ver EXCEPT ![v] =
                [doc |-> d, number |-> @.number,
                 count |-> Len(s), sized |-> TRUE, pages |-> @.pages \o FreshRows(Len(s))]]
    /\ UNCHANGED <<live, unborn, nextVer>>

ExtPages(r) ==
    LET n == [k \in DOMAIN Batch(r) |-> req[r].rows[Batch(r)[k]].number]
        ok == /\ req[r].cur \in live
              /\ Unsized(req[r].cur) # {}
              /\ Readable(req[r].old, Range(n))
    IN  /\ At(r, "extPages")
        /\ \/ /\ ok
              /\ \E v \in FillTarget(req[r].cur) :
                  /\ FillVersion(req[r].cur, v, [k \in DOMAIN n |-> file[req[r].old].pages[n[k]]])
                  /\ req' = [req EXCEPT ![r].out = @ \cup {v},
                        ![r].pc = IF req[r].op = "extract_one" /\ req[r].old \in ocr
                                  THEN "error" ELSE "extText"]
              /\ UNCHANGED <<ocr, sent>>
           \/ ~ok /\ Raise(r)

\* extract_to_multi_paged_doc passes the document where copy_text_field wants
\* the version: no page has that version id and no text is written
ExtText(r) ==
    /\ At(r, "extText")
    /\ \/ /\ req[r].op = "extract_one"
          /\ \E v \in VersionsOf(req[r].cur) :
                CopyText(req[r].rows, Range(Batch(r)), v)
          /\ req' = [req EXCEPT ![r].todo = Tail(@),
                        ![r].pc = IF Len(req[r].todo) = 1 THEN "extNotify" ELSE "extDoc"]
          /\ UNCHANGED <<live, unborn, nextVer>>
       \/ /\ req[r].op = "extract_one" /\ VersionsOf(req[r].cur) = {}
          /\ Goto(r, "error")
          /\ UNCHANGED store
       \/ /\ req[r].op = "extract_all"
          /\ Goto(r, "extNotify")
          /\ UNCHANGED store
    /\ UNCHANGED <<file, ocr, sent>>

\* notify_add_docs iterates over the coroutine get_docver_ids(...): TypeError,
\* after the index task and before the S3 task
ExtNotify(r) ==
    /\ At(r, "extNotify")
    /\ Send({<<"index_add_doc", d>> : d \in req[r].made})
    /\ Goto(r, CASE RedisPresent -> "error"
                 [] ~RedisPresent /\ AllChosen(r) -> "purge"
                 [] OTHER -> "done")
    /\ UNCHANGED <<store, file, ocr>>

-----------------------------------------------------------------------------
(* upload and delete_nodes *)

Pageless(d) == \A v \in VersionsOf(d) : ver[v].pages = <<>>

\* create_next_version: the last version of size 0, else a new one
NextVersion(unsized, fresh) ==
    IF unsized = {} THEN {fresh} \cap VerIds ELSE Highest(unsized)

\* an image takes two: the second call, for the PDF made from it, no longer finds
\* the version of the first (autoflush has written its size), but may find an
\* older one of size 0, and its file and rows are overwritten.  New versions are
\* both numbered len(doc.versions) + 1: the listing is cached in the session.
BeginUpload(r) ==
    \E op \in UploadOps :
    /\ MayBegin(r, op)
    /\ \E d \in live, c \in Uploads :
        /\ Reupload \/ Pageless(d)
        /\ \E v \in NextVersion(Unsized(d), nextVer) :
           LET next == IF v = nextVer THEN nextVer + 1 ELSE nextVer
           IN  \E w \in IF op = "upload_image" THEN NextVersion(Unsized(d) \ {v}, next)
                        ELSE {0} :
                  /\ nextVer' = IF w = next THEN next + 1 ELSE next
                  /\ req' = [req EXCEPT ![r] = [NoRequest EXCEPT
                                !.op = op, !.pc = "upFile", !.doc = d, !.up = c,
                                !.lnum = Cardinality(VersionsOf(d)), !.new = v, !.dnew = w]]
    /\ UNCHANGED <<live, unborn, ver, file, ocr, sent>>

\* mutant: the uploaded image itself is not stored
UpFile_PdfOnly(r) ==
    /\ At(r, "upFile")
    /\ file' = [file EXCEPT ![IF req[r].dnew = 0 THEN req[r].new ELSE req[r].dnew] = Pdf(req[r].up)]
    /\ Goto(r, "upCommit")
    /\ UNCHANGED <<store, ocr, sent>>

UpFile(r) ==
    /\ At(r, "upFile")
    /\ file' = IF req[r].dnew = 0
               THEN [file EXCEPT ![req[r].new] = Pdf(req[r].up)]
               ELSE [file EXCEPT ![req[r].new] = [kind |-> "image", pages |-> <<>>],
                                 ![req[r].dnew] = Pdf(req[r].up)]
    /\ Goto(r, "upCommit")
    /\ UNCHANGED <<store, ocr, sent>>

\* mutant: page_count of an existing version is not updated
UploadedVersion_OldCount(r, v) ==
    IF ver[v].doc = NoDoc
    THEN [doc |-> req[r].doc, number |-> req[r].lnum + 1, count |-> Len(req[r].up),
          sized |-> TRUE, pages |-> FreshRows(Len(req[r].up))]
    ELSE [ver[v] EXCEPT !.sized = TRUE, !.pages = @ \o FreshRows(Len(req[r].up))]

\* the version rows are inserted, or updated when the version existed
UploadedVersion(r, v) ==
    IF ver[v].doc = NoDoc
    THEN [doc |-> req[r].doc, number |-> req[r].lnum + 1, count |-> Len(req[r].up),
          sized |-> TRUE, pages |-> FreshRows(Len(req[r].up))]
    ELSE [ver[v] EXCEPT !.count = Len(req[r].up), !.sized = TRUE,
                        !.pages = @ \o FreshRows(Len(req[r].up))]

UpCommit(r) ==
    /\ At(r, "upCommit")
    /\ \/ /\ req[r].doc \in live
          /\ ver' = [v \in VerIds |-> IF v \in {req[r].new, req[r].dnew}
                                      THEN UploadedVersion(r, v) ELSE ver[v]]
          /\ Goto(r, "upNotify")
          /\ UNCHANGED <<live, unborn, nextVer, file, ocr, sent>>
       \/ /\ req[r].doc \notin live
          /\ Raise(r)

UpNotify(r) ==
    /\ At(r, "upNotify")
    /\ \/ /\ req[r].doc \in live
          /\ Send({<<"s3_add", v>> : v \in {req[r].new, req[r].dnew} \ {0}})
          /\ Goto(r, "done")
          /\ UNCHANGED <<store, file, ocr>>
       \/ /\ req[r].doc \notin live
          /\ Raise(r)

\* delete_nodes for one document: prepare_documents_s3_data_deletion joins the
\* versions with their pages
BeginDelete(r) ==
    /\ MayBegin(r, "delete")
    /\ \E d \in live :
        req' = [req EXCEPT ![r] = [NoRequest EXCEPT
                    !.op = "delete", !.pc = "delCommit", !.doc = d,
                    !.gone = {v \in VersionsOf(d) : ver[v].pages # <<>>}]]
    /\ UNCHANGED <<store, file, ocr, sent>>

DelCommit(r) ==
    /\ At(r, "delCommit")
    /\ DropDocument(req[r].doc)
    /\ Goto(r, "delNotify")
    /\ UNCHANGED <<file, ocr, sent>>

DelNotify(r) ==
    /\ At(r, "delNotify")
    /\ Send({<<"s3_remove", v>> : v \in req[r].gone})
    /\ Goto(r, "done")
    /\ UNCHANGED <<store, file, ocr>>

-----------------------------------------------------------------------------
(* The OCR worker and the process that runs the handlers *)

\* external: the worker recognises the pages of a version that have no text yet
OcrDone(v) ==
    LET rows == ver[v].pages
        f == file[v].pages
    IN  /\ "ocr" \in Ops
        /\ ver[v].doc # NoDoc /\ file[v].kind = "pdf"
        /\ \E i \in DOMAIN rows : rows[i].text = NULL /\ rows[i].number \in DOMAIN f
        /\ ver' = [ver EXCEPT ![v].pages = [i \in DOMAIN rows |->
                     IF rows[i].text = NULL /\ rows[i].number \in DOMAIN f
                     THEN [rows[i] EXCEPT !.text = f[rows[i].number]] ELSE rows[i]]]
        /\ ocr' = IF SharedMedia THEN ocr \cup {v} ELSE ocr
        /\ UNCHANGED <<live, unborn, nextVer, file, sent, req>>

Crash(r) ==
    /\ Crashes
    /\ req[r].pc \notin Stopped
    /\ Goto(r, "crashed")
    /\ UNCHANGED <<store, file, ocr, sent>>

(* The specification *)

\* each initial document was created and uploaded: one version, no text yet
Init ==
    /\ live = {Initial[i].doc : i \in DOMAIN Initial}
    /\ unborn = Docs \ live
    /\ ver = [v \in VerIds |->
                IF v \in DOMAIN Initial
                THEN [doc |-> Initial[v].doc, number |-> 1,
                      count |-> Len(Initial[v].pages), sized |-> TRUE,
                      pages |-> FreshRows(Len(Initial[v].pages))]
                ELSE NoVersion]
    /\ nextVer = Len(Initial) + 1
    /\ file = [v \in VerIds |->
                IF v \in DOMAIN Initial THEN Pdf(Initial[v].pages) ELSE NoFile]
    /\ ocr = {}
    /\ sent = {}
    /\ req = [r \in Reqs |-> NoRequest]

Begin(r) ==
    \/ BeginApply(r) \/ BeginMove(r) \/ BeginExtract(r)
    \/ Create(r) \/ BeginUpload(r) \/ BeginDelete(r)

\* the rest of a handler, once its request is accepted
Step(r) ==
    \/ SrcRead(r) \/ SrcInsert(r) \/ SrcPdf(r) \/ SrcText(r) \/ SrcNotify(r)
    \/ DstRead(r) \/ DstInsert(r) \/ DstPdf(r) \/ DstNotify(r) \/ Purge(r)
    \/ ExtRead(r) \/ ExtDoc(r) \/ ExtPages(r) \/ ExtText(r) \/ ExtNotify(r)
    \/ UpFile(r) \/ UpCommit(r) \/ UpNotify(r)
    \/ DelCommit(r) \/ DelNotify(r)

Next ==
    \/ \E r \in Reqs : Begin(r) \/ Step(r) \/ Crash(r)
    \/ \E v \in VerIds : OcrDone(v)

Spec == Init /\ [][Next]_vars

\* the event loop resumes every handler that can go on
FairSpec == Spec /\ \A r \in Reqs : WF_vars(Step(r))

-----------------------------------------------------------------------------
(* Properties *)

\* Types of all variables.
TypeOK ==
    /\ live \subseteq Docs
    /\ unborn \subseteq Docs \ live
    /\ ver \in [VerIds -> Version]
    /\ nextVer \in 1..(MaxVer + 1)
    /\ file \in [VerIds -> File]
    /\ ocr \subseteq VerIds
    /\ req \in [Reqs -> Request]

\* A task that copies a version to the S3 store is sent only after the file of
\* that version is on disk: the worker never finds the file missing.
AnnouncedWritten ==
    \A v \in VerIds : <<"s3_add", v>> \in sent => file[v].kind # "none"

\* The index and the S3 store are told to drop a version only when its document
\* has a newer one, or is gone: notify_version_update never removes the version
\* users see, however the requests interleave and whichever version they chose
\* pages from.
RemovedNotLast ==
    \A v \in VerIds :
        <<"index_remove", v>> \in sent /\ ver[v].doc # NoDoc =>
            \E w \in VersionsOf(ver[v].doc) : ver[w].number > ver[v].number

\* History is immutable: once the PDF of a version is written by a page
\* operation no other request changes it or its rows (version_bump gives every
\* request a version of its own), until the document is deleted.
HistoryImmutable ==
    [][\A v \in VerIds : file[v].kind # "none" =>
          /\ file'[v] = file[v]
          /\ ver'[v].doc # NoDoc => Len(ver'[v].pages) = Len(ver[v].pages)]_vars

\* A handler deletes the source document only after the files it made for the
\* target hold every page of the version the pages were moved or extracted from.
PurgeAfterCopy ==
    [][\A r \in Reqs : At(r, "purge") /\ req[r].doc \in live \ live' =>
          Range(file[req[r].old].pages) \subseteq
              UNION {Range(file[v].pages) : v \in req[r].out}]_vars

\* The text of a page is the text of the image the PDF shows at its number.
TextFollowsContent ==
    \A v \in VerIds : \A i \in DOMAIN ver[v].pages :
        LET row == ver[v].pages[i]
        IN  row.text \in Content /\ file[v].kind = "pdf" =>
                /\ row.number \in DOMAIN file[v].pages
                /\ file[v].pages[row.number] = row.text

\* The versions of a document are numbered 1, 2, ..., n: version_bump counts from
\* the last number, create_next_version from the number of versions, and the two
\* agree as long as one client works on the document at a time.
NumbersContiguous ==
    \A d \in live : {ver[v].number : v \in VersionsOf(d)} = 1..Cardinality(VersionsOf(d))

\* page images the user of r asked to drop: left out of the list of apply, on
\* the target of replace, in a deleted document
Dropped(r) ==
    CASE req[r].op = "apply" ->
            Range(file[req[r].old].pages) \
                {file[req[r].old].pages[n] : n \in Range(Numbers(r))}
      [] req[r].op = "replace" -> Range(file[req[r].dst].pages)
      [] req[r].op = "delete" -> UNION {Range(file[v].pages) : v \in req[r].gone}
      [] OTHER -> {}

\* No page gets lost: each page the system starts with was dropped by a user, or
\* is in the PDF of some version of a document that still exists.
PagesRecoverable ==
    \A i \in DOMAIN Initial : \A c \in Range(Initial[i].pages) :
        \/ \E r \in Reqs : c \in Dropped(r)
        \/ \E v \in VerIds : ver[v].doc \in live /\ c \in Range(file[v].pages)

\* When no handler is at work, the last version of a document has one row per
\* page of its PDF, and page_count says so (the viewer shows what is in the file).
LastVersionViewable ==
    (\A r \in Reqs : req[r].pc \in {"idle", "done"}) =>
        \A d \in live : \A v \in LastVersions(d) :
            /\ Len(ver[v].pages) = Len(file[v].pages)
            /\ ver[v].count = Len(ver[v].pages)

\* A version that records the size of its file is final: create_next_version and
\* version_bump_from_pages only fill versions of size 0.
SizedImmutable ==
    [][\A v \in VerIds : ver[v].sized =>
          /\ file'[v] = file[v]
          /\ ver'[v].doc # NoDoc => ver'[v].count = ver[v].count]_vars

\* A version that records a size has its file on disk, and page_count counts the
\* pages of that file, at whichever point an upload was cut off.
SizedDescribesFile ==
    \A v \in VerIds : ver[v].sized =>
        /\ file[v].kind # "none"
        /\ file[v].kind = "pdf" => ver[v].count = Len(file[v].pages)

\* A source whose pages were all moved or extracted disappears in the end.
EmptiedSourceGoes ==
    \A r \in Reqs :
        req[r].op \in MoveOps \cup ExtractOps /\ AllChosen(r) ~> req[r].doc \notin live

-----------------------------------------------------------------------------
(* What comments of the code say, and the code does not do *)

\* "Increment document version" (document/db/api.py:400): no two versions of a
\* document have the same number.
VersionNumbersDistinct ==
    \A d \in live : \A v, w \in VersionsOf(d) : ver[v].number = ver[w].number => v = w

\* "all source pages were extracted, document should be deleted as its last version
\* does not contain any page" (page_mngm/db/api.py:484).
ExtractedAllDeletes ==
    \A r \in Reqs :
        req[r].op \in ExtractOps /\ AllChosen(r) /\ req[r].pc \in {"done", "error"}
            => req[r].doc \notin live

=============================================================================
