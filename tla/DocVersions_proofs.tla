------------------------- MODULE DocVersions_proofs -------------------------
(***************************************************************************)
(* Theorems about DocVersions, for every value of its constants and         *)
(* whatever handlers interleave: the types, that what is announced to the   *)
(* S3 store is on disk, that what is removed from the index has a           *)
(* successor, and that without uploads what is written stays as it is.      *)
(***************************************************************************)
EXTENDS DocVersions, FiniteSetTheorems, SequenceTheorems, TLAPS

-----------------------------------------------------------------------------
(* Lemmas about the helpers *)

LEMMA SetOfPositions ==
    ASSUME NEW n \in Nat, NEW S \in SUBSET (1..n)
    PROVE  Cardinality(S) \in 0..n /\ (S # {} => Cardinality(S) # 0)
<1>1. IsFiniteSet(1..n) /\ Cardinality(1..n) = n
  BY FS_Interval
<1>2. IsFiniteSet(S) /\ Cardinality(S) <= n
  BY <1>1, FS_Subset
<1>3. QED
  BY <1>2, FS_CardinalityType, FS_EmptySet

LEMMA SeqOfFcn ==
    ASSUME NEW S, NEW n \in Nat, NEW f \in [1..n -> S]
    PROVE  f \in Seq(S) /\ Len(f) = n /\ DOMAIN f = 1..n
<1>1. f \in Seq(S)
  BY SeqDef
<1>2. DOMAIN f = 1..n
  OBVIOUS
<1>3. Len(f) = n
  BY <1>1, <1>2, LenProperties
<1>4. QED
  BY <1>1, <1>2, <1>3

LEMMA ByNumberType ==
    ASSUME NEW rows \in Seq(PageRow), NEW S \in SUBSET DOMAIN rows, NEW s \in ByNumber(rows, S)
    PROVE  s \in Seq(S) /\ Len(s) = Cardinality(S) /\ Len(s) \in 0..Len(rows)
<1>1. Cardinality(S) \in 0..Len(rows)
  BY SetOfPositions, LenProperties
<1>2. QED
  BY <1>1, SeqOfFcn DEF ByNumber

LEMMA InOrderType ==
    ASSUME NEW n \in Nat, NEW S \in SUBSET (1..n), NEW s \in InOrder(S)
    PROVE  s \in Seq(S) /\ Len(s) = Cardinality(S) /\ Len(s) \in 0..n
<1>1. Cardinality(S) \in 0..n
  BY SetOfPositions
<1>2. QED
  BY <1>1, SeqOfFcn DEF InOrder

LEMMA FreshRowsType ==
    ASSUME NEW n \in Nat
    PROVE  FreshRows(n) \in Seq(PageRow) /\ Len(FreshRows(n)) = n
<1>1. FreshRows(n) \in [1..n -> PageRow]
  BY DEF FreshRows, PageRow, Texts
<1>2. QED
  BY <1>1, SeqOfFcn

LEMMA TextOfType ==
    ASSUME NEW row \in PageRow
    PROVE  TextOf(row) \in Texts
BY DEF TextOf, PageRow, Texts

-----------------------------------------------------------------------------
(* The type invariant *)

Choosers == {"apply"} \cup MoveOps \cup ExtractOps

\* What the local variables of a handler hold at point pc.
LocalsAt(pc, q) ==
    /\ q.items \in Seq(DOMAIN q.rows) /\ Len(q.items) <= Len(q.rows)
    /\ q.todo \in Seq(DOMAIN q.rows)
    /\ pc \in SrcPcs \cup DstPcs \cup ExtPcs => q.old \in VerIds /\ q.items # <<>>
    /\ pc \in SrcPcs => q.op \in Choosers
    /\ pc \in DstPcs => q.op \in MoveOps
    /\ pc \in ExtPcs => q.op \in ExtractOps
    /\ pc \in SrcPcs \cup DstPcs /\ q.op \in MoveOps => q.dst \in VerIds /\ q.at # 0
    /\ pc \in {"srcPdf", "srcText", "srcNotify"} => q.new \in VerIds
    /\ pc \in {"dstPdf", "dstNotify"} => q.dnew \in VerIds
    /\ pc \in {"extPages", "extText"} => q.todo # <<>> /\ q.cur \in Docs

StoreType ==
    /\ live \subseteq Docs
    /\ unborn \subseteq Docs \ live
    /\ ver \in [VerIds -> Version]
    /\ nextVer \in 1..(MaxVer + 1)
    /\ file \in [VerIds -> File]
    /\ ocr \subseteq VerIds

TypeInv ==
    /\ StoreType
    /\ \A r \in Reqs : LocalsAt(req[r].pc, req[r])
    /\ req \in [Reqs -> Request]

LEMMA EmptySeqType == \A S : <<>> \in Seq(S) /\ Len(<<>>) = 0
BY EmptySeq

LEMMA NoRequestType ==
    /\ NoRequest \in Request
    /\ NoRequest.items = <<>> /\ NoRequest.rows = <<>> /\ NoRequest.todo = <<>>
    /\ NoRequest.pc = "idle"
<1>1. <<>> \in Seq(PageRow) /\ <<>> \in Seq(Nat) /\ <<>> \in Seq(Content)
  BY EmptySeqType
<1>2. NoRequest \in Request
  BY <1>1 DEF NoRequest, Request, Pcs, Stopped
<1>3. QED
  BY <1>2 DEF NoRequest

LEMMA InitType == Init => TypeInv
<1> SUFFICES ASSUME Init PROVE TypeInv
  OBVIOUS
<1> USE BoundsAssumption DEF Init
<1>0. MaxVer \in Nat /\ DOMAIN Initial = 1..Len(Initial) /\ Len(Initial) \in Nat
  BY InitialAssumption, LenProperties
<1>1. ASSUME NEW i \in DOMAIN Initial
      PROVE  Initial[i].doc \in Docs /\ Initial[i].pages \in Seq(Content)
  <2>1. Initial[i] \in [doc : Docs, pages : Seq(Content)]
    BY <1>0, InitialAssumption, ElementOfSeq
  <2>2. QED
    BY <2>1
<1>2. live \subseteq Docs /\ unborn \subseteq Docs \ live
  BY <1>1
<1>3. nextVer \in 1..(MaxVer + 1)
  BY <1>0
<1>4. <<>> \in Seq(PageRow) /\ <<>> \in Seq(Content)
  BY EmptySeqType
<1>5. ver \in [VerIds -> Version]
  <2>1. NoVersion \in Version
    BY <1>4 DEF NoVersion, Version
  <2>2. ASSUME NEW v \in VerIds, v \in DOMAIN Initial
        PROVE  [doc |-> Initial[v].doc, number |-> 1,
                count |-> Len(Initial[v].pages), sized |-> TRUE,
                pages |-> FreshRows(Len(Initial[v].pages))] \in Version
    <3>1. Len(Initial[v].pages) \in Nat
      BY <1>1, <2>2, LenProperties
    <3>2. QED
      BY <1>1, <2>2, <3>1, FreshRowsType DEF Version
  <2>3. QED
    BY <2>1, <2>2
<1>6. file \in [VerIds -> File]
  BY <1>1, <1>4 DEF File, Pdf, NoFile
<1>7. LocalsAt("idle", NoRequest)
  BY NoRequestType, EmptySeqType DEF LocalsAt, SrcPcs, DstPcs, ExtPcs
<1>8. QED
  BY <1>2, <1>3, <1>5, <1>6, <1>7, NoRequestType DEF TypeInv, StoreType

\* The step of one handler keeps the invariant if its own record stays good.
LEMMA RequestStep ==
    ASSUME TypeInv, NEW r \in Reqs, NEW q \in Request, LocalsAt(q.pc, q),
           req' = [req EXCEPT ![r] = q], StoreType'
    PROVE  TypeInv'
BY DEF TypeInv

LEMMA GotoStep ==
    ASSUME TypeInv, NEW r \in Reqs, NEW pc \in Pcs, Goto(r, pc), StoreType',
           LocalsAt(pc, req[r])
    PROVE  TypeInv'
<1> DEFINE q == [req[r] EXCEPT !.pc = pc]
<1>1. req[r] \in Request
  BY DEF TypeInv
<1>2. q \in Request
  BY <1>1 DEF Request
<1>3. /\ q.pc = pc /\ q.op = req[r].op /\ q.items = req[r].items /\ q.rows = req[r].rows
      /\ q.todo = req[r].todo /\ q.old = req[r].old /\ q.new = req[r].new
      /\ q.dst = req[r].dst /\ q.dnew = req[r].dnew /\ q.at = req[r].at
      /\ q.cur = req[r].cur
  BY <1>1 DEF Request
<1>4. LocalsAt(q.pc, q)
  BY <1>3 DEF LocalsAt
<1>5. req' = [req EXCEPT ![r] = q]
  BY DEF Goto
<1>6. QED
  BY <1>2, <1>4, <1>5, RequestStep

LEMMA StopStep ==
    ASSUME TypeInv, NEW r \in Reqs, Goto(r, "error") \/ Goto(r, "done") \/ Goto(r, "crashed"),
           StoreType'
    PROVE  TypeInv'
<1>1. ASSUME NEW pc \in {"error", "done", "crashed"}
      PROVE  pc \in Pcs /\ LocalsAt(pc, req[r])
  BY DEF TypeInv, LocalsAt, Pcs, Stopped, SrcPcs, DstPcs, ExtPcs
<1>2. QED
  BY <1>1, GotoStep

LEMMA RaiseStep ==
    ASSUME TypeInv, NEW r \in Reqs, Raise(r)
    PROVE  TypeInv'
BY StopStep DEF Raise, store, TypeInv, StoreType

-----------------------------------------------------------------------------
(* Types: what the parts shared by the handlers do to the store *)

LEMMA VersionsOfType ==
    ASSUME NEW d
    PROVE  Cardinality(VersionsOf(d)) \in Nat
BY SetOfPositions, BoundsAssumption DEF VersionsOf, VerIds

LEMMA BumpInsertType ==
    ASSUME TypeInv, NEW r \in Reqs, NEW d \in Docs, NEW count \in Nat,
           BumpInsert(r, d, count)
    PROVE  StoreType' /\ nextVer \in VerIds
<1>1. req[r] \in Request /\ StoreType
  BY DEF TypeInv
<1>2. BumpRows(r, count) \in Seq(PageRow)
  BY <1>1, FreshRowsType DEF BumpRows, Request
<1>3. BumpVersion(r, d, count) \in Version
  BY <1>1, <1>2 DEF BumpVersion, Version, Request
<1>4. nextVer' \in 1..(MaxVer + 1) /\ nextVer \in VerIds
  BY BoundsAssumption DEF BumpInsert, VerIds
<1>5. ver' \in [VerIds -> Version]
  BY <1>1, <1>3, <1>4 DEF BumpInsert, StoreType
<1>6. QED
  BY <1>1, <1>4, <1>5 DEF BumpInsert, StoreType

\* update_text_field changes nothing but texts.
LEMMA WriteTextType ==
    ASSUME StoreType, NEW v \in VerIds, NEW texts, WriteText(v, texts),
           \A k \in DOMAIN texts : texts[k] \in Texts
    PROVE  ver' \in [VerIds -> Version]
<1> DEFINE rows == ver[v].pages
<1>1. rows \in Seq(PageRow) /\ DOMAIN rows = 1..Len(rows) /\ Len(rows) \in Nat
  BY LenProperties DEF StoreType, Version
<1>2. PICK rank \in Ranking(rows) :
        ver' = [ver EXCEPT ![v].pages =
            [i \in DOMAIN rows |->
                IF rows[i].text = NULL /\ rank[i] \in DOMAIN texts
                THEN [rows[i] EXCEPT !.text = texts[rank[i]]]
                ELSE rows[i]]]
  BY DEF WriteText
<1> DEFINE new == [i \in DOMAIN rows |->
                IF rows[i].text = NULL /\ rank[i] \in DOMAIN texts
                THEN [rows[i] EXCEPT !.text = texts[rank[i]]]
                ELSE rows[i]]
<1>3. \A i \in DOMAIN rows : rows[i] \in PageRow
  BY <1>1, ElementOfSeq
<1>4. ASSUME NEW i \in DOMAIN rows PROVE new[i] \in PageRow
  BY <1>3 DEF PageRow
<1>5. new \in [1..Len(rows) -> PageRow]
  BY <1>1, <1>4
<1>6. new \in Seq(PageRow)
  BY <1>1, <1>5, SeqOfFcn
<1>7. ver' = [ver EXCEPT ![v] = [ver[v] EXCEPT !.pages = new]]
  BY <1>2
<1>8. [ver[v] EXCEPT !.pages = new] \in Version
  BY <1>6 DEF StoreType, Version
<1>9. QED
  BY <1>7, <1>8 DEF StoreType

LEMMA CopyTextType ==
    ASSUME StoreType, NEW v \in VerIds, NEW rows \in Seq(PageRow), NEW S \in SUBSET DOMAIN rows,
           CopyText(rows, S, v)
    PROVE  ver' \in [VerIds -> Version]
<1>1. PICK s \in ByNumber(rows, S) : WriteText(v, [k \in DOMAIN s |-> TextOf(rows[s[k]])])
  BY DEF CopyText
<1> DEFINE texts == [k \in DOMAIN s |-> TextOf(rows[s[k]])]
<1>2. ASSUME NEW k \in DOMAIN s PROVE TextOf(rows[s[k]]) \in Texts
  <2>1. s[k] \in DOMAIN rows
    BY <1>1 DEF ByNumber
  <2>2. rows[s[k]] \in PageRow
    BY <2>1, LenProperties, ElementOfSeq
  <2>3. QED
    BY <2>2, TextOfType
<1>3. \A k \in DOMAIN texts : texts[k] \in Texts
  BY <1>2
<1>4. WriteText(v, texts)
  BY <1>1
<1>5. QED
  BY <1>3, <1>4, WriteTextType

LEMMA DropDocumentType ==
    ASSUME StoreType, NEW d, DropDocument(d), UNCHANGED <<file, ocr>>
    PROVE  StoreType'
<1>1. NoVersion \in Version
  BY EmptySeqType DEF NoVersion, Version
<1>2. QED
  BY <1>1 DEF DropDocument, StoreType

LEMMA CreateDocumentType ==
    ASSUME StoreType, NEW d, CreateDocument(d), UNCHANGED <<file, ocr>>
    PROVE  StoreType' /\ d \in Docs
<1>1. [NoVersion EXCEPT !.doc = d, !.number = 1] \in Version
  BY EmptySeqType DEF NoVersion, Version, CreateDocument, StoreType
<1>2. ver' \in [VerIds -> Version]
  BY <1>1 DEF CreateDocument, StoreType
<1>3. nextVer' \in 1..(MaxVer + 1)
  BY BoundsAssumption DEF CreateDocument, VerIds
<1>4. QED
  BY <1>2, <1>3 DEF CreateDocument, StoreType

-----------------------------------------------------------------------------
(* Types: a request arrives *)

\* A list of pages chosen from rows.
LEMMA ItemsType ==
    ASSUME NEW rows \in Seq(PageRow), NEW S \in SUBSET DOMAIN rows, S # {},
           NEW items \in [1..Cardinality(S) -> S]
    PROVE  /\ items \in Seq(DOMAIN rows) /\ items \in Seq(Nat)
           /\ items # <<>> /\ Len(items) <= Len(rows)
<1>1. DOMAIN rows = 1..Len(rows) /\ Len(rows) \in Nat
  BY LenProperties
<1>2. Cardinality(S) \in 0..Len(rows) /\ Cardinality(S) # 0
  BY <1>1, SetOfPositions
<1>a. Cardinality(S) \in Nat
  BY <1>2
<1>3. items \in Seq(S) /\ Len(items) = Cardinality(S)
  BY <1>a, SeqOfFcn
<1>4. items \in Seq(DOMAIN rows) /\ items \in Seq(Nat)
  BY <1>1, <1>3, SeqMonotonic
<1>5. QED
  BY <1>1, <1>2, <1>3, <1>4, EmptySeqType

LEMMA ChoosableType ==
    ASSUME StoreType, NEW v \in Choosable
    PROVE  v \in VerIds /\ ver[v].doc \in Docs /\ ver[v].pages \in Seq(PageRow)
BY DEF Choosable, StoreType, Version

LEMMA SelectedType ==
    ASSUME TypeInv, NEW op \in Choosers, NEW v \in Choosable, NEW S \in Chosenable(v),
           NEW items \in [1..Cardinality(S) -> S]
    PROVE  LET q == Selected(op, v, items)
           IN  /\ q \in Request /\ q.pc = "srcRead" /\ q.op = op
               /\ q.items \in Seq(DOMAIN q.rows) /\ Len(q.items) <= Len(q.rows)
               /\ q.items # <<>> /\ q.old \in VerIds /\ q.todo = <<>>
<1>1. v \in VerIds /\ ver[v].doc \in Docs /\ ver[v].pages \in Seq(PageRow)
  BY ChoosableType DEF TypeInv
<1>2. S \in SUBSET DOMAIN ver[v].pages /\ S # {}
  BY DEF Chosenable
<1>3. /\ items \in Seq(DOMAIN ver[v].pages) /\ items \in Seq(Nat)
      /\ items # <<>> /\ Len(items) <= Len(ver[v].pages)
  BY <1>1, <1>2, ItemsType
<1>4. op \in Handlers /\ "srcRead" \in Pcs
  BY DEF Choosers, Handlers, Pcs, SrcPcs
<1>5. Selected(op, v, items) \in Request
  BY <1>1, <1>3, <1>4, NoRequestType DEF Selected, Request
<1>6. QED
  BY <1>1, <1>3, <1>5, NoRequestType DEF Selected, Request

\* A handler that only reads the source: apply and extract.
LEMMA SourceRequest ==
    ASSUME NEW q \in Request, q.pc = "srcRead", q.op \in Choosers \ MoveOps,
           q.items \in Seq(DOMAIN q.rows), Len(q.items) <= Len(q.rows),
           q.items # <<>>, q.old \in VerIds, q.todo = <<>>
    PROVE  LocalsAt(q.pc, q)
BY EmptySeqType DEF LocalsAt, SrcPcs, DstPcs, ExtPcs

LEMMA BeginApplyType ==
    ASSUME TypeInv, NEW r \in Reqs, BeginApply(r)
    PROVE  TypeInv'
<1>1. PICK v \in Choosable :
        \E S \in Chosenable(v) : \E items \in [1..Cardinality(S) -> S] :
            req' = [req EXCEPT ![r] = Selected("apply", v, items)]
  BY Zenon DEF BeginApply, InOrder, Bijection, Injection
<1>2. PICK S \in Chosenable(v) : \E items \in [1..Cardinality(S) -> S] :
            req' = [req EXCEPT ![r] = Selected("apply", v, items)]
  BY <1>1
<1>3. PICK items \in [1..Cardinality(S) -> S] :
            req' = [req EXCEPT ![r] = Selected("apply", v, items)]
  BY <1>2
<1> DEFINE q == Selected("apply", v, items)
<1>4. "apply" \in Choosers \ MoveOps
  BY DEF Choosers, MoveOps
<1>5. q \in Request /\ LocalsAt(q.pc, q)
  BY <1>4, SelectedType, SourceRequest
<1>6. QED
  BY <1>3, <1>5, RequestStep DEF BeginApply, store, TypeInv, StoreType

LEMMA BeginExtractType ==
    ASSUME TypeInv, NEW r \in Reqs, BeginExtract(r)
    PROVE  TypeInv'
<1>1. PICK op \in ExtractOps, v \in Choosable :
        \E S \in Chosenable(v) : \E items \in [1..Cardinality(S) -> S] :
            req' = [req EXCEPT ![r] = Selected(op, v, items)]
  BY Zenon DEF BeginExtract, ByNumber
<1>2. PICK S \in Chosenable(v) : \E items \in [1..Cardinality(S) -> S] :
            req' = [req EXCEPT ![r] = Selected(op, v, items)]
  BY <1>1
<1>3. PICK items \in [1..Cardinality(S) -> S] :
            req' = [req EXCEPT ![r] = Selected(op, v, items)]
  BY <1>2
<1> DEFINE q == Selected(op, v, items)
<1>4. op \in Choosers \ MoveOps
  BY DEF Choosers, MoveOps, ExtractOps
<1>5. q \in Request /\ LocalsAt(q.pc, q)
  BY <1>4, SelectedType, SourceRequest
<1>6. QED
  BY <1>3, <1>5, RequestStep DEF BeginExtract, store, TypeInv, StoreType

LEMMA BeginMoveType ==
    ASSUME TypeInv, NEW r \in Reqs, BeginMove(r)
    PROVE  TypeInv'
<1>1. PICK op \in MoveOps :
        \E v, w \in Choosable :
        \E S \in Chosenable(v), i \in DOMAIN ver[w].pages :
        \E items \in ByNumber(ver[v].pages, S) :
          /\ SameDocMove \/ ver[v].doc # ver[w].doc
          /\ req' = [req EXCEPT ![r] = Targeted(Selected(op, v, items), w, i)]
  BY DEF BeginMove
<1>2. PICK v, w \in Choosable :
        \E S \in Chosenable(v), i \in DOMAIN ver[w].pages :
        \E items \in ByNumber(ver[v].pages, S) :
          req' = [req EXCEPT ![r] = Targeted(Selected(op, v, items), w, i)]
  BY <1>1
<1>3. PICK S \in Chosenable(v), i \in DOMAIN ver[w].pages :
        \E items \in ByNumber(ver[v].pages, S) :
          req' = [req EXCEPT ![r] = Targeted(Selected(op, v, items), w, i)]
  BY <1>2
<1>a. PICK items \in ByNumber(ver[v].pages, S) :
          req' = [req EXCEPT ![r] = Targeted(Selected(op, v, items), w, i)]
  BY <1>3
<1>b. items \in [1..Cardinality(S) -> S]
  BY DEF ByNumber
<1> DEFINE p == Selected(op, v, items)
<1>4. op \in Choosers
  BY DEF Choosers
<1>5. /\ p \in Request /\ p.pc = "srcRead" /\ p.op = op
      /\ p.items \in Seq(DOMAIN p.rows) /\ Len(p.items) <= Len(p.rows)
      /\ p.items # <<>> /\ p.old \in VerIds /\ p.todo = <<>>
  BY <1>4, <1>b, SelectedType
<1> HIDE DEF p
<1> DEFINE q == Targeted(p, w, i)
<1>6. w \in VerIds /\ ver[w].doc \in Docs /\ ver[w].pages \in Seq(PageRow)
  BY ChoosableType DEF TypeInv
<1>7. ver[w].pages[i].number \in Nat \ {0}
  <2>1. ver[w].pages[i] \in PageRow
    BY <1>6, LenProperties, ElementOfSeq
  <2>2. QED
    BY <2>1 DEF PageRow
<1>8. /\ q \in Request /\ q.pc = "srcRead" /\ q.op = op /\ q.items = p.items
      /\ q.rows = p.rows /\ q.old = p.old /\ q.todo = <<>> /\ q.dst = w
      /\ q.at = ver[w].pages[i].number
  BY <1>5, <1>6, <1>7 DEF Targeted, Request
<1>9. LocalsAt(q.pc, q)
  BY <1>4, <1>5, <1>6, <1>7, <1>8, EmptySeqType DEF LocalsAt, SrcPcs, DstPcs, ExtPcs
<1>10. req' = [req EXCEPT ![r] = q]
  BY <1>a DEF p
<1>11. QED
  BY <1>8, <1>9, <1>10, RequestStep DEF BeginMove, store, TypeInv, StoreType

LEMMA NoItems ==
    ASSUME NEW q, NEW pc \in Stopped \cup UpPcs \cup DelPcs,
           q.items = <<>>, q.rows = <<>>, q.todo = <<>>
    PROVE  LocalsAt(pc, q)
<1>1. <<>> \in Seq(DOMAIN <<>>)
  BY EmptySeqType
<1>2. pc \notin SrcPcs \cup DstPcs \cup ExtPcs
  BY DEF Stopped, UpPcs, DelPcs, SrcPcs, DstPcs, ExtPcs
<1>3. Len(<<>>) <= Len(<<>>)
  BY SMTT(30), EmptySeqType
<1>4. QED
  BY <1>1, <1>2, <1>3 DEF LocalsAt, SrcPcs, DstPcs, ExtPcs

LEMMA BeginDeleteType ==
    ASSUME TypeInv, NEW r \in Reqs, BeginDelete(r)
    PROVE  TypeInv'
<1>1. PICK d \in live :
        req' = [req EXCEPT ![r] = [NoRequest EXCEPT
                    !.op = "delete", !.pc = "delCommit", !.doc = d,
                    !.gone = {v \in VersionsOf(d) : ver[v].pages # <<>>}]]
  BY DEF BeginDelete
<1> DEFINE gone == {v \in VersionsOf(d) : ver[v].pages # <<>>}
           q == [NoRequest EXCEPT !.op = "delete", !.pc = "delCommit", !.doc = d, !.gone = gone]
<1>2. gone \in SUBSET VerIds /\ d \in Docs
  BY DEF VersionsOf, TypeInv, StoreType
<1>3. q \in Request
  BY ZenonT(40), <1>2, NoRequestType DEF Request, Handlers, Pcs, DelPcs
<1>4. q.pc = "delCommit" /\ q.items = <<>> /\ q.rows = <<>> /\ q.todo = <<>>
  BY NoRequestType DEF Request
<1>5. LocalsAt(q.pc, q)
  BY <1>4, NoItems DEF Stopped, UpPcs, DelPcs
<1>6. QED
  BY ZenonT(40), <1>1, <1>3, <1>5, RequestStep DEF BeginDelete, store, TypeInv, StoreType

\* what an upload begins with: versions of size 0 of its document and new ones
BegunUpload(r, op, d, c, v, w) ==
    /\ op \in Ops
    /\ req' = [req EXCEPT ![r] = [NoRequest EXCEPT
                    !.op = op, !.pc = "upFile", !.doc = d, !.up = c,
                    !.lnum = Cardinality(VersionsOf(d)), !.new = v, !.dnew = w]]
    /\ v \in Unsized(d) \/ (v = nextVer /\ v < nextVer')
    /\ w # 0 => /\ op = "upload_image" /\ w # v
                /\ w \in Unsized(d) \/ (w >= nextVer /\ w < nextVer')

\* An upload holds versions of size 0 of its document and new ones, each once.
LEMMA BeginUploadChoice ==
    ASSUME TypeInv, NEW r \in Reqs, BeginUpload(r)
    PROVE  /\ UNCHANGED <<live, unborn, ver, file, ocr, sent>>
           /\ nextVer' \in 1..(MaxVer + 1) /\ nextVer <= nextVer'
           /\ \E op \in UploadOps, d \in live, c \in Uploads, v \in VerIds, w \in VerIds \cup {0} :
                 BegunUpload(r, op, d, c, v, w)
<1> DEFINE after(v) == IF v = nextVer THEN nextVer + 1 ELSE nextVer
           chosen(op, d, c, v, w) ==
               req' = [req EXCEPT ![r] = [NoRequest EXCEPT
                            !.op = op, !.pc = "upFile", !.doc = d, !.up = c,
                            !.lnum = Cardinality(VersionsOf(d)), !.new = v, !.dnew = w]]
<1>0. PICK op \in UploadOps, d \in live, c \in Uploads :
        /\ op \in Ops
        /\ \E v \in NextVersion(Unsized(d), nextVer) :
           \E w \in IF op = "upload_image" THEN NextVersion(Unsized(d) \ {v}, after(v)) ELSE {0} :
              /\ nextVer' = IF w = after(v) THEN after(v) + 1 ELSE after(v)
              /\ chosen(op, d, c, v, w)
  BY Zenon DEF BeginUpload, MayBegin
<1> HIDE DEF chosen
<1>1. PICK v \in NextVersion(Unsized(d), nextVer) :
        /\ op \in Ops
        /\ \E w \in IF op = "upload_image" THEN NextVersion(Unsized(d) \ {v}, after(v)) ELSE {0} :
              /\ nextVer' = IF w = after(v) THEN after(v) + 1 ELSE after(v)
              /\ chosen(op, d, c, v, w)
  BY <1>0
<1>2. PICK w \in IF op = "upload_image" THEN NextVersion(Unsized(d) \ {v}, after(v)) ELSE {0} :
              /\ nextVer' = IF w = after(v) THEN after(v) + 1 ELSE after(v)
              /\ chosen(op, d, c, v, w)
  BY <1>1
<1>3. /\ nextVer \in Nat \ {0} /\ MaxVer \in Nat /\ nextVer <= MaxVer + 1
      /\ Unsized(d) \subseteq VerIds /\ VerIds = 1..MaxVer
  BY BoundsAssumption DEF TypeInv, StoreType, Unsized, VersionsOf, VerIds
<1>4. /\ v \in VerIds
      /\ v \in Unsized(d) \/ v = nextVer
      /\ v = nextVer => nextVer + 1 <= MaxVer + 1
  BY <1>1, <1>3 DEF NextVersion, Highest
<1>5. w # 0 => /\ op = "upload_image" /\ w \in VerIds /\ w # v
               /\ w \in Unsized(d) \/ w = after(v)
  BY <1>2, <1>3, <1>4 DEF NextVersion, Highest
<1>6. /\ after(v) \in Nat /\ nextVer <= after(v) /\ after(v) <= MaxVer + 1
      /\ v = nextVer => v < after(v)
  BY <1>3, <1>4
<1> HIDE DEF after
<1>7. nextVer' \in 1..(MaxVer + 1) /\ nextVer <= nextVer' /\ after(v) <= nextVer'
  BY <1>2, <1>3, <1>5, <1>6
<1>8. v \in Unsized(d) \/ (v = nextVer /\ v < nextVer')
  BY <1>3, <1>4, <1>6, <1>7
<1>9. w # 0 => w \in Unsized(d) \/ (w >= nextVer /\ w < nextVer')
  BY <1>2, <1>3, <1>5, <1>6
<1>10. UNCHANGED <<live, unborn, ver, file, ocr, sent>>
  BY DEF BeginUpload
<1>11. w \in VerIds \cup {0}
  BY <1>5
<1>12. BegunUpload(r, op, d, c, v, w)
  <2>1. /\ op \in Ops /\ chosen(op, d, c, v, w)
        /\ v \in Unsized(d) \/ (v = nextVer /\ v < nextVer')
        /\ w # 0 => /\ op = "upload_image" /\ w # v
                    /\ w \in Unsized(d) \/ (w >= nextVer /\ w < nextVer')
    BY <1>1, <1>2, <1>5, <1>8, <1>9, Zenon
  <2>2. QED
    BY <2>1, Zenon DEF chosen, BegunUpload
<1>13. QED
  BY <1>4, <1>7, <1>10, <1>11, <1>12, Zenon

LEMMA BeginUploadType ==
    ASSUME TypeInv, NEW r \in Reqs, BeginUpload(r)
    PROVE  TypeInv'
<1>0. PICK op \in UploadOps, d \in live, c \in Uploads, v \in VerIds, w \in VerIds \cup {0} :
        BegunUpload(r, op, d, c, v, w)
  BY BeginUploadChoice, Zenon
<1>1.   req' = [req EXCEPT ![r] = [NoRequest EXCEPT
                            !.op = op, !.pc = "upFile", !.doc = d, !.up = c,
                            !.lnum = Cardinality(VersionsOf(d)), !.new = v, !.dnew = w]]
  BY <1>0, Zenon DEF BegunUpload
<1>2. v \in Nat /\ w \in Nat
  BY DEF VerIds
<1>3. StoreType'
  BY BeginUploadChoice DEF TypeInv, StoreType
<1> DEFINE q == [NoRequest EXCEPT
                            !.op = op, !.pc = "upFile", !.doc = d, !.up = c,
                            !.lnum = Cardinality(VersionsOf(d)), !.new = v, !.dnew = w]
<1>4. op \in Handlers /\ d \in Docs /\ c \in Seq(Content) /\ Cardinality(VersionsOf(d)) \in Nat
  BY VersionsOfType, UploadsAssumption DEF Handlers, TypeInv, StoreType
<1>5. q \in Request
  BY <1>2, <1>4, NoRequestType DEF Request, Pcs, UpPcs
<1>6. q.pc = "upFile" /\ q.items = <<>> /\ q.rows = <<>> /\ q.todo = <<>>
  BY NoRequestType DEF Request
<1>7. LocalsAt(q.pc, q)
  BY <1>6, NoItems DEF UpPcs
<1>8. QED
  BY <1>1, <1>3, <1>5, <1>7, RequestStep

LEMMA CreateType ==
    ASSUME TypeInv, NEW r \in Reqs, Create(r)
    PROVE  TypeInv'
<1> DEFINE q == [NoRequest EXCEPT !.op = "create", !.pc = "done"]
<1>1. q \in Request
  BY ZenonT(40), NoRequestType DEF Request, Handlers, Pcs, Stopped
<1>2. q.pc = "done" /\ q.items = <<>> /\ q.rows = <<>> /\ q.todo = <<>>
  BY NoRequestType DEF Request
<1>3. LocalsAt(q.pc, q)
  BY <1>2, NoItems DEF Stopped, UpPcs, DelPcs
<1>4. StoreType'
  BY CreateDocumentType DEF Create, TypeInv
<1>5. QED
  BY <1>1, <1>3, <1>4, RequestStep DEF Create

-----------------------------------------------------------------------------
(* Types: the source side *)

LEMMA LocalsOf ==
    ASSUME TypeInv, NEW r \in Reqs
    PROVE  /\ req[r] \in Request
           /\ LocalsAt(req[r].pc, req[r])
           /\ StoreType
BY DEF TypeInv

\* version_bump writes three local variables.
LEMMA BumpReadType ==
    ASSUME TypeInv, NEW r \in Reqs, NEW d, NEW next \in Pcs, BumpRead(r, d, next),
           next \notin ExtPcs, LocalsAt(next, req[r])
    PROVE  TypeInv'
<1>1. CASE Raise(r)
  BY <1>1, RaiseStep
<1>2. ASSUME NEW v \in LastVersions(d),
             req' = [req EXCEPT ![r].pc = next,
                              ![r].lnum = ver[v].number, ![r].lcount = ver[v].count,
                              ![r].dlen = IF req[r].dst = 0 THEN 0
                                          ELSE Len(ver[req[r].dst].pages),
                              ![r].todo = IF ver[req[r].old].doc = NoDoc THEN <<>>
                                          ELSE req[r].items],
             UNCHANGED <<store, file, ocr, sent>>
      PROVE  TypeInv'
  <2> DEFINE dlen == IF req[r].dst = 0 THEN 0 ELSE Len(ver[req[r].dst].pages)
             todo == IF ver[req[r].old].doc = NoDoc THEN <<>> ELSE req[r].items
             q == [req[r] EXCEPT !.pc = next, !.lnum = ver[v].number,
                                 !.lcount = ver[v].count, !.dlen = dlen, !.todo = todo]
  <2>1. req[r] \in Request /\ StoreType
    BY LocalsOf
  <2>2. v \in VerIds
    BY <1>2 DEF LastVersions, Highest, VersionsOf
  <2>3. ver[v].number \in Nat /\ ver[v].count \in Nat
    BY <2>1, <2>2 DEF StoreType, Version
  <2>4. dlen \in Nat
    <3>1. CASE req[r].dst = 0
      BY <3>1
    <3>2. CASE req[r].dst # 0
      <4>1. req[r].dst \in VerIds
        BY <2>1, <3>2 DEF Request
      <4>2. ver[req[r].dst].pages \in Seq(PageRow)
        BY <2>1, <4>1 DEF StoreType, Version
      <4>3. QED
        BY <3>2, <4>2, LenProperties
    <3>3. QED
      BY <3>1, <3>2
  <2>5. req' = [req EXCEPT ![r] = q]
    BY <1>2
  <2>0. todo \in Seq(DOMAIN req[r].rows) /\ todo \in Seq(Nat)
    BY <2>1, LocalsOf, EmptySeqType DEF Request, LocalsAt
  <2> HIDE DEF dlen, todo
  <2>6. q \in Request
    BY <2>0, <2>1, <2>3, <2>4 DEF Request
  <2>7. /\ q.pc = next /\ q.op = req[r].op /\ q.items = req[r].items /\ q.rows = req[r].rows
        /\ q.todo = todo /\ q.old = req[r].old /\ q.new = req[r].new
        /\ q.dst = req[r].dst /\ q.dnew = req[r].dnew /\ q.at = req[r].at
        /\ q.cur = req[r].cur
    BY <2>1 DEF Request
  <2>8. LocalsAt(q.pc, q)
    BY <2>0, <2>7 DEF LocalsAt, ExtPcs
  <2>9. QED
    BY <1>2, <2>1, <2>5, <2>6, <2>8, RequestStep DEF store, StoreType
<1>3. QED
  BY <1>1, <1>2, Zenon DEF BumpRead

LEMMA SrcReadType ==
    ASSUME TypeInv, NEW r \in Reqs, SrcRead(r)
    PROVE  TypeInv'
<1>1. LocalsAt("srcInsert", req[r])
  BY LocalsOf DEF SrcRead, At, LocalsAt, SrcPcs, DstPcs, ExtPcs
<1>2. QED
  BY <1>1, BumpReadType DEF SrcRead, Pcs, SrcPcs, ExtPcs

LEMMA SrcInsertType ==
    ASSUME TypeInv, NEW r \in Reqs, SrcInsert(r)
    PROVE  TypeInv'
<1>1. CASE Raise(r)
  BY <1>1, RaiseStep
<1>2. CASE /\ req[r].doc \in live
           /\ BumpInsert(r, req[r].doc, SrcCount(r))
           /\ req' = [req EXCEPT ![r].pc = "srcPdf", ![r].new = nextVer]
  <2> DEFINE q == [req[r] EXCEPT !.pc = "srcPdf", !.new = nextVer]
  <2>1. req[r] \in Request /\ LocalsAt("srcInsert", req[r]) /\ StoreType
    BY LocalsOf DEF SrcInsert, At
  <2>2. SrcCount(r) \in Nat
    <3>1. /\ Len(req[r].items) \in Nat /\ Len(req[r].rows) \in Nat
          /\ Len(req[r].items) <= Len(req[r].rows)
      BY <2>1, LenProperties DEF LocalsAt, Request
    <3>2. QED
      BY <3>1 DEF SrcCount
  <2>3. StoreType' /\ nextVer \in VerIds
    BY <1>2, <2>1, <2>2, BumpInsertType DEF StoreType
  <2>a. nextVer \in Nat /\ "srcPdf" \in Pcs
    BY <2>3 DEF VerIds, Pcs, SrcPcs
  <2>4. q \in Request
    BY <2>1, <2>a DEF Request
  <2>5. /\ q.pc = "srcPdf" /\ q.op = req[r].op /\ q.items = req[r].items
        /\ q.rows = req[r].rows /\ q.todo = req[r].todo /\ q.old = req[r].old
        /\ q.new = nextVer /\ q.dst = req[r].dst /\ q.at = req[r].at
    BY <2>1 DEF Request
  <2>6. LocalsAt(q.pc, q)
    BY <2>1, <2>3, <2>5 DEF LocalsAt, SrcPcs, DstPcs, ExtPcs
  <2>7. req' = [req EXCEPT ![r] = q]
    BY <1>2
  <2>8. QED
    BY <2>3, <2>4, <2>6, <2>7, RequestStep
<1>3. QED
  BY <1>1, <1>2, Zenon DEF SrcInsert

\* The numbers of the chosen pages.
LEMMA NumbersType ==
    ASSUME TypeInv, NEW r \in Reqs
    PROVE  /\ DOMAIN Numbers(r) = 1..Len(req[r].items) /\ Len(req[r].items) \in Nat
           /\ \A k \in DOMAIN Numbers(r) : Numbers(r)[k] \in Nat
<1>1. req[r] \in Request /\ LocalsAt(req[r].pc, req[r])
  BY LocalsOf
<1>2. /\ req[r].items \in Seq(DOMAIN req[r].rows) /\ req[r].rows \in Seq(PageRow)
      /\ DOMAIN req[r].items = 1..Len(req[r].items) /\ Len(req[r].items) \in Nat
      /\ DOMAIN req[r].rows = 1..Len(req[r].rows)
  BY <1>1, LenProperties DEF LocalsAt, Request
<1>3. ASSUME NEW k \in DOMAIN req[r].items
      PROVE  req[r].rows[req[r].items[k]].number \in Nat
  <2>1. req[r].items[k] \in DOMAIN req[r].rows
    BY <1>2, ElementOfSeq
  <2>2. req[r].rows[req[r].items[k]] \in PageRow
    BY <1>2, <2>1, ElementOfSeq
  <2>3. QED
    BY <2>2 DEF PageRow
<1>4. QED
  BY <1>2, <1>3 DEF Numbers

\* The pages of a PDF at the given numbers.
LEMMA PickedPages ==
    ASSUME NEW f \in Seq(Content), NEW n, NEW m \in Nat, DOMAIN n = 1..m,
           Range(n) \subseteq 1..Len(f)
    PROVE  [k \in DOMAIN n |-> f[n[k]]] \in Seq(Content)
<1>1. ASSUME NEW k \in DOMAIN n PROVE f[n[k]] \in Content
  <2>1. n[k] \in 1..Len(f)
    BY DEF Range
  <2>2. QED
    BY <2>1, ElementOfSeq
<1>2. [k \in DOMAIN n |-> f[n[k]]] \in [1..m -> Content]
  BY <1>1
<1>3. QED
  BY <1>2, SeqOfFcn

LEMMA SrcPagesType ==
    ASSUME TypeInv, NEW r \in Reqs, req[r].old \in VerIds,
           Readable(req[r].old, Range(Numbers(r)))
    PROVE  \A s \in SrcPages(r) : s \in Seq(Content)
<1> DEFINE f == file[req[r].old].pages
           n == Numbers(r)
<1>1. f \in Seq(Content) /\ DOMAIN f = 1..Len(f) /\ Len(f) \in Nat
  BY LenProperties DEF TypeInv, StoreType, File
<1>2. Range(n) \subseteq 1..Len(f)
  BY DEF Readable
<1>3. DOMAIN n = 1..Len(req[r].items) /\ Len(req[r].items) \in Nat
  BY NumbersType
<1> HIDE DEF f, n
<1>4. [k \in DOMAIN n |-> f[n[k]]] \in Seq(Content)
  BY <1>1, <1>2, <1>3, PickedPages
<1>5. ASSUME NEW s \in InOrder(DOMAIN f \ Range(n))
      PROVE  [k \in DOMAIN s |-> f[s[k]]] \in Seq(Content)
  <2> DEFINE S == DOMAIN f \ Range(n)
  <2>1. S \in SUBSET (1..Len(f))
    BY <1>1
  <2>2. Cardinality(S) \in Nat
    BY <1>1, <2>1, SetOfPositions
  <2>3. s \in [1..Cardinality(S) -> S]
    BY DEF InOrder
  <2>4. DOMAIN s = 1..Cardinality(S) /\ Range(s) \subseteq 1..Len(f)
    BY <2>1, <2>3 DEF Range
  <2>5. QED
    BY <1>1, <2>2, <2>4, PickedPages
<1>6. SrcPages(r) = IF req[r].op = "apply"
        THEN {[k \in DOMAIN n |-> f[n[k]]]}
        ELSE {[k \in DOMAIN s |-> f[s[k]]] : s \in InOrder(DOMAIN f \ Range(n))}
  BY DEF SrcPages, f, n
<1>7. CASE req[r].op = "apply"
  BY <1>4, <1>6, <1>7
<1>8. CASE req[r].op # "apply"
  <2>1. SrcPages(r) = {[k \in DOMAIN s |-> f[s[k]]] : s \in InOrder(DOMAIN f \ Range(n))}
    BY <1>6, <1>8
  <2>2. QED
    BY <1>5, <2>1
<1>9. QED
  BY <1>7, <1>8

LEMMA FileType ==
    ASSUME StoreType, NEW v, NEW s \in Seq(Content), file' = [file EXCEPT ![v] = Pdf(s)],
           UNCHANGED <<store, ocr>>
    PROVE  StoreType'
BY DEF StoreType, store, File, Pdf

LEMMA SrcPdfType ==
    ASSUME TypeInv, NEW r \in Reqs, SrcPdf(r)
    PROVE  TypeInv'
<1>1. CASE Raise(r)
  BY <1>1, RaiseStep
<1>2. CASE /\ Readable(req[r].old, Range(Numbers(r)))
           /\ \E s \in SrcPages(r) : file' = [file EXCEPT ![req[r].new] = Pdf(s)]
           /\ Goto(r, "error") \/ Goto(r, "srcText")
           /\ UNCHANGED <<store, ocr, sent>>
  <2>1. LocalsAt("srcPdf", req[r]) /\ StoreType
    BY LocalsOf DEF SrcPdf, At
  <2>2. req[r].old \in VerIds
    BY <2>1 DEF LocalsAt, SrcPcs
  <2>3. StoreType'
    BY <1>2, <2>1, <2>2, SrcPagesType, FileType
  <2>4. LocalsAt("srcText", req[r])
    BY <2>1 DEF LocalsAt, SrcPcs, DstPcs, ExtPcs
  <2>5. QED
    BY <1>2, <2>3, <2>4, StopStep, GotoStep DEF Pcs, SrcPcs
<1>3. QED
  BY <1>1, <1>2 DEF SrcPdf

LEMMA SrcTextType ==
    ASSUME TypeInv, NEW r \in Reqs, SrcText(r)
    PROVE  TypeInv'
<1>1. req[r] \in Request /\ LocalsAt("srcText", req[r]) /\ StoreType
  BY LocalsOf DEF SrcText, At
<1>2. req[r].new \in VerIds /\ req[r].rows \in Seq(PageRow)
  BY <1>1 DEF LocalsAt, Request
<1> DEFINE S == IF req[r].op = "apply" THEN Chosen(r) ELSE Kept(r)
<1>3. S \in SUBSET DOMAIN req[r].rows
  <2>1. Range(req[r].items) \in SUBSET DOMAIN req[r].rows
    BY <1>1, RangeOfSeq DEF LocalsAt
  <2>2. QED
    BY <2>1 DEF Chosen, Kept
<1>4. CopyText(req[r].rows, S, req[r].new)
  BY DEF SrcText
<1> HIDE DEF S
<1>5. ver' \in [VerIds -> Version]
  BY <1>1, <1>2, <1>3, <1>4, CopyTextType
<1>6. StoreType'
  BY <1>1, <1>5 DEF SrcText, StoreType
<1>7. LocalsAt("srcNotify", req[r])
  BY <1>1 DEF LocalsAt, SrcPcs, DstPcs, ExtPcs
<1>8. QED
  BY <1>6, <1>7, GotoStep DEF SrcText, Pcs, SrcPcs

LEMMA SrcNotifyType ==
    ASSUME TypeInv, NEW r \in Reqs, SrcNotify(r)
    PROVE  TypeInv'
<1>1. LocalsAt("srcNotify", req[r]) /\ StoreType'
  BY LocalsOf DEF SrcNotify, At, store, StoreType
<1>2. req[r].op \in Choosers
  BY <1>1 DEF LocalsAt, SrcPcs
<1>3. CASE req[r].op = "apply"
  <2>1. Goto(r, "done")
    BY <1>3 DEF SrcNotify, MoveOps
  <2>2. QED
    BY <1>1, <2>1, StopStep
<1>4. CASE req[r].op \in MoveOps
  <2>1. Goto(r, "dstRead")
    BY <1>4 DEF SrcNotify, MoveOps
  <2>2. LocalsAt("dstRead", req[r])
    BY <1>1, <1>4 DEF LocalsAt, SrcPcs, DstPcs, ExtPcs
  <2>3. QED
    BY <1>1, <2>1, <2>2, GotoStep DEF Pcs, DstPcs
<1>5. CASE req[r].op \in ExtractOps
  <2>1. Goto(r, "extRead")
    BY <1>5 DEF SrcNotify, MoveOps, ExtractOps
  <2>2. LocalsAt("extRead", req[r])
    BY <1>1, <1>5 DEF LocalsAt, SrcPcs, DstPcs, ExtPcs
  <2>3. QED
    BY <1>1, <2>1, <2>2, GotoStep DEF Pcs, ExtPcs
<1>6. QED
  BY <1>2, <1>3, <1>4, <1>5 DEF Choosers

-----------------------------------------------------------------------------
(* Types: the target side *)

LEMMA DstReadType ==
    ASSUME TypeInv, NEW r \in Reqs, DstRead(r)
    PROVE  TypeInv'
<1>1. LocalsAt("dstInsert", req[r])
  BY LocalsOf DEF DstRead, At, LocalsAt, SrcPcs, DstPcs, ExtPcs
<1>2. QED
  BY <1>1, BumpReadType, RaiseStep DEF DstRead, Pcs, DstPcs, ExtPcs

LEMMA DstInsertType ==
    ASSUME TypeInv, NEW r \in Reqs, DstInsert(r)
    PROVE  TypeInv'
<1>1. CASE Raise(r)
  BY <1>1, RaiseStep
<1>2. CASE /\ req[r].into \in live
           /\ BumpInsert(r, req[r].into, DstCount(r))
           /\ req' = [req EXCEPT ![r].pc = "dstPdf", ![r].dnew = nextVer]
  <2> DEFINE q == [req[r] EXCEPT !.pc = "dstPdf", !.dnew = nextVer]
  <2>1. req[r] \in Request /\ LocalsAt("dstInsert", req[r]) /\ StoreType
    BY LocalsOf DEF DstInsert, At
  <2>2. DstCount(r) \in Nat
    <3>1. Len(req[r].items) \in Nat /\ req[r].dlen \in Nat
      BY <2>1, LenProperties DEF Request
    <3>2. QED
      BY <3>1 DEF DstCount
  <2>3. StoreType' /\ nextVer \in VerIds
    BY <1>2, <2>1, <2>2, BumpInsertType DEF StoreType
  <2>a. nextVer \in Nat /\ "dstPdf" \in Pcs
    BY <2>3 DEF VerIds, Pcs, DstPcs
  <2>4. q \in Request
    BY <2>1, <2>a DEF Request
  <2>5. /\ q.pc = "dstPdf" /\ q.op = req[r].op /\ q.items = req[r].items
        /\ q.rows = req[r].rows /\ q.todo = req[r].todo /\ q.old = req[r].old
        /\ q.dnew = nextVer /\ q.dst = req[r].dst /\ q.at = req[r].at
    BY <2>1 DEF Request
  <2>6. LocalsAt(q.pc, q)
    BY <2>1, <2>3, <2>5 DEF LocalsAt, SrcPcs, DstPcs, ExtPcs
  <2>7. req' = [req EXCEPT ![r] = q]
    BY <1>2
  <2>8. QED
    BY <2>3, <2>4, <2>6, <2>7, RequestStep
<1>3. QED
  BY <1>1, <1>2, Zenon DEF DstInsert

LEMMA DstPagesType ==
    ASSUME TypeInv, NEW r \in Reqs, LocalsAt("dstPdf", req[r]), DstReadable(r)
    PROVE  DstPages(r) \in Seq(Content)
<1>1. /\ req[r] \in Request /\ req[r].old \in VerIds /\ req[r].dst \in VerIds
      /\ req[r].at # 0 /\ req[r].op \in {"mix", "replace"}
  BY LocalsOf DEF LocalsAt, DstPcs, MoveOps
<1>2. file[req[r].old].pages \in Seq(Content) /\ file[req[r].dst].pages \in Seq(Content)
  BY <1>1 DEF TypeInv, StoreType, File
<1>3. MovedPages(r) \in Seq(Content)
  <2>1. DOMAIN Moved(r) = 1..Len(req[r].todo) /\ Len(req[r].todo) \in Nat
    BY LenProperties DEF Moved, LocalsAt
  <2>2. Range(Moved(r)) \subseteq 1..Len(file[req[r].old].pages)
    BY DEF DstReadable, Readable
  <2>3. QED
    BY <1>2, <2>1, <2>2, PickedPages DEF MovedPages
<1>4. CASE req[r].op = "replace"
  BY <1>3, <1>4 DEF DstPages
<1>5. CASE req[r].op = "mix"
  <2> DEFINE t == file[req[r].dst].pages
             at == req[r].at
  <2>1. t \in Seq(Content) /\ Len(t) \in Nat /\ at \in Nat \ {0} /\ at <= Len(t) + 1
    BY <1>1, <1>2, <1>5, LenProperties DEF Request, DstReadable
  <2>2. DstPages(r) = SubSeq(t, 1, at - 1) \o MovedPages(r) \o SubSeq(t, at, Len(t))
    BY <1>5 DEF DstPages
  <2> HIDE DEF t, at
  <2>3. SubSeq(t, 1, at - 1) \in Seq(Content)
    <3>1. \A i \in 1..(at - 1) : t[i] \in Content
      BY <2>1, ElementOfSeq
    <3>2. QED
      BY <2>1, <3>1, SubSeqProperties
  <2>4. SubSeq(t, at, Len(t)) \in Seq(Content)
    <3>1. \A i \in at..Len(t) : t[i] \in Content
      BY <2>1, ElementOfSeq
    <3>2. QED
      BY <2>1, <3>1, SubSeqProperties
  <2>5. QED
    BY <1>3, <2>2, <2>3, <2>4, ConcatProperties
<1>6. QED
  BY <1>1, <1>4, <1>5

LEMMA DstPdfType ==
    ASSUME TypeInv, NEW r \in Reqs, DstPdf(r)
    PROVE  TypeInv'
<1>1. CASE Raise(r)
  BY <1>1, RaiseStep
<1>2. CASE DstReadable(r) /\ ~Raise(r)
  <2>1. req[r] \in Request /\ LocalsAt("dstPdf", req[r]) /\ StoreType
    BY LocalsOf DEF DstPdf, At
  <2>2. PICK pc \in {"error", "purge", "dstNotify"} :
          /\ file' = [file EXCEPT ![req[r].dnew] = Pdf(DstPages(r))]
          /\ req' = [req EXCEPT ![r].out = {req[r].dnew}, ![r].pc = pc]
          /\ UNCHANGED <<store, ocr, sent>>
    BY <1>2, Zenon DEF DstPdf
  <2> DEFINE q == [req[r] EXCEPT !.out = {req[r].dnew}, !.pc = pc]
  <2>3. req[r].dnew \in VerIds /\ pc \in Pcs
    BY <2>1 DEF LocalsAt, Pcs, Stopped, DstPcs
  <2>4. q \in Request
    BY <2>1, <2>3 DEF Request
  <2>5. /\ q.pc = pc /\ q.op = req[r].op /\ q.items = req[r].items
        /\ q.rows = req[r].rows /\ q.todo = req[r].todo /\ q.old = req[r].old
        /\ q.dnew = req[r].dnew /\ q.dst = req[r].dst /\ q.at = req[r].at
    BY <2>1 DEF Request
  <2>6. LocalsAt(q.pc, q)
    BY <2>1, <2>5 DEF LocalsAt, SrcPcs, DstPcs, ExtPcs
  <2>7. DstPages(r) \in Seq(Content)
    BY <1>2, <2>1, DstPagesType
  <2>8. StoreType'
    BY <2>1, <2>2, <2>7, FileType
  <2>9. QED
    BY ZenonT(40), <2>2, <2>4, <2>6, <2>8, RequestStep
<1>3. QED
  BY <1>1, <1>2 DEF DstPdf

LEMMA StopUnchanged ==
    ASSUME TypeInv, NEW r \in Reqs, Goto(r, "error") \/ Goto(r, "done") \/ Goto(r, "crashed"),
           UNCHANGED <<store, file, ocr>>
    PROVE  TypeInv'
BY StopStep DEF TypeInv, StoreType, store

LEMMA DstNotifyType ==
    ASSUME TypeInv, NEW r \in Reqs, DstNotify(r)
    PROVE  TypeInv'
BY StopUnchanged DEF DstNotify

LEMMA PurgeType ==
    ASSUME TypeInv, NEW r \in Reqs, Purge(r)
    PROVE  TypeInv'
BY DropDocumentType, StopStep DEF Purge, TypeInv

-----------------------------------------------------------------------------
(* Types: extraction *)

LEMMA ExtReadType ==
    ASSUME TypeInv, NEW r \in Reqs, ExtRead(r)
    PROVE  TypeInv'
<1>1. LocalsAt("extRead", req[r]) /\ StoreType'
  BY LocalsOf DEF ExtRead, At, store, StoreType
<1>2. PICK pc \in {"extDoc", "extNotify", "error"} : Goto(r, pc)
  BY Zenon DEF ExtRead
<1>3. pc \in Pcs /\ LocalsAt(pc, req[r])
  BY <1>1 DEF LocalsAt, Pcs, Stopped, SrcPcs, DstPcs, ExtPcs
<1>4. QED
  BY <1>1, <1>2, <1>3, GotoStep

LEMMA ExtDocType ==
    ASSUME TypeInv, NEW r \in Reqs, ExtDoc(r)
    PROVE  TypeInv'
<1>1. PICK d \in FreshDoc :
        /\ CreateDocument(d)
        /\ req' = [req EXCEPT ![r].pc = "extPages", ![r].cur = d,
                              ![r].made = @ \cup {d},
                              ![r].todo = IF @ = <<>> THEN req[r].items ELSE @]
  BY DEF ExtDoc
<1>2. req[r] \in Request /\ LocalsAt("extDoc", req[r]) /\ StoreType
  BY LocalsOf DEF ExtDoc, At
<1>3. StoreType' /\ d \in Docs
  BY <1>1, <1>2, CreateDocumentType DEF ExtDoc
<1> DEFINE todo == IF req[r].todo = <<>> THEN req[r].items ELSE req[r].todo
           q == [req[r] EXCEPT !.pc = "extPages", !.cur = d,
                               !.made = req[r].made \cup {d}, !.todo = todo]
<1>4. /\ todo \in Seq(DOMAIN req[r].rows) /\ todo \in Seq(Nat) /\ todo # <<>>
  BY <1>2 DEF LocalsAt, ExtPcs, Request
<1>5. req' = [req EXCEPT ![r] = q]
  BY <1>1
<1> HIDE DEF todo
<1>6. q \in Request
  BY ZenonT(40), <1>2, <1>3, <1>4 DEF Request, Pcs, ExtPcs
<1>7. /\ q.pc = "extPages" /\ q.op = req[r].op /\ q.items = req[r].items
      /\ q.rows = req[r].rows /\ q.todo = todo /\ q.old = req[r].old /\ q.cur = d
  BY <1>2 DEF Request
<1>8. LocalsAt(q.pc, q)
  BY <1>2, <1>3, <1>4, <1>7 DEF LocalsAt, SrcPcs, DstPcs, ExtPcs
<1>9. QED
  BY <1>3, <1>5, <1>6, <1>8, RequestStep

LEMMA BatchType ==
    ASSUME TypeInv, NEW r \in Reqs, req[r].pc \in {"extPages", "extText"}
    PROVE  /\ Batch(r) \in Seq(DOMAIN req[r].rows)
           /\ DOMAIN Batch(r) = 1..Len(Batch(r)) /\ Len(Batch(r)) \in Nat
<1>1. req[r].todo \in Seq(DOMAIN req[r].rows) /\ req[r].todo # <<>>
  BY LocalsOf DEF LocalsAt
<1>2. Head(req[r].todo) \in DOMAIN req[r].rows
  BY <1>1, HeadTailProperties
<1>3. Batch(r) \in Seq(DOMAIN req[r].rows)
  BY SMTT(30), <1>1, <1>2 DEF Batch
<1>4. QED
  BY <1>3, LenProperties

LEMMA FillVersionType ==
    ASSUME TypeInv, NEW d \in Docs, NEW v \in FillTarget(d), NEW s \in Seq(Content),
           FillVersion(d, v, s), UNCHANGED ocr
    PROVE  StoreType' /\ v \in VerIds
<1>1. StoreType
  BY DEF TypeInv
<1>2. v \in VerIds
  BY DEF FillTarget, Highest, Unsized, VersionsOf
<1>3. file' \in [VerIds -> File]
  BY <1>1 DEF FillVersion, StoreType, File, Pdf
<1>4. Len(s) \in Nat
  BY LenProperties
<1> DEFINE n == ver[v].number
           new == [doc |-> d, number |-> n, count |-> Len(s), sized |-> TRUE,
                   pages |-> ver[v].pages \o FreshRows(Len(s))]
<1>5. ver[v].pages \o FreshRows(Len(s)) \in Seq(PageRow)
  BY <1>1, <1>2, <1>4, FreshRowsType, ConcatProperties DEF StoreType, Version
<1>6. n \in Nat
  BY <1>1, <1>2 DEF StoreType, Version
<1>7. ver' = [ver EXCEPT ![v] = new]
  BY DEF FillVersion
<1> HIDE DEF n
<1>8. new \in Version
  BY <1>4, <1>5, <1>6 DEF Version
<1>9. nextVer' \in 1..(MaxVer + 1)
  BY <1>1, <1>2, BoundsAssumption DEF FillVersion, StoreType, VerIds
<1>10. QED
  BY ZenonT(40), <1>1, <1>2, <1>3, <1>7, <1>8, <1>9 DEF FillVersion, StoreType

LEMMA ExtPagesType ==
    ASSUME TypeInv, NEW r \in Reqs, ExtPages(r)
    PROVE  TypeInv'
<1> DEFINE n == [k \in DOMAIN Batch(r) |-> req[r].rows[Batch(r)[k]].number]
           s == [k \in DOMAIN n |-> file[req[r].old].pages[n[k]]]
<1>1. CASE Raise(r)
  BY <1>1, RaiseStep
<1>2. CASE ~Raise(r)
  <2>1. /\ req[r].cur \in live /\ Readable(req[r].old, Range(n))
        /\ \E v \in FillTarget(req[r].cur) :
              /\ FillVersion(req[r].cur, v, s)
              /\ req' = [req EXCEPT ![r].out = @ \cup {v},
                    ![r].pc = IF req[r].op = "extract_one" /\ req[r].old \in ocr
                              THEN "error" ELSE "extText"]
        /\ UNCHANGED <<ocr, sent>>
    BY <1>2, Zenon DEF ExtPages
  <2>2. PICK v \in FillTarget(req[r].cur) :
              /\ FillVersion(req[r].cur, v, s)
              /\ req' = [req EXCEPT ![r].out = @ \cup {v},
                    ![r].pc = IF req[r].op = "extract_one" /\ req[r].old \in ocr
                              THEN "error" ELSE "extText"]
    BY <2>1
  <2>3. req[r] \in Request /\ LocalsAt("extPages", req[r]) /\ StoreType
    BY LocalsOf DEF ExtPages, At
  <2>4. s \in Seq(Content)
    <3>1. file[req[r].old].pages \in Seq(Content)
      BY <2>3 DEF LocalsAt, ExtPcs, StoreType, File
    <3>2. DOMAIN n = 1..Len(Batch(r)) /\ Len(Batch(r)) \in Nat
      BY BatchType DEF ExtPages, At
    <3>3. Range(n) \subseteq 1..Len(file[req[r].old].pages)
      BY ZenonT(40), <2>1 DEF Readable
    <3> HIDE DEF n
    <3>4. QED
      BY <3>1, <3>2, <3>3, PickedPages
  <2>5. StoreType' /\ v \in VerIds
    BY ZenonT(40), <2>1, <2>2, <2>3, <2>4, FillVersionType DEF StoreType
  <2> DEFINE pc == IF req[r].op = "extract_one" /\ req[r].old \in ocr
                   THEN "error" ELSE "extText"
             q == [req[r] EXCEPT !.out = req[r].out \cup {v}, !.pc = pc]
  <2>6. req' = [req EXCEPT ![r] = q]
    BY <2>2
  <2>7. pc \in {"error", "extText"}
    OBVIOUS
  <2>8. pc \in Pcs
    BY <2>7 DEF Pcs, Stopped, ExtPcs
  <2> HIDE DEF pc
  <2>9. q \in Request
    BY <2>3, <2>5, <2>8 DEF Request
  <2>10. /\ q.pc = pc /\ q.op = req[r].op /\ q.items = req[r].items /\ q.cur = req[r].cur
         /\ q.rows = req[r].rows /\ q.todo = req[r].todo /\ q.old = req[r].old
    BY <2>3 DEF Request
  <2>11. LocalsAt(q.pc, q)
    BY <2>3, <2>7, <2>10 DEF LocalsAt, SrcPcs, DstPcs, ExtPcs
  <2>12. QED
    BY ZenonT(40), <2>5, <2>6, <2>9, <2>11, RequestStep
<1>3. QED
  BY <1>1, <1>2

LEMMA ExtTextType ==
    ASSUME TypeInv, NEW r \in Reqs, ExtText(r)
    PROVE  TypeInv'
<1>1. req[r] \in Request /\ LocalsAt("extText", req[r]) /\ StoreType
  BY LocalsOf DEF ExtText, At
<1>2. CASE Goto(r, "error") /\ UNCHANGED <<store, file, ocr>>
  BY <1>2, StopUnchanged
<1>3. CASE Goto(r, "extNotify") /\ UNCHANGED <<store, file, ocr>>
  <2>1. LocalsAt("extNotify", req[r])
    BY <1>1 DEF LocalsAt, SrcPcs, DstPcs, ExtPcs
  <2>2. QED
    BY <1>1, <1>3, <2>1, GotoStep DEF Pcs, ExtPcs, store, StoreType
<1>4. ASSUME NEW v \in VersionsOf(req[r].cur),
             CopyText(req[r].rows, Range(Batch(r)), v),
             req' = [req EXCEPT ![r].todo = Tail(@),
                        ![r].pc = IF Len(req[r].todo) = 1 THEN "extNotify" ELSE "extDoc"],
             UNCHANGED <<live, unborn, nextVer, file, ocr>>
      PROVE  TypeInv'
  <2>1. v \in VerIds /\ req[r].rows \in Seq(PageRow)
    BY <1>1 DEF VersionsOf, Request
  <2>2. Range(Batch(r)) \in SUBSET DOMAIN req[r].rows
    BY BatchType, RangeOfSeq DEF ExtText, At
  <2>3. StoreType'
    BY <1>1, <1>4, <2>1, <2>2, CopyTextType DEF StoreType
  <2> DEFINE pc == IF Len(req[r].todo) = 1 THEN "extNotify" ELSE "extDoc"
             q == [req[r] EXCEPT !.todo = Tail(req[r].todo), !.pc = pc]
  <2>4. req' = [req EXCEPT ![r] = q]
    BY <1>4
  <2>5. pc \in {"extNotify", "extDoc"}
    OBVIOUS
  <2>6. pc \in Pcs
    BY <2>5 DEF Pcs, ExtPcs
  <2>7. Tail(req[r].todo) \in Seq(DOMAIN req[r].rows) /\ Tail(req[r].todo) \in Seq(Nat)
    BY <1>1, HeadTailProperties DEF LocalsAt, Request
  <2> HIDE DEF pc
  <2>8. q \in Request
    BY <1>1, <2>6, <2>7 DEF Request
  <2>9. /\ q.pc = pc /\ q.op = req[r].op /\ q.items = req[r].items /\ q.cur = req[r].cur
        /\ q.rows = req[r].rows /\ q.todo = Tail(req[r].todo) /\ q.old = req[r].old
    BY <1>1 DEF Request
  <2>10. LocalsAt(q.pc, q)
    BY <1>1, <2>5, <2>7, <2>9 DEF LocalsAt, SrcPcs, DstPcs, ExtPcs
  <2>11. QED
    BY <2>3, <2>4, <2>8, <2>10, RequestStep
<1>5. QED
  BY <1>2, <1>3, <1>4 DEF ExtText

LEMMA ExtNotifyType ==
    ASSUME TypeInv, NEW r \in Reqs, ExtNotify(r)
    PROVE  TypeInv'
<1>1. LocalsAt("purge", req[r]) /\ StoreType'
  BY LocalsOf DEF ExtNotify, At, store, StoreType, LocalsAt, SrcPcs, DstPcs, ExtPcs
<1>2. PICK pc \in {"error", "purge", "done"} : Goto(r, pc)
  BY Zenon DEF ExtNotify
<1>3. CASE pc = "purge"
  BY <1>1, <1>2, <1>3, GotoStep DEF Pcs
<1>4. CASE pc \in {"error", "done"}
  BY <1>1, <1>2, <1>4, StopStep
<1>5. QED
  BY <1>2, <1>3, <1>4

-----------------------------------------------------------------------------
(* Types: uploads, deletions, the OCR worker, crashes *)

LEMMA UpFileType ==
    ASSUME TypeInv, NEW r \in Reqs, UpFile(r)
    PROVE  TypeInv'
<1>1. req[r] \in Request /\ LocalsAt("upFile", req[r]) /\ StoreType
  BY LocalsOf DEF UpFile, At
<1>2. Pdf(req[r].up) \in File /\ [kind |-> "image", pages |-> <<>>] \in File
  BY <1>1, EmptySeqType DEF Request, Pdf, File
<1>3. StoreType'
  BY <1>1, <1>2 DEF UpFile, store, StoreType
<1>4. LocalsAt("upCommit", req[r])
  BY <1>1 DEF LocalsAt, SrcPcs, DstPcs, ExtPcs
<1>5. QED
  BY <1>3, <1>4, GotoStep DEF UpFile, Pcs, UpPcs

LEMMA UploadedVersionType ==
    ASSUME TypeInv, NEW r \in Reqs, req[r].doc \in Docs, NEW v \in VerIds
    PROVE  UploadedVersion(r, v) \in Version
<1>1. req[r] \in Request /\ ver[v] \in Version
  BY LocalsOf DEF StoreType
<1>2. Len(req[r].up) \in Nat
  BY <1>1, LenProperties DEF Request
<1>3. /\ FreshRows(Len(req[r].up)) \in Seq(PageRow)
      /\ ver[v].pages \o FreshRows(Len(req[r].up)) \in Seq(PageRow)
  BY <1>1, <1>2, FreshRowsType, ConcatProperties DEF Version
<1>4. req[r].lnum + 1 \in Nat
  BY <1>1 DEF Request
<1>5. CASE ver[v].doc = NoDoc
  BY <1>2, <1>3, <1>4, <1>5 DEF UploadedVersion, Version
<1>6. CASE ver[v].doc # NoDoc
  BY <1>1, <1>2, <1>3, <1>6 DEF UploadedVersion, Version
<1>7. QED
  BY <1>5, <1>6

LEMMA UpCommitType ==
    ASSUME TypeInv, NEW r \in Reqs, UpCommit(r)
    PROVE  TypeInv'
<1>1. CASE Raise(r)
  BY <1>1, RaiseStep
<1>2. CASE /\ req[r].doc \in live
           /\ ver' = [v \in VerIds |-> IF v \in {req[r].new, req[r].dnew}
                                       THEN UploadedVersion(r, v) ELSE ver[v]]
           /\ Goto(r, "upNotify")
           /\ UNCHANGED <<live, unborn, nextVer, file, ocr, sent>>
  <2>1. LocalsAt("upCommit", req[r]) /\ StoreType
    BY LocalsOf DEF UpCommit, At
  <2>2. StoreType'
    BY <1>2, <2>1, UploadedVersionType DEF StoreType
  <2>3. LocalsAt("upNotify", req[r])
    BY <2>1 DEF LocalsAt, SrcPcs, DstPcs, ExtPcs
  <2>4. QED
    BY <1>2, <2>2, <2>3, GotoStep DEF Pcs, UpPcs
<1>3. QED
  BY <1>1, <1>2, Zenon DEF UpCommit

LEMMA UpNotifyType ==
    ASSUME TypeInv, NEW r \in Reqs, UpNotify(r)
    PROVE  TypeInv'
BY StopUnchanged, RaiseStep DEF UpNotify

LEMMA DelCommitType ==
    ASSUME TypeInv, NEW r \in Reqs, DelCommit(r)
    PROVE  TypeInv'
<1>1. LocalsAt("delNotify", req[r]) /\ StoreType
  BY LocalsOf DEF DelCommit, At, LocalsAt, SrcPcs, DstPcs, ExtPcs
<1>2. StoreType'
  BY <1>1, DropDocumentType DEF DelCommit
<1>3. QED
  BY <1>1, <1>2, GotoStep DEF DelCommit, Pcs, DelPcs

LEMMA DelNotifyType ==
    ASSUME TypeInv, NEW r \in Reqs, DelNotify(r)
    PROVE  TypeInv'
BY StopUnchanged DEF DelNotify

LEMMA CrashType ==
    ASSUME TypeInv, NEW r \in Reqs, Crash(r)
    PROVE  TypeInv'
BY StopUnchanged DEF Crash

LEMMA OcrDoneType ==
    ASSUME TypeInv, NEW v \in VerIds, OcrDone(v)
    PROVE  TypeInv'
<1> DEFINE rows == ver[v].pages
           f == file[v].pages
           new == [i \in DOMAIN rows |->
                     IF rows[i].text = NULL /\ rows[i].number \in DOMAIN f
                     THEN [rows[i] EXCEPT !.text = f[rows[i].number]] ELSE rows[i]]
<1>1. StoreType
  BY DEF TypeInv
<1>2. /\ rows \in Seq(PageRow) /\ DOMAIN rows = 1..Len(rows) /\ Len(rows) \in Nat
      /\ f \in Seq(Content) /\ DOMAIN f = 1..Len(f)
  BY <1>1, LenProperties DEF StoreType, Version, File
<1>3. ver' = [ver EXCEPT ![v] = [ver[v] EXCEPT !.pages = new]]
  BY SMTT(30) DEF OcrDone
<1>4. ASSUME NEW i \in DOMAIN rows PROVE new[i] \in PageRow
  <2>1. rows[i] \in PageRow
    BY <1>2, ElementOfSeq
  <2>2. \A n \in DOMAIN f : f[n] \in Texts
    BY <1>2, ElementOfSeq DEF Texts
  <2>3. QED
    BY <2>1, <2>2 DEF PageRow
<1>5. new \in [1..Len(rows) -> PageRow]
  BY <1>2, <1>4
<1>6. new \in Seq(PageRow)
  BY <1>2, <1>5, SeqOfFcn
<1> HIDE DEF new
<1>7. [ver[v] EXCEPT !.pages = new] \in Version
  BY <1>1, <1>6 DEF StoreType, Version
<1>8. StoreType'
  BY <1>1, <1>3, <1>7 DEF OcrDone, StoreType
<1>9. UNCHANGED req
  BY DEF OcrDone
<1>10. QED
  BY <1>8, <1>9 DEF TypeInv, LocalsAt

LEMMA StepType ==
    ASSUME TypeInv, NEW r \in Reqs, Step(r)
    PROVE  TypeInv'
<1>1. CASE SrcRead(r) \/ SrcInsert(r) \/ SrcPdf(r) \/ SrcText(r) \/ SrcNotify(r)
  BY <1>1, SrcReadType, SrcInsertType, SrcPdfType, SrcTextType, SrcNotifyType
<1>2. CASE DstRead(r) \/ DstInsert(r) \/ DstPdf(r) \/ DstNotify(r) \/ Purge(r)
  BY <1>2, DstReadType, DstInsertType, DstPdfType, DstNotifyType, PurgeType
<1>3. CASE ExtRead(r) \/ ExtDoc(r) \/ ExtPages(r) \/ ExtText(r) \/ ExtNotify(r)
  BY <1>3, ExtReadType, ExtDocType, ExtPagesType, ExtTextType, ExtNotifyType
<1>4. CASE UpFile(r) \/ UpCommit(r) \/ UpNotify(r) \/ DelCommit(r) \/ DelNotify(r)
  BY <1>4, UpFileType, UpCommitType, UpNotifyType, DelCommitType, DelNotifyType
<1>5. QED
  BY <1>1, <1>2, <1>3, <1>4 DEF Step

LEMMA NextType == TypeInv /\ [Next]_vars => TypeInv'
<1> SUFFICES ASSUME TypeInv, [Next]_vars PROVE TypeInv'
  OBVIOUS
<1>1. ASSUME NEW r \in Reqs, Begin(r) PROVE TypeInv'
  BY <1>1, BeginApplyType, BeginMoveType, BeginExtractType, CreateType, BeginUploadType,
     BeginDeleteType DEF Begin
<1>2. CASE UNCHANGED vars
  BY <1>2 DEF vars, TypeInv, StoreType, LocalsAt
<1>3. QED
  BY <1>1, <1>2, StepType, CrashType, OcrDoneType DEF Next

\* The type invariant of DocVersions, with what the local variables of a handler
\* hold at each of its points.
LEMMA TypeInvariant == Spec => []TypeInv
BY InitType, NextType, PTL DEF Spec

\* Whatever the requests, their interleaving and the crashes, every table, file
\* and local variable of the page operations keeps its type: no page list with a
\* negative length, no page number 0, no version beyond those created.
THEOREM TypeCorrect == Spec => []TypeOK
<1>1. TypeInv => TypeOK
  BY DEF TypeInv, StoreType, TypeOK
<1>2. QED
  BY <1>1, TypeInvariant, PTL

-----------------------------------------------------------------------------
(* A handler touches no other handler *)

Others(r) == \A p \in Reqs \ {r} : req'[p] = req[p]

LEMMA OneChanged ==
    ASSUME TypeInv, NEW r \in Reqs, NEW q, req' = [req EXCEPT ![r] = q]
    PROVE  Others(r) /\ req'[r] = q
BY DEF TypeInv, Others

LEMMA PcChanged ==
    ASSUME TypeInv, NEW r \in Reqs, NEW pc, Goto(r, pc)
    PROVE  /\ Others(r)
           /\ req'[r].pc = pc /\ req'[r].op = req[r].op /\ req'[r].doc = req[r].doc
           /\ req'[r].into = req[r].into /\ req'[r].old = req[r].old
           /\ req'[r].dst = req[r].dst /\ req'[r].new = req[r].new
           /\ req'[r].dnew = req[r].dnew /\ req'[r].lnum = req[r].lnum
<1>1. req[r] \in Request
  BY DEF TypeInv
<1>2. Others(r) /\ req'[r] = [req[r] EXCEPT !.pc = pc]
  BY DEF TypeInv, Goto, Others
<1>3. QED
  BY <1>1, <1>2 DEF Request

\* Two records that agree on all a promise is about.
SameTask(q, p) ==
    /\ q.op = p.op /\ q.doc = p.doc /\ q.into = p.into /\ q.old = p.old
    /\ q.dst = p.dst /\ q.new = p.new /\ q.dnew = p.dnew

LEMMA BumpReadEffect ==
    ASSUME TypeInv, NEW r \in Reqs, NEW d, NEW next, BumpRead(r, d, next), ~Raise(r)
    PROVE  /\ \E v \in LastVersions(d) : req'[r].lnum = ver[v].number
           /\ Others(r) /\ UNCHANGED <<store, file, ocr, sent>>
           /\ req'[r].pc = next /\ SameTask(req'[r], req[r])
<1>1. PICK v \in LastVersions(d) :
        /\ req' = [req EXCEPT ![r].pc = next,
                              ![r].lnum = ver[v].number, ![r].lcount = ver[v].count,
                              ![r].dlen = IF req[r].dst = 0 THEN 0
                                          ELSE Len(ver[req[r].dst].pages),
                              ![r].todo = IF ver[req[r].old].doc = NoDoc THEN <<>>
                                          ELSE req[r].items]
        /\ UNCHANGED <<store, file, ocr, sent>>
  BY Zenon DEF BumpRead
<1> DEFINE dlen == IF req[r].dst = 0 THEN 0 ELSE Len(ver[req[r].dst].pages)
           todo == IF ver[req[r].old].doc = NoDoc THEN <<>> ELSE req[r].items
           q == [req[r] EXCEPT !.pc = next, !.lnum = ver[v].number,
                               !.lcount = ver[v].count, !.dlen = dlen, !.todo = todo]
<1>2. req' = [req EXCEPT ![r] = q]
  BY <1>1
<1>3. Others(r) /\ req'[r] = q
  BY <1>2, OneChanged
<1>4. req[r] \in Request
  BY DEF TypeInv
<1> HIDE DEF dlen, todo
<1>5. q.lnum = ver[v].number /\ q.pc = next /\ SameTask(q, req[r])
  BY <1>4 DEF Request, SameTask
<1>6. QED
  BY <1>1, <1>3, <1>5

LEMMA ExtDocEffect ==
    ASSUME TypeInv, NEW r \in Reqs, ExtDoc(r)
    PROVE  /\ \E d \in FreshDoc : CreateDocument(d) /\ req'[r].cur = d
           /\ Others(r) /\ UNCHANGED <<file, ocr, sent>>
           /\ req'[r].pc = "extPages" /\ SameTask(req'[r], req[r])
<1>1. PICK d \in FreshDoc :
        /\ CreateDocument(d)
        /\ req' = [req EXCEPT ![r].pc = "extPages", ![r].cur = d,
                              ![r].made = @ \cup {d},
                              ![r].todo = IF @ = <<>> THEN req[r].items ELSE @]
  BY DEF ExtDoc
<1> DEFINE todo == IF req[r].todo = <<>> THEN req[r].items ELSE req[r].todo
           q == [req[r] EXCEPT !.pc = "extPages", !.cur = d,
                               !.made = req[r].made \cup {d}, !.todo = todo]
<1>2. req' = [req EXCEPT ![r] = q]
  BY <1>1
<1>3. Others(r) /\ req'[r] = q
  BY <1>2, OneChanged
<1>4. req[r] \in Request
  BY DEF TypeInv
<1> HIDE DEF todo
<1>5. q.pc = "extPages" /\ q.cur = d /\ SameTask(q, req[r])
  BY <1>4 DEF Request, SameTask
<1>6. QED
  BY <1>1, <1>3, <1>5 DEF ExtDoc

LEMMA ExtPagesEffect ==
    ASSUME TypeInv, NEW r \in Reqs, ExtPages(r), ~Raise(r)
    PROVE  /\ req[r].cur \in live
           /\ \E v \in FillTarget(req[r].cur) : \E s : FillVersion(req[r].cur, v, s)
           /\ Others(r) /\ UNCHANGED <<ocr, sent>>
           /\ req'[r].pc \in {"error", "extText"} /\ SameTask(req'[r], req[r])
<1>1. /\ req[r].cur \in live /\ UNCHANGED <<ocr, sent>>
      /\ \E v \in FillTarget(req[r].cur) : \E s :
            /\ FillVersion(req[r].cur, v, s)
            /\ req' = [req EXCEPT ![r].out = @ \cup {v},
                  ![r].pc = IF req[r].op = "extract_one" /\ req[r].old \in ocr
                            THEN "error" ELSE "extText"]
  BY Zenon DEF ExtPages
<1>2. PICK v, s :
        /\ v \in FillTarget(req[r].cur)
        /\ FillVersion(req[r].cur, v, s)
        /\ req' = [req EXCEPT ![r].out = @ \cup {v},
              ![r].pc = IF req[r].op = "extract_one" /\ req[r].old \in ocr
                        THEN "error" ELSE "extText"]
  BY <1>1
<1> DEFINE pc == IF req[r].op = "extract_one" /\ req[r].old \in ocr
                 THEN "error" ELSE "extText"
           q == [req[r] EXCEPT !.out = req[r].out \cup {v}, !.pc = pc]
<1>3. req' = [req EXCEPT ![r] = q]
  BY <1>2
<1>4. Others(r) /\ req'[r] = q
  BY <1>3, OneChanged
<1>5. req[r] \in Request /\ pc \in {"error", "extText"}
  BY DEF TypeInv
<1> HIDE DEF pc
<1>6. q.pc = pc /\ SameTask(q, req[r])
  BY <1>5 DEF Request, SameTask
<1>7. QED
  BY <1>1, <1>2, <1>4, <1>5, <1>6

LEMMA ExtTextEffect ==
    ASSUME TypeInv, NEW r \in Reqs, ExtText(r)
    PROVE  /\ Others(r) /\ UNCHANGED <<live, unborn, nextVer, file, ocr, sent>>
           /\ req'[r].pc \in {"extNotify", "extDoc", "error"} /\ SameTask(req'[r], req[r])
<1>1. CASE Goto(r, "error") \/ Goto(r, "extNotify")
  BY <1>1, PcChanged DEF ExtText, store, SameTask
<1>2. CASE req' = [req EXCEPT ![r].todo = Tail(@),
                        ![r].pc = IF Len(req[r].todo) = 1 THEN "extNotify" ELSE "extDoc"]
  <2> DEFINE pc == IF Len(req[r].todo) = 1 THEN "extNotify" ELSE "extDoc"
             q == [req[r] EXCEPT !.todo = Tail(req[r].todo), !.pc = pc]
  <2>1. req' = [req EXCEPT ![r] = q]
    BY <1>2
  <2>2. Others(r) /\ req'[r] = q
    BY <2>1, OneChanged
  <2>3. req[r] \in Request /\ pc \in {"extNotify", "extDoc"}
    BY DEF TypeInv
  <2> HIDE DEF pc
  <2>4. q.pc = pc /\ SameTask(q, req[r])
    BY <2>3 DEF Request, SameTask
  <2>5. QED
    BY <2>2, <2>3, <2>4 DEF ExtText, store
<1>3. QED
  BY <1>1, <1>2 DEF ExtText

LEMMA OthersBegin ==
    ASSUME TypeInv, NEW r \in Reqs, Begin(r)
    PROVE  Others(r)
<1>1. CASE BeginApply(r)
  BY <1>1 DEF BeginApply, TypeInv, Others
<1>2. CASE BeginMove(r)
  BY <1>2 DEF BeginMove, TypeInv, Others
<1>3. CASE BeginExtract(r)
  BY <1>3 DEF BeginExtract, TypeInv, Others
<1>4. CASE Create(r)
  BY <1>4 DEF Create, TypeInv, Others
<1>5. CASE BeginUpload(r)
  BY <1>5 DEF BeginUpload, TypeInv, Others
<1>6. CASE BeginDelete(r)
  BY <1>6 DEF BeginDelete, TypeInv, Others
<1>7. QED
  BY <1>1, <1>2, <1>3, <1>4, <1>5, <1>6 DEF Begin

LEMMA OthersStep ==
    ASSUME TypeInv, NEW r \in Reqs, Step(r)
    PROVE  Others(r)
<1>1. \A pc : Goto(r, pc) => Others(r)
  BY SMTT(30), PcChanged
<1> USE DEF TypeInv, Others
<1>2. CASE SrcRead(r) \/ DstRead(r)
  BY <1>1, <1>2 DEF SrcRead, DstRead, BumpRead, Raise
<1>3. CASE SrcInsert(r) \/ DstInsert(r)
  BY <1>1, <1>3 DEF SrcInsert, DstInsert, Raise
<1>4. CASE SrcPdf(r)
  BY <1>1, <1>4 DEF SrcPdf, Raise
<1>5. CASE DstPdf(r)
  BY <1>1, <1>5 DEF DstPdf, Raise
<1>6. CASE SrcText(r) \/ SrcNotify(r) \/ DstNotify(r) \/ Purge(r) \/ ExtRead(r) \/ ExtNotify(r)
  BY <1>1, <1>6 DEF SrcText, SrcNotify, DstNotify, Purge, ExtRead, ExtNotify
<1>7. CASE ExtDoc(r)
  BY <1>7 DEF ExtDoc
<1>8. CASE ExtPages(r)
  BY <1>1, <1>8 DEF ExtPages, Raise
<1>9. CASE ExtText(r)
  BY <1>1, <1>9 DEF ExtText, Raise
<1>10. CASE UpFile(r) \/ UpCommit(r) \/ UpNotify(r) \/ DelCommit(r) \/ DelNotify(r)
  BY <1>1, <1>10 DEF UpFile, UpCommit, UpNotify, DelCommit, DelNotify, Raise
<1>11. QED
  BY <1>2, <1>3, <1>4, <1>5, <1>6, <1>7, <1>8, <1>9, <1>10 DEF Step

-----------------------------------------------------------------------------
(* AnnouncedWritten *)

\* The files a handler will announce are written.
Written(q) ==
    /\ q.pc \in {"srcText", "srcNotify"} => file[q.new].kind # "none"
    /\ q.pc = "dstNotify" => file[q.dnew].kind # "none"
    /\ q.pc \in {"upCommit", "upNotify"} =>
          \A v \in {q.new, q.dnew} \cap VerIds : file[v].kind # "none"

WrittenInv ==
    /\ AnnouncedWritten
    /\ \A r \in Reqs : Written(req[r])

\* No step removes a file.
FilesStay == \A v \in VerIds : file[v].kind # "none" => file'[v].kind # "none"

\* What is announced in a step is on disk after it.
AnnouncesWritten ==
    \A v \in VerIds : <<"s3_add", v>> \in sent' =>
        <<"s3_add", v>> \in sent \/ file'[v].kind # "none"

LEMMA WrittenKept ==
    ASSUME TypeInv, NEW r \in Reqs, Written(req[r]), FilesStay, UNCHANGED <<req[r]>>
    PROVE  Written(req[r])'
<1>1. LocalsAt(req[r].pc, req[r])
  BY LocalsOf
<1>2. /\ req[r].pc \in {"srcText", "srcNotify"} => req[r].new \in VerIds
      /\ req[r].pc = "dstNotify" => req[r].dnew \in VerIds
  BY <1>1 DEF LocalsAt
<1>3. QED
  BY <1>2 DEF Written, FilesStay

\* A step of request r that keeps the files and its own promise.
LEMMA WrittenStep ==
    ASSUME TypeInv, WrittenInv, NEW r \in Reqs, Others(r),
           FilesStay, AnnouncesWritten, Written(req[r])'
    PROVE  WrittenInv'
<1>1. AnnouncedWritten'
  BY DEF AnnouncesWritten, FilesStay, WrittenInv, AnnouncedWritten
<1>2. ASSUME NEW p \in Reqs PROVE Written(req[p])'
  <2>1. CASE p = r
    BY <2>1
  <2>2. CASE p # r
    BY <2>2, WrittenKept DEF WrittenInv, Others
  <2>3. QED
    BY <2>1, <2>2
<1>3. QED
  BY <1>1, <1>2 DEF WrittenInv

\* A step that writes no file and announces nothing, to a point without promise.
LEMMA WrittenIdle ==
    ASSUME TypeInv, WrittenInv, NEW r \in Reqs, Others(r), UNCHANGED file,
           \A v \in VerIds : <<"s3_add", v>> \in sent' => <<"s3_add", v>> \in sent,
           req'[r].pc \notin {"srcText", "srcNotify", "dstNotify", "upCommit", "upNotify"}
    PROVE  WrittenInv'
<1>1. FilesStay /\ AnnouncesWritten
  BY DEF FilesStay, AnnouncesWritten
<1>2. Written(req[r])'
  BY DEF Written
<1>3. QED
  BY <1>1, <1>2, WrittenStep

LEMMA WrittenGoto ==
    ASSUME TypeInv, WrittenInv, NEW r \in Reqs,
           NEW pc \in Pcs \ {"srcText", "srcNotify", "dstNotify", "upCommit", "upNotify"},
           Goto(r, pc), UNCHANGED file,
           \A v \in VerIds : <<"s3_add", v>> \in sent' => <<"s3_add", v>> \in sent
    PROVE  WrittenInv'
BY PcChanged, WrittenIdle

LEMMA WrittenStop ==
    ASSUME TypeInv, WrittenInv, NEW r \in Reqs,
           Goto(r, "error") \/ Goto(r, "done") \/ Goto(r, "crashed"), UNCHANGED <<file, sent>>
    PROVE  WrittenInv'
BY WrittenGoto DEF Pcs, Stopped

LEMMA WrittenRaise ==
    ASSUME TypeInv, WrittenInv, NEW r \in Reqs, Raise(r)
    PROVE  WrittenInv'
BY WrittenStop DEF Raise

LEMMA WrittenBegin ==
    ASSUME TypeInv, WrittenInv, NEW r \in Reqs, Begin(r)
    PROVE  WrittenInv'
<1>1. Others(r)
  BY OthersBegin
<1>2. UNCHANGED <<file, sent>>
  BY DEF Begin, BeginApply, BeginMove, BeginExtract, Create, BeginUpload, BeginDelete
<1>3. req'[r].pc \in {"srcRead", "done", "upFile", "delCommit"}
  <2> USE NoRequestType DEF TypeInv, Request
  <2>1. CASE BeginApply(r)
    BY <2>1 DEF BeginApply, Selected
  <2>2. CASE BeginMove(r)
    BY <2>2 DEF BeginMove, Selected, Targeted
  <2>3. CASE BeginExtract(r)
    BY <2>3 DEF BeginExtract, Selected
  <2>4. CASE Create(r)
    BY <2>4 DEF Create
  <2>5. CASE BeginUpload(r)
    BY <2>5 DEF BeginUpload
  <2>6. CASE BeginDelete(r)
    BY <2>6 DEF BeginDelete
  <2>7. QED
    BY <2>1, <2>2, <2>3, <2>4, <2>5, <2>6 DEF Begin
<1>4. QED
  BY <1>1, <1>2, <1>3, WrittenIdle

LEMMA WrittenSource ==
    ASSUME TypeInv, WrittenInv, NEW r \in Reqs,
           SrcRead(r) \/ SrcInsert(r) \/ SrcPdf(r) \/ SrcText(r) \/ SrcNotify(r)
    PROVE  WrittenInv'
<1>1. req[r] \in Request /\ LocalsAt(req[r].pc, req[r]) /\ Others(r)
  BY LocalsOf, OthersStep DEF Step
<1>2. CASE Raise(r)
  BY <1>2, WrittenRaise
<1>3. CASE SrcRead(r) /\ ~Raise(r)
  <2>1. UNCHANGED <<file, sent>> /\ req'[r].pc = "srcInsert"
    BY <1>3, BumpReadEffect DEF SrcRead
  <2>2. QED
    BY <1>1, <2>1, WrittenIdle
<1>4. CASE SrcInsert(r) /\ ~Raise(r)
  <2>1. UNCHANGED <<file, sent>> /\ req'[r].pc = "srcPdf"
    BY <1>1, <1>4 DEF SrcInsert, BumpInsert, TypeInv, Request
  <2>2. QED
    BY <1>1, <2>1, WrittenIdle
<1>5. CASE SrcPdf(r) /\ ~Raise(r)
  <2>1. PICK s : file' = [file EXCEPT ![req[r].new] = Pdf(s)]
    BY <1>5 DEF SrcPdf
  <2>2. req[r].new \in VerIds /\ UNCHANGED sent
    BY <1>1, <1>5 DEF LocalsAt, SrcPdf, At
  <2>3. file'[req[r].new].kind # "none" /\ FilesStay
    BY <2>1, <2>2 DEF Pdf, FilesStay, TypeInv, StoreType
  <2>4. Goto(r, "error") \/ Goto(r, "srcText")
    BY <1>5 DEF SrcPdf
  <2>5. Written(req[r])'
    BY <2>3, <2>4, PcChanged DEF Written
  <2>6. QED
    BY <1>1, <2>2, <2>3, <2>5, WrittenStep DEF AnnouncesWritten
<1>6. CASE SrcText(r)
  <2>1. UNCHANGED <<file, sent>> /\ Goto(r, "srcNotify") /\ req[r].pc = "srcText"
    BY <1>6 DEF SrcText, At
  <2>2. Written(req[r])'
    BY <2>1, PcChanged DEF Written, WrittenInv
  <2>3. QED
    BY <1>1, <2>1, <2>2, WrittenStep DEF FilesStay, AnnouncesWritten
<1>7. CASE SrcNotify(r)
  <2>1. UNCHANGED file /\ file[req[r].new].kind # "none"
    BY <1>7 DEF SrcNotify, At, WrittenInv, Written
  <2>2. AnnouncesWritten
    BY <1>7, <2>1 DEF AnnouncesWritten, SrcNotify, Send, VersionUpdate
  <2>3. PICK pc \in {"done", "dstRead", "extRead"} : Goto(r, pc)
    BY <1>7, Zenon DEF SrcNotify
  <2>4. Written(req[r])'
    BY <2>3, PcChanged DEF Written
  <2>5. QED
    BY <1>1, <2>1, <2>2, <2>4, WrittenStep DEF FilesStay
<1>8. QED
  BY <1>2, <1>3, <1>4, <1>5, <1>6, <1>7

LEMMA WrittenTarget ==
    ASSUME TypeInv, WrittenInv, NEW r \in Reqs,
           DstRead(r) \/ DstInsert(r) \/ DstPdf(r) \/ DstNotify(r) \/ Purge(r)
    PROVE  WrittenInv'
<1>1. req[r] \in Request /\ LocalsAt(req[r].pc, req[r]) /\ Others(r)
  BY LocalsOf, OthersStep DEF Step
<1>2. CASE Raise(r)
  BY <1>2, WrittenRaise
<1>3. CASE DstRead(r) /\ ~Raise(r)
  <2>1. UNCHANGED <<file, sent>> /\ req'[r].pc = "dstInsert"
    BY <1>3, BumpReadEffect DEF DstRead
  <2>2. QED
    BY <1>1, <2>1, WrittenIdle
<1>4. CASE DstInsert(r) /\ ~Raise(r)
  <2>1. UNCHANGED <<file, sent>> /\ req'[r].pc = "dstPdf"
    BY <1>1, <1>4 DEF DstInsert, BumpInsert, TypeInv, Request
  <2>2. QED
    BY <1>1, <2>1, WrittenIdle
<1>5. CASE DstPdf(r) /\ ~Raise(r)
  <2>1. /\ file' = [file EXCEPT ![req[r].dnew] = Pdf(DstPages(r))]
        /\ UNCHANGED sent
        /\ req'[r].pc \in {"error", "purge", "dstNotify"} /\ req'[r].dnew = req[r].dnew
    BY <1>1, <1>5 DEF DstPdf, TypeInv, Request
  <2>2. req[r].dnew \in VerIds
    BY <1>1, <1>5 DEF LocalsAt, DstPdf, At
  <2>3. file'[req[r].dnew].kind # "none" /\ FilesStay
    BY <2>1, <2>2 DEF Pdf, FilesStay, TypeInv, StoreType
  <2>4. Written(req[r])'
    BY <2>1, <2>3 DEF Written
  <2>5. QED
    BY <1>1, <2>1, <2>3, <2>4, WrittenStep DEF AnnouncesWritten
<1>6. CASE DstNotify(r)
  <2>1. UNCHANGED file /\ file[req[r].dnew].kind # "none" /\ Goto(r, "done")
    BY <1>6 DEF DstNotify, At, WrittenInv, Written
  <2>2. AnnouncesWritten
    BY <1>6, <2>1 DEF AnnouncesWritten, DstNotify, Send, VersionUpdate
  <2>3. Written(req[r])'
    BY <2>1, PcChanged DEF Written
  <2>4. QED
    BY <1>1, <2>1, <2>2, <2>3, WrittenStep DEF FilesStay
<1>7. CASE Purge(r)
  BY <1>7, WrittenStop DEF Purge
<1>8. QED
  BY <1>2, <1>3, <1>4, <1>5, <1>6, <1>7

LEMMA WrittenExtract ==
    ASSUME TypeInv, WrittenInv, NEW r \in Reqs,
           ExtRead(r) \/ ExtDoc(r) \/ ExtPages(r) \/ ExtText(r) \/ ExtNotify(r)
    PROVE  WrittenInv'
<1>1. req[r] \in Request /\ LocalsAt(req[r].pc, req[r]) /\ Others(r)
  BY LocalsOf, OthersStep DEF Step
<1>2. CASE Raise(r)
  BY <1>2, WrittenRaise
<1>3. CASE ExtRead(r)
  <2>1. PICK pc \in {"extDoc", "extNotify", "error"} : Goto(r, pc)
    BY <1>3, Zenon DEF ExtRead
  <2>2. QED
    BY <1>3, <2>1, WrittenGoto DEF ExtRead, Pcs, ExtPcs, Stopped
<1>4. CASE ExtDoc(r)
  <2>1. UNCHANGED <<file, sent>> /\ req'[r].pc = "extPages"
    BY <1>4, ExtDocEffect
  <2>2. QED
    BY <1>1, <2>1, WrittenIdle
<1>5. CASE ExtPages(r) /\ ~Raise(r)
  <2>1. PICK v, s : v \in FillTarget(req[r].cur) /\ FillVersion(req[r].cur, v, s)
    BY <1>5, ExtPagesEffect
  <2>2. FilesStay
    BY <2>1 DEF FillVersion, Pdf, FilesStay, TypeInv, StoreType
  <2>3. UNCHANGED sent /\ req'[r].pc \in {"error", "extText"}
    BY <1>5, ExtPagesEffect
  <2>4. QED
    BY <1>1, <2>2, <2>3, WrittenStep DEF AnnouncesWritten, Written
<1>6. CASE ExtText(r)
  <2>1. UNCHANGED <<file, sent>> /\ req'[r].pc \in {"extNotify", "extDoc", "error"}
    BY <1>6, ExtTextEffect
  <2>2. QED
    BY <1>1, <2>1, WrittenIdle
<1>7. CASE ExtNotify(r)
  <2>1. PICK pc \in {"error", "purge", "done"} : Goto(r, pc)
    BY <1>7, Zenon DEF ExtNotify
  <2>2. \A v \in VerIds : <<"s3_add", v>> \in sent' => <<"s3_add", v>> \in sent
    BY <1>7 DEF ExtNotify, Send
  <2>3. QED
    BY <1>7, <2>1, <2>2, WrittenGoto DEF ExtNotify, Pcs, Stopped
<1>8. QED
  BY <1>2, <1>3, <1>4, <1>5, <1>6, <1>7

LEMMA WrittenUpload ==
    ASSUME TypeInv, WrittenInv, NEW r \in Reqs,
           UpFile(r) \/ UpCommit(r) \/ UpNotify(r)
    PROVE  WrittenInv'
<1>1. req[r] \in Request /\ Others(r)
  BY LocalsOf, OthersStep DEF Step
<1>2. CASE Raise(r)
  BY <1>2, WrittenRaise
<1>3. CASE UpFile(r)
  <2>1. UNCHANGED sent /\ Goto(r, "upCommit")
    BY <1>3 DEF UpFile
  <2>2. FilesStay
    BY <1>3 DEF UpFile, Pdf, FilesStay, TypeInv, StoreType
  <2>3. \A v \in {req[r].new, req[r].dnew} \cap VerIds : file'[v].kind # "none"
    <3>1. CASE req[r].dnew = 0
      BY <1>3, <3>1 DEF UpFile, Pdf, TypeInv, StoreType, VerIds
    <3>2. CASE req[r].dnew # 0
      BY <1>3, <3>2 DEF UpFile, Pdf, TypeInv, StoreType
    <3>3. QED
      BY <3>1, <3>2
  <2>4. Written(req[r])'
    BY <2>1, <2>3, PcChanged DEF Written
  <2>5. QED
    BY <1>1, <2>1, <2>2, <2>4, WrittenStep DEF AnnouncesWritten
<1>4. CASE UpCommit(r) /\ ~Raise(r)
  <2>1. UNCHANGED <<file, sent>> /\ Goto(r, "upNotify") /\ req[r].pc = "upCommit"
    BY <1>4 DEF UpCommit, At
  <2>2. Written(req[r])'
    BY <2>1, PcChanged DEF Written, WrittenInv
  <2>3. QED
    BY <1>1, <2>1, <2>2, WrittenStep DEF FilesStay, AnnouncesWritten
<1>5. CASE UpNotify(r) /\ ~Raise(r)
  <2>1. UNCHANGED file /\ Goto(r, "done") /\ req[r].pc = "upNotify"
    BY <1>5 DEF UpNotify, At
  <2>2. \A v \in {req[r].new, req[r].dnew} \cap VerIds : file[v].kind # "none"
    BY <2>1 DEF WrittenInv, Written
  <2>3. AnnouncesWritten
    BY <1>5, <2>1, <2>2 DEF AnnouncesWritten, UpNotify, Send
  <2>4. Written(req[r])'
    BY <2>1, PcChanged DEF Written
  <2>5. QED
    BY <1>1, <2>1, <2>3, <2>4, WrittenStep DEF FilesStay
<1>6. QED
  BY <1>2, <1>3, <1>4, <1>5

LEMMA WrittenDelete ==
    ASSUME TypeInv, WrittenInv, NEW r \in Reqs, DelCommit(r) \/ DelNotify(r)
    PROVE  WrittenInv'
<1>1. CASE DelCommit(r)
  BY <1>1, WrittenGoto DEF DelCommit, Pcs, DelPcs
<1>2. CASE DelNotify(r)
  BY <1>2, WrittenGoto DEF DelNotify, Send, Pcs, Stopped
<1>3. QED
  BY <1>1, <1>2

LEMMA WrittenNext == TypeInv /\ WrittenInv /\ [Next]_vars => WrittenInv'
<1> SUFFICES ASSUME TypeInv, WrittenInv, [Next]_vars PROVE WrittenInv'
  OBVIOUS
<1>1. ASSUME NEW r \in Reqs, Step(r) PROVE WrittenInv'
  BY <1>1, WrittenSource, WrittenTarget, WrittenExtract, WrittenUpload, WrittenDelete DEF Step
<1>2. ASSUME NEW r \in Reqs, Crash(r) PROVE WrittenInv'
  BY <1>2, WrittenStop DEF Crash
<1>3. CASE UNCHANGED <<req, file, sent>>
  BY <1>3 DEF WrittenInv, AnnouncedWritten, Written
<1>4. QED
  BY <1>1, <1>2, <1>3, WrittenBegin DEF Next, OcrDone, vars

\* Tasks that copy a version to the S3 store (SEND_S3 tasks of every handler) name
\* versions whose file is on disk, whatever requests run and wherever one dies.
THEOREM AnnouncedAreWritten == Spec => []AnnouncedWritten
<1>1. Init => WrittenInv
  BY NoRequestType DEF Init, WrittenInv, AnnouncedWritten, Written
<1>2. WrittenInv => AnnouncedWritten
  BY DEF WrittenInv
<1>3. QED
  BY <1>1, <1>2, WrittenNext, TypeInvariant, PTL DEF Spec

-----------------------------------------------------------------------------
(* RemovedNotLast *)

\* Version w supersedes version v, as long as the document of v exists.
Newer(v, w) ==
    ver[v].doc # NoDoc => ver[w].doc = ver[v].doc /\ ver[w].number > ver[v].number

AtMost(v, n) == ver[v].doc # NoDoc => ver[v].number <= n

Owned(v, d) == ver[v].doc \in {NoDoc, d}

\* What request q knows about the versions it works on.
History(q) ==
    /\ q.old < nextVer /\ q.dst < nextVer
    /\ q.doc \notin unborn /\ q.into \notin unborn
    /\ q.pc \in SrcPcs => Owned(q.old, q.doc)
    /\ q.pc \in SrcPcs \cup DstPcs /\ q.op \in MoveOps => Owned(q.dst, q.into)
    /\ q.pc = "srcInsert" => AtMost(q.old, q.lnum)
    /\ q.pc = "dstInsert" => AtMost(q.dst, q.lnum)
    /\ q.pc \in {"srcPdf", "srcText", "srcNotify"} => Newer(q.old, q.new)
    /\ q.pc \in {"dstPdf", "dstNotify"} => Newer(q.dst, q.dnew)
    /\ q.pc \in {"upFile", "upCommit"} =>
          \A v \in {q.new, q.dnew} \cap VerIds : v < nextVer /\ Owned(v, q.doc)

\* Somebody relies on the number of version v.
Referenced(v) ==
    \/ \E r \in Reqs : v \in {req[r].old, req[r].dst}
    \/ <<"index_remove", v>> \in sent

Cascaded == \A v \in VerIds : ver[v].doc \in live \cup {NoDoc}
Unused == \A v \in VerIds : v >= nextVer => ver[v].doc = NoDoc
RemovedSuperseded ==
    \A v \in VerIds : <<"index_remove", v>> \in sent =>
        v < nextVer /\ \E w \in VerIds : Newer(v, w)
\* The versions an upload is about to write.
Holds(r) == IF req[r].pc \in {"upFile", "upCommit"}
            THEN {req[r].new, req[r].dnew} \cap VerIds ELSE {}

\* Nobody relies on a version an upload holds and has not inserted yet.
Reserved ==
    \A r \in Reqs : \A v \in Holds(r) :
        ver[v].doc = NoDoc /\ req[r].doc \in live => ~Referenced(v)

\* Uploads that hold the same version work on the same document.
HoldersAgree ==
    \A r, p \in Reqs : Holds(r) \cap Holds(p) # {} => req[r].doc = req[p].doc

HistoryInv ==
    /\ Cascaded /\ Unused /\ RemovedSuperseded /\ Reserved /\ HoldersAgree
    /\ \A r \in Reqs : History(req[r])

\* What a step may do to the versions: leave document and number alone, drop the
\* versions of a document that goes, insert a version nobody relies on.
VersionsEvolve ==
    \A v \in VerIds :
        \/ ver'[v].doc = ver[v].doc /\ ver'[v].number = ver[v].number
        \/ ver'[v].doc = NoDoc /\ ver[v].doc \notin live'
        \/ /\ ver[v].doc = NoDoc /\ ver'[v].doc # NoDoc /\ ~Referenced(v)
           /\ \A r \in Reqs : v \in Holds(r) => req[r].doc = ver'[v].doc

\* Documents are created from unborn identities, versions are never taken back.
StoreEvolves ==
    /\ VersionsEvolve
    /\ Cascaded' /\ Unused'
    /\ live' \subseteq live \cup unborn /\ unborn' \subseteq unborn /\ nextVer <= nextVer'

LEMMA NewerKept ==
    ASSUME TypeInv, HistoryInv, StoreEvolves, NEW v \in VerIds, NEW w \in VerIds,
           Newer(v, w), Referenced(v)
    PROVE  Newer(v, w)'
<1> SUFFICES ASSUME ver'[v].doc # NoDoc
             PROVE  ver'[w].doc = ver'[v].doc /\ ver'[w].number > ver'[v].number
  BY DEF Newer
<1>1. ver'[v].doc \in live'
  BY DEF StoreEvolves, Cascaded
<1>2. ver'[v].doc = ver[v].doc /\ ver'[v].number = ver[v].number
  BY DEF StoreEvolves, VersionsEvolve
<1>3. ver[w].doc = ver[v].doc /\ ver[w].number > ver[v].number
  BY <1>2 DEF Newer
<1>4. ver'[w].doc = ver[w].doc /\ ver'[w].number = ver[w].number
  BY <1>1, <1>2, <1>3 DEF StoreEvolves, VersionsEvolve
<1>5. QED
  BY <1>2, <1>3, <1>4

LEMMA AtMostKept ==
    ASSUME StoreEvolves, NEW v \in VerIds, NEW n, AtMost(v, n), Referenced(v)
    PROVE  AtMost(v, n)'
BY DEF AtMost, StoreEvolves, VersionsEvolve

LEMMA OwnedKept ==
    ASSUME StoreEvolves, NEW v \in VerIds, NEW d, Owned(v, d), Referenced(v)
    PROVE  Owned(v, d)'
BY DEF Owned, StoreEvolves, VersionsEvolve


\* What a handler knows stays true while its record does not change.
LEMMA HistoryKept ==
    ASSUME TypeInv, TypeInv', HistoryInv, StoreEvolves, NEW r \in Reqs, NEW q, q = req[r]
    PROVE  History(q)'
<1>1. /\ q \in Request /\ LocalsAt(q.pc, q) /\ History(q)
      /\ nextVer \in Nat /\ nextVer' \in Nat /\ nextVer <= nextVer'
      /\ unborn' \subseteq unborn
  BY DEF TypeInv, StoreType, HistoryInv, StoreEvolves
<1>2. q.old < nextVer' /\ q.dst < nextVer'
  <2>1. q.old \in Int /\ q.dst \in Int
    BY SMTT(30), <1>1 DEF Request, VerIds
  <2>2. q.old < nextVer /\ q.dst < nextVer
    BY <1>1 DEF History
  <2>3. QED
    BY <1>1, <2>1, <2>2
<1>3. q.doc \notin unborn' /\ q.into \notin unborn'
  BY <1>1 DEF History
<1>4. Referenced(q.old) /\ Referenced(q.dst)
  BY DEF Referenced
<1>5. ASSUME q.pc \in SrcPcs
      PROVE  /\ Owned(q.old, q.doc)'
             /\ q.pc = "srcInsert" => AtMost(q.old, q.lnum)'
             /\ q.pc \in {"srcPdf", "srcText", "srcNotify"} => Newer(q.old, q.new)'
  <2>1. q.old \in VerIds /\ (q.pc \in {"srcPdf", "srcText", "srcNotify"} => q.new \in VerIds)
    BY <1>1, <1>5 DEF LocalsAt
  <2>2. QED
    BY <1>1, <1>4, <1>5, <2>1, NewerKept, AtMostKept, OwnedKept DEF History
<1>6. ASSUME q.pc \in SrcPcs \cup DstPcs, q.op \in MoveOps
      PROVE  /\ Owned(q.dst, q.into)'
             /\ q.pc = "dstInsert" => AtMost(q.dst, q.lnum)'
             /\ q.pc \in {"dstPdf", "dstNotify"} => Newer(q.dst, q.dnew)'
  <2>1. q.dst \in VerIds /\ (q.pc \in {"dstPdf", "dstNotify"} => q.dnew \in VerIds)
    BY <1>1, <1>6 DEF LocalsAt
  <2>2. QED
    BY <1>1, <1>4, <1>6, <2>1, NewerKept, AtMostKept, OwnedKept DEF History
<1>7. ASSUME q.pc \in {"upFile", "upCommit"}, NEW v \in {q.new, q.dnew} \cap VerIds
      PROVE  v < nextVer' /\ Owned(v, q.doc)'
  <2>1. v < nextVer /\ Owned(v, q.doc) /\ v \in Holds(r) /\ v \in Int
    BY <1>1, <1>7 DEF History, Holds, VerIds
  <2>2. Owned(v, q.doc)'
    BY <2>1 DEF Owned, StoreEvolves, VersionsEvolve
  <2>3. QED
    BY <1>1, <2>1, <2>2
<1>8. q.pc \in DstPcs => q.op \in MoveOps
  BY <1>1 DEF LocalsAt
<1>9. QED
  BY <1>2, <1>3, <1>5, <1>6, <1>7, <1>8 DEF History, SrcPcs, DstPcs

\* Nobody starts to rely on a version that does not exist.
NoNewReference ==
    \A v \in VerIds : Referenced(v)' => Referenced(v) \/ ver[v].doc # NoDoc

\* What the index is told to remove in a step is superseded.
RemovesSuperseded ==
    \A v \in VerIds : <<"index_remove", v>> \in sent' =>
        \/ <<"index_remove", v>> \in sent
        \/ v < nextVer /\ Referenced(v) /\ \E w \in VerIds : Newer(v, w)

LEMMA HistoryStep ==
    ASSUME TypeInv, TypeInv', HistoryInv, StoreEvolves, NoNewReference, RemovesSuperseded,
           NEW r \in Reqs, Others(r), History(req[r])',
           Holds(r)' \subseteq Holds(r), Holds(r)' # {} => UNCHANGED req[r].doc
    PROVE  HistoryInv'
<1>1. Cascaded' /\ Unused'
  BY DEF StoreEvolves
<1>2. RemovedSuperseded'
  <2> SUFFICES ASSUME NEW v \in VerIds, <<"index_remove", v>> \in sent'
               PROVE  v < nextVer' /\ (\E w \in VerIds : Newer(v, w))'
    BY DEF RemovedSuperseded
  <2>1. v < nextVer /\ Referenced(v) /\ \E w \in VerIds : Newer(v, w)
    BY DEF RemovesSuperseded, HistoryInv, RemovedSuperseded, Referenced
  <2>2. v < nextVer'
    <3>1. v \in Int /\ nextVer \in Int /\ nextVer' \in Int /\ nextVer <= nextVer'
      BY DEF VerIds, TypeInv, StoreType, StoreEvolves
    <3>2. QED
      BY <2>1, <3>1
  <2>3. QED
    BY <2>1, <2>2, NewerKept
<1>3. ASSUME NEW p \in Reqs PROVE History(req[p])'
  <2>1. CASE p = r
    BY <2>1
  <2>2. CASE p # r
    <3>1. req'[p] = req[p]
      BY <2>2 DEF Others
    <3> DEFINE q == req[p]
    <3>2. ASSUME NEW c, c = req[p] PROVE History(c)'
      BY <3>2, HistoryKept
    <3>3. QED
      BY <3>1, <3>2
  <2>3. QED
    BY <2>1, <2>2
<1>4. \A p \in Reqs : Holds(p)' \subseteq Holds(p) /\ (Holds(p)' # {} => req'[p].doc = req[p].doc)
  BY DEF Others, Holds
<1>5. Reserved'
  <2> SUFFICES ASSUME NEW p \in Reqs, NEW v \in Holds(p)',
                      ver'[v].doc = NoDoc, req'[p].doc \in live'
               PROVE  ~Referenced(v)'
    BY DEF Reserved
  <2>1. v \in Holds(p) /\ req'[p].doc = req[p].doc /\ v \in VerIds
    BY <1>4 DEF Holds
  <2>2. Owned(v, req[p].doc) /\ req[p].doc \notin unborn
    BY <2>1 DEF HistoryInv, History, Holds
  <2>3. req[p].doc \in live
    BY <2>1, <2>2 DEF StoreEvolves
  <2>4. ver[v].doc = NoDoc
    BY <2>1, <2>2 DEF StoreEvolves, VersionsEvolve, Owned
  <2>5. ~Referenced(v)
    BY <2>1, <2>3, <2>4 DEF HistoryInv, Reserved
  <2>6. QED
    BY <2>1, <2>4, <2>5 DEF NoNewReference
<1>6. HoldersAgree'
  BY <1>4 DEF HoldersAgree, HistoryInv
<1>7. QED
  BY <1>1, <1>2, <1>3, <1>5, <1>6 DEF HistoryInv

\* The old and the target version of a handler stay the same after it began.
LEMMA ReferencesStay ==
    ASSUME RemovesSuperseded, NEW r \in Reqs, Others(r),
           req'[r].old = req[r].old, req'[r].dst = req[r].dst
    PROVE  NoNewReference
BY DEF NoNewReference, RemovesSuperseded, Referenced, Others

\* Steps to a point that needs no new knowledge.
Advance(q, pc) ==
    \/ pc \in Stopped \cup ExtPcs \cup DelPcs \cup {"purge", "upNotify"}
    \/ q.pc = "srcPdf" /\ pc = "srcText"
    \/ q.pc = "srcText" /\ pc = "srcNotify"
    \/ q.pc = "srcNotify" /\ pc = "dstRead" /\ q.op \in MoveOps
    \/ q.pc = "upFile" /\ pc = "upCommit"

LEMMA HistoryAdvance ==
    ASSUME TypeInv, TypeInv', HistoryInv, StoreEvolves, RemovesSuperseded,
           NEW r \in Reqs, Others(r), SameTask(req'[r], req[r]), Advance(req[r], req'[r].pc)
    PROVE  HistoryInv'
<1>1. NoNewReference
  BY ReferencesStay DEF SameTask
<1>2. Holds(r)' \subseteq Holds(r) /\ UNCHANGED req[r].doc
  BY DEF Holds, Advance, SameTask, Stopped, ExtPcs, DelPcs
<1>3. History(req[r])'
  <2>1. ASSUME NEW q, q = req[r] PROVE History(req[r])'
    <3>1. History(q)'
      BY <2>1, HistoryKept
    <3>2. req'[r].pc \notin {"srcRead", "srcInsert", "srcPdf", "dstInsert", "dstPdf", "dstNotify", "upFile"}
      BY DEF Advance, Stopped, ExtPcs, DelPcs
    <3>3. CASE req'[r].pc \in {"srcText", "srcNotify"}
      BY <2>1, <3>1, <3>3 DEF History, SameTask, Advance, SrcPcs, DstPcs, Stopped, ExtPcs, DelPcs
    <3>4. CASE req'[r].pc = "dstRead"
      BY <2>1, <3>1, <3>4 DEF History, SameTask, Advance, SrcPcs, DstPcs, Stopped, ExtPcs, DelPcs
    <3>5. CASE req'[r].pc = "upCommit"
      BY <2>1, <3>1, <3>5 DEF History, SameTask, Advance, SrcPcs, DstPcs, Stopped, ExtPcs, DelPcs
    <3>6. CASE req'[r].pc \notin {"srcText", "srcNotify", "dstRead", "upCommit"}
      BY <2>1, <3>1, <3>2, <3>6 DEF History, SameTask, SrcPcs, DstPcs
    <3>7. QED
      BY <3>3, <3>4, <3>5, <3>6
  <2>2. QED
    BY <2>1
<1>4. QED
  BY <1>1, <1>2, <1>3, HistoryStep

LEMMA HistoryGoto ==
    ASSUME TypeInv, TypeInv', HistoryInv, StoreEvolves, RemovesSuperseded,
           NEW r \in Reqs, NEW pc, Goto(r, pc), Advance(req[r], pc)
    PROVE  HistoryInv'
<1>1. Others(r) /\ SameTask(req'[r], req[r]) /\ req'[r].pc = pc
  BY PcChanged DEF SameTask
<1>2. QED
  BY <1>1, HistoryAdvance

LEMMA SentStays ==
    ASSUME \A v \in VerIds : <<"index_remove", v>> \in sent' => <<"index_remove", v>> \in sent
    PROVE  RemovesSuperseded
BY DEF RemovesSuperseded

-----------------------------------------------------------------------------
(* How each kind of step changes the store *)

\* Same documents, same numbers.
SameVersions ==
    /\ \A v \in VerIds : ver'[v].doc = ver[v].doc /\ ver'[v].number = ver[v].number
    /\ UNCHANGED <<live, unborn, nextVer>>

LEMMA SameEvolves ==
    ASSUME TypeInv, HistoryInv, SameVersions
    PROVE  StoreEvolves
BY DEF SameVersions, StoreEvolves, VersionsEvolve, HistoryInv, Cascaded, Unused, TypeInv, StoreType

LEMMA UnchangedEvolves ==
    ASSUME TypeInv, HistoryInv, UNCHANGED store
    PROVE  StoreEvolves
BY SameEvolves DEF SameVersions, store

LEMMA WriteTextEvolves ==
    ASSUME TypeInv, HistoryInv, NEW v, NEW texts, WriteText(v, texts),
           UNCHANGED <<live, unborn, nextVer>>
    PROVE  StoreEvolves
<1>1. PICK rows : ver' = [ver EXCEPT ![v].pages = rows]
  BY DEF WriteText
<1>2. ver' = [ver EXCEPT ![v] = [ver[v] EXCEPT !.pages = rows]]
  BY <1>1
<1>3. SameVersions
  <2>1. ASSUME NEW w \in VerIds PROVE ver'[w].doc = ver[w].doc /\ ver'[w].number = ver[w].number
    <3>1. ver[w] \in Version
      BY DEF TypeInv, StoreType
    <3>2. CASE w = v
      <4>1. ver'[w] = [ver[w] EXCEPT !.pages = rows]
        BY <1>2, <3>2 DEF TypeInv, StoreType
      <4>2. QED
        BY <3>1, <4>1 DEF Version
    <3>3. CASE w # v
      BY <1>2, <3>3 DEF TypeInv, StoreType
    <3>4. QED
      BY <3>2, <3>3
  <2>2. QED
    BY <2>1 DEF SameVersions
<1>4. QED
  BY <1>3, SameEvolves

\* The version that will get id nextVer does not exist, and nobody relies on it.
LEMMA NextIsFree ==
    ASSUME TypeInv, HistoryInv
    PROVE  /\ \A v \in VerIds : v >= nextVer => ver[v].doc = NoDoc /\ ~Referenced(v)
           /\ \A v \in VerIds, r \in Reqs : v >= nextVer => v \notin Holds(r)
<1> SUFFICES ASSUME NEW v \in VerIds, v >= nextVer
             PROVE  /\ ver[v].doc = NoDoc /\ ~Referenced(v)
                    /\ \A r \in Reqs : v \notin Holds(r)
  OBVIOUS
<1>1. v \in Int /\ nextVer \in Int
  BY DEF VerIds, TypeInv, StoreType
<1>2. ver[v].doc = NoDoc
  BY DEF HistoryInv, Unused
<1>3. <<"index_remove", v>> \notin sent
  BY <1>1 DEF HistoryInv, RemovedSuperseded
<1>4. ASSUME NEW r \in Reqs PROVE v \notin {req[r].old, req[r].dst} /\ v \notin Holds(r)
  BY <1>1 DEF HistoryInv, History, Holds
<1>5. QED
  BY <1>2, <1>3, <1>4 DEF Referenced

\* Insertion of a row with id nextVer, for a document that exists afterwards.
LEMMA InsertEvolves ==
    ASSUME TypeInv, HistoryInv, nextVer \in VerIds, nextVer' = nextVer + 1,
           NEW row, row.doc \in live', row.doc # NoDoc, ver' = [ver EXCEPT ![nextVer] = row],
           live \subseteq live', live' \subseteq live \cup unborn, unborn' \subseteq unborn
    PROVE  StoreEvolves
<1>1. nextVer \in Int
  BY DEF TypeInv, StoreType
<1>2. \A v \in VerIds : ver'[v] = IF v = nextVer THEN row ELSE ver[v]
  BY DEF TypeInv, StoreType
<1>3. VersionsEvolve
  BY <1>1, <1>2, NextIsFree DEF VersionsEvolve
<1>4. Cascaded'
  BY <1>2 DEF Cascaded, HistoryInv
<1>5. Unused'
  <2> SUFFICES ASSUME NEW v \in VerIds, v >= nextVer + 1 PROVE ver'[v].doc = NoDoc
    BY DEF Unused
  <2>1. v \in Int
    BY DEF VerIds
  <2>2. QED
    BY <1>1, <1>2, <2>1 DEF HistoryInv, Unused
<1>6. QED
  BY <1>1, <1>3, <1>4, <1>5 DEF StoreEvolves

LEMMA BumpEvolves ==
    ASSUME TypeInv, HistoryInv, NEW r \in Reqs, NEW d \in live, NEW count,
           BumpInsert(r, d, count)
    PROVE  /\ StoreEvolves /\ nextVer \in VerIds
           /\ ver'[nextVer].doc = d /\ ver'[nextVer].number = req[r].lnum + 1
           /\ \A v \in VerIds \ {nextVer} : ver'[v] = ver[v]
<1> DEFINE row == BumpVersion(r, d, count)
<1>1. row.doc = d /\ row.number = req[r].lnum + 1
  BY DEF BumpVersion
<1>2. d # NoDoc
  BY DocsAssumption DEF TypeInv, StoreType
<1>3. nextVer \in VerIds /\ ver' = [ver EXCEPT ![nextVer] = row] /\ nextVer' = nextVer + 1
      /\ UNCHANGED <<live, unborn>>
  BY DEF BumpInsert
<1> HIDE DEF row
<1>4. StoreEvolves
  BY <1>1, <1>2, <1>3, InsertEvolves
<1>5. QED
  BY <1>1, <1>3, <1>4 DEF TypeInv, StoreType

LEMMA CreateEvolves ==
    ASSUME TypeInv, HistoryInv, NEW d, CreateDocument(d)
    PROVE  StoreEvolves
<1> DEFINE row == [NoVersion EXCEPT !.doc = d, !.number = 1]
<1>1. row.doc = d
  BY DEF NoVersion
<1>2. d # NoDoc
  BY DocsAssumption DEF CreateDocument, TypeInv, StoreType
<1>3. nextVer \in VerIds /\ ver' = [ver EXCEPT ![nextVer] = row] /\ nextVer' = nextVer + 1
      /\ d \in live' /\ live \subseteq live' /\ live' \subseteq live \cup unborn
      /\ unborn' \subseteq unborn
  BY DEF CreateDocument
<1> HIDE DEF row
<1>4. QED
  BY <1>1, <1>2, <1>3, InsertEvolves

LEMMA DropEvolves ==
    ASSUME TypeInv, HistoryInv, NEW d, DropDocument(d)
    PROVE  StoreEvolves
<1>1. \A v \in VerIds : ver'[v] = IF ver[v].doc = d THEN NoVersion ELSE ver[v]
  BY DEF DropDocument
<1>2. NoVersion.doc = NoDoc
  BY DEF NoVersion
<1>3. live' = live \ {d} /\ UNCHANGED <<unborn, nextVer>>
  BY DEF DropDocument
<1>4. VersionsEvolve
  BY <1>1, <1>2, <1>3, DocsAssumption DEF VersionsEvolve, TypeInv, StoreType
<1>5. Cascaded' /\ Unused'
  BY <1>1, <1>2, <1>3 DEF Cascaded, Unused, HistoryInv
<1>6. QED
  BY <1>3, <1>4, <1>5 DEF StoreEvolves, TypeInv, StoreType

LEMMA FillEvolves ==
    ASSUME TypeInv, HistoryInv, NEW d \in live, NEW v \in FillTarget(d), NEW s,
           FillVersion(d, v, s)
    PROVE  StoreEvolves
<1> DEFINE row == [doc |-> d, number |-> ver[v].number,
                   count |-> Len(s), sized |-> TRUE,
                   pages |-> ver[v].pages \o FreshRows(Len(s))]
<1>1. /\ ver' = [ver EXCEPT ![v] = row] /\ UNCHANGED <<live, unborn, nextVer>>
  BY DEF FillVersion
<1>2. row.doc = d /\ row.number = ver[v].number
  OBVIOUS
<1> HIDE DEF row
<1>3. v \in VerIds /\ ver[v].doc = d
  BY DEF FillTarget, Highest, Unsized, VersionsOf
<1>4. SameVersions
  BY <1>1, <1>2, <1>3 DEF SameVersions, TypeInv, StoreType
<1>5. QED
  BY <1>1, <1>4, SameEvolves

-----------------------------------------------------------------------------
(* The steps of the handlers *)

LEMMA HistoryRaise ==
    ASSUME TypeInv, TypeInv', HistoryInv, NEW r \in Reqs, Raise(r)
    PROVE  HistoryInv'
<1>1. StoreEvolves /\ RemovesSuperseded
  BY UnchangedEvolves, SentStays DEF Raise
<1>2. Advance(req[r], "error")
  BY DEF Advance, Stopped
<1>3. QED
  BY <1>1, <1>2, HistoryGoto DEF Raise

\* A version list of a document holds every version that belongs to it.
LEMMA LastIsHighest ==
    ASSUME TypeInv, NEW d, NEW v \in LastVersions(d), NEW w \in VerIds, Owned(w, d)
    PROVE  AtMost(w, ver[v].number)
BY DEF LastVersions, Highest, VersionsOf, Owned, AtMost

\* The step that begins a request.
LEMMA HistoryBeginStep ==
    ASSUME TypeInv, TypeInv', HistoryInv, StoreEvolves, UNCHANGED sent,
           NEW r \in Reqs, Others(r), History(req[r])',
           req'[r].pc \notin {"upFile", "upCommit"},
           \A v \in {req'[r].old, req'[r].dst} \cap VerIds : ver[v].doc # NoDoc
    PROVE  HistoryInv'
<1>1. RemovesSuperseded
  BY SentStays
<1>2. NoNewReference
  BY DEF NoNewReference, Referenced, Others
<1>3. Holds(r)' = {}
  BY DEF Holds
<1>4. QED
  BY <1>1, <1>2, <1>3, HistoryStep

LEMMA ChosenVersion ==
    ASSUME TypeInv, HistoryInv, NEW v \in Choosable
    PROVE  /\ v \in VerIds /\ v < nextVer /\ ver[v].doc # NoDoc
           /\ ver[v].doc \in live /\ ver[v].doc \notin unborn
<1>1. v \in VerIds /\ ver[v].doc \in live
  BY DEF Choosable
<1>2. ver[v].doc # NoDoc /\ ver[v].doc \notin unborn
  BY <1>1, DocsAssumption DEF TypeInv, StoreType
<1>3. ~(v >= nextVer)
  BY <1>1, <1>2 DEF HistoryInv, Unused
<1>4. QED
  BY <1>1, <1>2, <1>3 DEF VerIds, TypeInv, StoreType

LEMMA NoDocUnborn ==
    ASSUME TypeInv
    PROVE  NoDoc \notin unborn /\ 0 < nextVer
BY DocsAssumption DEF TypeInv, StoreType

LEMMA HistorySelect ==
    ASSUME TypeInv, TypeInv', HistoryInv, NEW r \in Reqs, BeginApply(r) \/ BeginExtract(r)
    PROVE  HistoryInv'
<1>1. PICK op, v, items : /\ op \in Choosers \ MoveOps /\ v \in Choosable
                          /\ req' = [req EXCEPT ![r] = Selected(op, v, items)]
                          /\ UNCHANGED <<store, sent>>
  <2>1. CASE BeginApply(r)
    BY <2>1 DEF BeginApply, Choosers, MoveOps
  <2>2. CASE BeginExtract(r)
    BY <2>2 DEF BeginExtract, Choosers, MoveOps, ExtractOps
  <2>3. QED
    BY <2>1, <2>2
<1>0. PICK q : q = Selected(op, v, items)
  OBVIOUS
<1>2. Others(r) /\ req'[r] = q
  BY <1>0, <1>1, OneChanged
<1>3. /\ q.op = op /\ q.pc = "srcRead" /\ q.old = v /\ q.doc = ver[v].doc
      /\ q.dst = 0 /\ q.into = NoDoc
  BY <1>0 DEF Selected, NoRequest
<1>4. StoreEvolves /\ UNCHANGED <<ver, nextVer, unborn>>
  BY <1>1, UnchangedEvolves DEF store
<1>5. History(q)'
  BY <1>1, <1>3, <1>4, ChosenVersion, NoDocUnborn DEF History, SrcPcs, Owned
<1>6. \A w \in {q.old, q.dst} \cap VerIds : ver[w].doc # NoDoc
  BY <1>1, <1>3, ChosenVersion DEF VerIds
<1>7. History(req[r])'
  BY <1>2, <1>5
<1>8. QED
  BY <1>1, <1>2, <1>3, <1>4, <1>6, <1>7, HistoryBeginStep

LEMMA HistoryBeginMove ==
    ASSUME TypeInv, TypeInv', HistoryInv, NEW r \in Reqs, BeginMove(r)
    PROVE  HistoryInv'
<1>1. PICK op \in MoveOps :
        /\ \E v, w \in Choosable :
           \E S \in Chosenable(v), i \in DOMAIN ver[w].pages :
           \E items \in ByNumber(ver[v].pages, S) :
             /\ SameDocMove \/ ver[v].doc # ver[w].doc
             /\ req' = [req EXCEPT ![r] = Targeted(Selected(op, v, items), w, i)]
        /\ UNCHANGED <<store, sent>>
  BY DEF BeginMove
<1>2. PICK v \in Choosable, w \in Choosable :
        \E i, items : req' = [req EXCEPT ![r] = Targeted(Selected(op, v, items), w, i)]
  BY <1>1
<1>3. PICK i, items : req' = [req EXCEPT ![r] = Targeted(Selected(op, v, items), w, i)]
  BY <1>2
<1>0. PICK q : q = Targeted(Selected(op, v, items), w, i)
  OBVIOUS
<1>4. Others(r) /\ req'[r] = q
  BY <1>0, <1>3, OneChanged
<1>5. /\ q.op = op /\ q.pc = "srcRead" /\ q.old = v /\ q.doc = ver[v].doc
      /\ q.dst = w /\ q.into = ver[w].doc
  BY <1>0 DEF Targeted, Selected, NoRequest
<1>6. StoreEvolves /\ UNCHANGED <<ver, nextVer, unborn>>
  BY <1>1, UnchangedEvolves DEF store
<1>7. History(q)'
  BY <1>2, <1>5, <1>6, ChosenVersion DEF History, SrcPcs, Owned
<1>8. \A x \in {q.old, q.dst} \cap VerIds : ver[x].doc # NoDoc
  BY <1>2, <1>5, ChosenVersion
<1>9. History(req[r])'
  BY <1>4, <1>7
<1>10. QED
  BY <1>1, <1>4, <1>5, <1>6, <1>8, <1>9, HistoryBeginStep

LEMMA HistoryCreateDelete ==
    ASSUME TypeInv, TypeInv', HistoryInv, NEW r \in Reqs, Create(r) \/ BeginDelete(r)
    PROVE  HistoryInv'
<1>1. StoreEvolves /\ UNCHANGED sent /\ Others(r)
  BY UnchangedEvolves, CreateEvolves, OthersBegin DEF Begin, Create, BeginDelete
<1>2. /\ req'[r].old = 0 /\ req'[r].dst = 0 /\ req'[r].into = NoDoc
      /\ req'[r].pc \in {"done", "delCommit"}
      /\ req'[r].doc \in live \cup {NoDoc}
  <2>1. CASE Create(r)
    BY <2>1 DEF Create, NoRequest, TypeInv
  <2>2. CASE BeginDelete(r)
    <3>1. PICK d, S : d \in live /\ req' = [req EXCEPT ![r] = [NoRequest EXCEPT
                    !.op = "delete", !.pc = "delCommit", !.doc = d, !.gone = S]]
      BY <2>2 DEF BeginDelete
    <3>2. QED
      BY <3>1 DEF NoRequest, TypeInv
  <2>3. QED
    BY <2>1, <2>2
<1>3. req'[r].doc \notin unborn' /\ NoDoc \notin unborn' /\ 0 < nextVer'
  BY <1>1, <1>2, DocsAssumption DEF TypeInv, StoreType, StoreEvolves
<1>4. History(req[r])'
  BY <1>2, <1>3 DEF History, SrcPcs, DstPcs
<1>5. \A v \in {req'[r].old, req'[r].dst} \cap VerIds : ver[v].doc # NoDoc
  BY <1>2 DEF VerIds
<1>6. QED
  BY <1>1, <1>2, <1>4, <1>5, HistoryBeginStep

LEMMA HistoryBeginUpload ==
    ASSUME TypeInv, TypeInv', HistoryInv, NEW r \in Reqs, BeginUpload(r)
    PROVE  HistoryInv'
<1>0. PICK op \in UploadOps, d \in live, c \in Uploads, v \in VerIds, w \in VerIds \cup {0} :
        BegunUpload(r, op, d, c, v, w)
  BY BeginUploadChoice, Zenon
<1>1. /\ req' = [req EXCEPT ![r] = [NoRequest EXCEPT
                            !.op = op, !.pc = "upFile", !.doc = d, !.up = c,
                            !.lnum = Cardinality(VersionsOf(d)), !.new = v, !.dnew = w]]
      /\ v \in Unsized(d) \/ (v = nextVer /\ v < nextVer')
      /\ w # 0 => w \in Unsized(d) \/ (w >= nextVer /\ w < nextVer')
  BY <1>0, Zenon DEF BegunUpload
<1>2. UNCHANGED <<live, unborn, ver, sent>>
  BY DEF BeginUpload
<1>5. nextVer \in Nat /\ d # NoDoc /\ d \notin unborn /\ 0 < nextVer
  BY DocsAssumption DEF TypeInv, StoreType
<1>9. nextVer <= nextVer'
  BY BeginUploadChoice
<1>3. PICK q : q = [NoRequest EXCEPT !.op = op, !.pc = "upFile", !.doc = d, !.up = c,
                            !.lnum = Cardinality(VersionsOf(d)), !.new = v, !.dnew = w]
  OBVIOUS
<1>10. Others(r) /\ req'[r] = q
  BY <1>1, <1>3, OneChanged
<1>11. /\ q.pc = "upFile" /\ q.doc = d /\ q.new = v /\ q.dnew = w
       /\ q.old = 0 /\ q.dst = 0 /\ q.into = NoDoc
  BY <1>3 DEF NoRequest
\* a version the request holds is new, or a version of the document of size 0
<1>12. ASSUME NEW x \in Holds(r)'
       PROVE  /\ x \in VerIds /\ x < nextVer'
              /\ x >= nextVer \/ ver[x].doc = d
  <2>1. x \in VerIds /\ x \in {v, w} /\ x \in Int /\ nextVer' \in Int
    BY <1>10, <1>11, <1>5 DEF Holds, VerIds, TypeInv, StoreType
  <2>2. x \in Unsized(d) \/ (x >= nextVer /\ x < nextVer')
    BY <1>1, <1>5, <2>1 DEF VerIds
  <2>3. CASE x \in Unsized(d)
    <3>1. ver[x].doc = d
      BY <2>3 DEF Unsized, VersionsOf
    <3>2. ~(x >= nextVer)
      BY <1>5, <2>1, <3>1 DEF HistoryInv, Unused
    <3>3. QED
      BY <1>5, <1>9, <2>1, <3>1, <3>2
  <2>4. QED
    BY <2>1, <2>2, <2>3
<1>13. StoreEvolves
  <2>1. VersionsEvolve
    BY <1>2 DEF VersionsEvolve
  <2>2. Cascaded'
    BY <1>2 DEF HistoryInv, Cascaded
  <2>3. Unused'
    <3>1. \A x \in VerIds : x >= nextVer' => x >= nextVer
      BY <1>5, <1>9 DEF VerIds, TypeInv, StoreType
    <3>2. QED
      BY <1>2, <3>1 DEF HistoryInv, Unused
  <2>4. QED
    BY <1>2, <1>9, <2>1, <2>2, <2>3 DEF StoreEvolves
<1>14. \A x \in VerIds : Referenced(x)' => Referenced(x)
  BY <1>2, <1>10, <1>11 DEF Referenced, Others, VerIds
<1>15. RemovedSuperseded'
  <2> SUFFICES ASSUME NEW x \in VerIds, <<"index_remove", x>> \in sent
               PROVE  x < nextVer' /\ (\E y \in VerIds : Newer(x, y))'
    BY <1>2 DEF RemovedSuperseded
  <2>1. x < nextVer /\ \E y \in VerIds : Newer(x, y)
    BY DEF HistoryInv, RemovedSuperseded
  <2>2. x \in Int /\ nextVer' \in Int
    BY DEF VerIds, TypeInv, StoreType
  <2>3. x < nextVer'
    BY <1>5, <1>9, <2>1, <2>2
  <2>4. PICK y \in VerIds : Newer(x, y)
    BY <2>1
  <2>5. Newer(x, y)'
    BY <1>2, <2>4 DEF Newer
  <2>6. QED
    BY <2>3, <2>5
<1>16. ASSUME NEW p \in Reqs, p # r PROVE Holds(p)' = Holds(p) /\ req'[p] = req[p]
  BY <1>10, <1>16 DEF Others, Holds
<1>17. Reserved'
  <2> SUFFICES ASSUME NEW p \in Reqs, NEW x \in Holds(p)', ver[x].doc = NoDoc,
                      req'[p].doc \in live
               PROVE  ~Referenced(x)'
    BY <1>2 DEF Reserved
  <2>1. CASE p = r
    BY <1>5, <1>12, <1>14, <2>1, NextIsFree
  <2>2. CASE p # r
    BY <1>14, <1>16, <2>2 DEF HistoryInv, Reserved, Holds
  <2>3. QED
    BY <2>1, <2>2
<1>18. HoldersAgree'
  <2>1. ASSUME NEW p \in Reqs, p # r, NEW x, x \in Holds(p), x \in Holds(r)'
        PROVE  req[p].doc = d
    <3>1. ver[x].doc = d
      BY <1>12, <2>1, NextIsFree
    <3>2. Owned(x, req[p].doc)
      BY <2>1 DEF HistoryInv, History, Holds
    <3>3. QED
      BY <1>5, <3>1, <3>2 DEF Owned
  <2>2. req'[r].doc = d
    BY <1>10, <1>11
  <2>3. ASSUME NEW p \in Reqs, NEW o \in Reqs, NEW x, x \in Holds(p)', x \in Holds(o)'
        PROVE  req'[p].doc = req'[o].doc
    BY <1>16, <2>1, <2>2, <2>3 DEF HistoryInv, HoldersAgree
  <2>4. QED
    BY <2>3 DEF HoldersAgree
<1>19. ASSUME NEW p \in Reqs PROVE History(req[p])'
  <2>1. CASE p = r
    <3>1. \A x \in {q.new, q.dnew} \cap VerIds : x < nextVer' /\ Owned(x, q.doc)'
      <4> SUFFICES ASSUME NEW x \in {q.new, q.dnew} \cap VerIds
                   PROVE  x < nextVer' /\ Owned(x, q.doc)'
        OBVIOUS
      <4>1. x \in Holds(r)'
        BY <1>10, <1>11 DEF Holds
      <4>2. QED
        BY <1>2, <1>11, <1>12, <4>1, NextIsFree DEF Owned
    <3>2. 0 < nextVer'
      BY <1>5, <1>9 DEF TypeInv, StoreType
    <3>3. History(q)'
      BY <1>2, <1>5, <1>11, <3>1, <3>2, NoDocUnborn DEF History, SrcPcs, DstPcs
    <3>4. QED
      BY <1>10, <2>1, <3>3
  <2>2. CASE p # r
    <3>1. ASSUME NEW o, o = req[p] PROVE History(o)'
      BY <1>13, <3>1, HistoryKept
    <3>2. QED
      BY <1>16, <2>2, <3>1
  <2>3. QED
    BY <2>1, <2>2
<1>20. QED
  BY <1>13, <1>15, <1>17, <1>18, <1>19 DEF HistoryInv, StoreEvolves

LEMMA HistoryBumpRead ==
    ASSUME TypeInv, TypeInv', HistoryInv, NEW r \in Reqs, SrcRead(r) \/ DstRead(r)
    PROVE  HistoryInv'
<1>1. CASE Raise(r)
  BY <1>1, HistoryRaise
<1>2. CASE SrcRead(r) /\ ~Raise(r)
  <2>1. /\ req[r].pc = "srcRead"
        /\ \E v \in LastVersions(req[r].doc) : req'[r].lnum = ver[v].number
        /\ Others(r) /\ UNCHANGED <<store, file, ocr, sent>>
        /\ req'[r].pc = "srcInsert" /\ SameTask(req'[r], req[r])
    BY <1>2, BumpReadEffect DEF SrcRead, At
  <2>2. StoreEvolves /\ RemovesSuperseded /\ NoNewReference
    BY <2>1, UnchangedEvolves, SentStays, ReferencesStay DEF SameTask
  <2>3. req[r].old \in VerIds /\ Owned(req[r].old, req[r].doc)
    BY <2>1, LocalsOf DEF LocalsAt, SrcPcs, HistoryInv, History
  <2>4. AtMost(req[r].old, req'[r].lnum)
    BY <2>1, <2>3, LastIsHighest
  <2>5. History(req[r])
    BY DEF HistoryInv
  <2>6. History(req[r])'
    BY <2>1, <2>4, <2>5 DEF History, SameTask, SrcPcs, DstPcs, store, AtMost, Owned
  <2>7. Holds(r)' = {}
    BY <2>1 DEF Holds
  <2>8. QED
    BY <2>1, <2>2, <2>6, <2>7, HistoryStep
<1>3. CASE DstRead(r) /\ ~Raise(r)
  <2>1. /\ req[r].pc = "dstRead"
        /\ \E v \in LastVersions(req[r].into) : req'[r].lnum = ver[v].number
        /\ Others(r) /\ UNCHANGED <<store, file, ocr, sent>>
        /\ req'[r].pc = "dstInsert" /\ SameTask(req'[r], req[r])
    BY <1>3, BumpReadEffect DEF DstRead, At
  <2>2. StoreEvolves /\ RemovesSuperseded /\ NoNewReference
    BY <2>1, UnchangedEvolves, SentStays, ReferencesStay DEF SameTask
  <2>3. req[r].dst \in VerIds /\ Owned(req[r].dst, req[r].into)
    BY <2>1, LocalsOf DEF LocalsAt, DstPcs, HistoryInv, History
  <2>4. AtMost(req[r].dst, req'[r].lnum)
    BY <2>1, <2>3, LastIsHighest
  <2>5. History(req[r])
    BY DEF HistoryInv
  <2>6. History(req[r])'
    BY <2>1, <2>4, <2>5 DEF History, SameTask, SrcPcs, DstPcs, store, AtMost, Owned
  <2>7. Holds(r)' = {}
    BY <2>1 DEF Holds
  <2>8. QED
    BY <2>1, <2>2, <2>6, <2>7, HistoryStep
<1>4. QED
  BY <1>1, <1>2, <1>3

\* The version inserted by version_bump supersedes the ones the handler knew.
LEMMA BumpSupersedes ==
    ASSUME TypeInv, HistoryInv, NEW r \in Reqs, NEW d \in live, NEW count,
           BumpInsert(r, d, count), NEW n, n = nextVer, NEW v \in VerIds,
           v < nextVer, Owned(v, d), AtMost(v, req[r].lnum)
    PROVE  Newer(v, n)'
<1>1. /\ ver'[n].doc = d /\ ver'[n].number = req[r].lnum + 1 /\ ver'[v] = ver[v]
      /\ nextVer \in VerIds
  <2>1. v # nextVer
    BY DEF VerIds, TypeInv, StoreType
  <2>2. QED
    BY <2>1, BumpEvolves
<1>2. ver[v].number \in Nat /\ req[r].lnum \in Nat
  BY DEF TypeInv, StoreType, Version, Request
<1>3. QED
  BY <1>1, <1>2 DEF Newer, Owned, AtMost

LEMMA HistorySrcInsert ==
    ASSUME TypeInv, TypeInv', HistoryInv, NEW r \in Reqs, SrcInsert(r)
    PROVE  HistoryInv'
<1>1. CASE Raise(r)
  BY <1>1, HistoryRaise
<1>2. CASE ~Raise(r)
  <2>1. /\ req[r].pc = "srcInsert" /\ req[r].doc \in live
        /\ BumpInsert(r, req[r].doc, SrcCount(r))
        /\ req' = [req EXCEPT ![r].pc = "srcPdf", ![r].new = nextVer]
    BY <1>2 DEF SrcInsert, At
  <2>2. PICK n, q : n = nextVer /\ q = req[r]
    OBVIOUS
  <2>3. q \in Request /\ q.old \in VerIds /\ History(q)
    BY <2>1, <2>2, LocalsOf DEF LocalsAt, SrcPcs, HistoryInv
  <2>4. /\ Others(r) /\ req'[r].pc = "srcPdf" /\ req'[r].new = n
        /\ req'[r].op = q.op /\ req'[r].doc = q.doc /\ req'[r].into = q.into
        /\ req'[r].old = q.old /\ req'[r].dst = q.dst
    BY <2>1, <2>2, <2>3 DEF Request, TypeInv, Others
  <2>5. StoreEvolves /\ RemovesSuperseded
    BY <2>1, BumpEvolves, SentStays DEF BumpInsert
  <2>6. History(q)'
    BY <2>2, <2>5, HistoryKept
  <2>7. Newer(q.old, n)'
    BY <2>1, <2>2, <2>3, BumpSupersedes DEF History, SrcPcs
  <2>8. History(req[r])'
    BY <2>1, <2>2, <2>4, <2>6, <2>7 DEF History, SrcPcs, DstPcs
  <2>9. NoNewReference /\ Holds(r)' = {}
    BY <2>2, <2>4, <2>5, ReferencesStay DEF Holds
  <2>10. QED
    BY <2>4, <2>5, <2>8, <2>9, HistoryStep
<1>3. QED
  BY <1>1, <1>2

LEMMA HistoryDstInsert ==
    ASSUME TypeInv, TypeInv', HistoryInv, NEW r \in Reqs, DstInsert(r)
    PROVE  HistoryInv'
<1>1. CASE Raise(r)
  BY <1>1, HistoryRaise
<1>2. CASE ~Raise(r)
  <2>1. /\ req[r].pc = "dstInsert" /\ req[r].into \in live
        /\ BumpInsert(r, req[r].into, DstCount(r))
        /\ req' = [req EXCEPT ![r].pc = "dstPdf", ![r].dnew = nextVer]
    BY <1>2 DEF DstInsert, At
  <2>2. PICK n, q : n = nextVer /\ q = req[r]
    OBVIOUS
  <2>3. q \in Request /\ q.dst \in VerIds /\ q.op \in MoveOps /\ History(q)
    BY <2>1, <2>2, LocalsOf DEF LocalsAt, DstPcs, HistoryInv
  <2>4. /\ Others(r) /\ req'[r].pc = "dstPdf" /\ req'[r].dnew = n
        /\ req'[r].op = q.op /\ req'[r].doc = q.doc /\ req'[r].into = q.into
        /\ req'[r].old = q.old /\ req'[r].dst = q.dst
    BY <2>1, <2>2, <2>3 DEF Request, TypeInv, Others
  <2>5. StoreEvolves /\ RemovesSuperseded
    BY <2>1, BumpEvolves, SentStays DEF BumpInsert
  <2>6. History(q)'
    BY <2>2, <2>5, HistoryKept
  <2>7. Newer(q.dst, n)'
    BY <2>1, <2>2, <2>3, BumpSupersedes DEF History, DstPcs
  <2>8. History(req[r])'
    BY <2>1, <2>2, <2>3, <2>4, <2>6, <2>7 DEF History, SrcPcs, DstPcs
  <2>9. NoNewReference /\ Holds(r)' = {}
    BY <2>2, <2>4, <2>5, ReferencesStay DEF Holds
  <2>10. QED
    BY <2>4, <2>5, <2>8, <2>9, HistoryStep
<1>3. QED
  BY <1>1, <1>2

LEMMA HistorySource ==
    ASSUME TypeInv, TypeInv', HistoryInv, NEW r \in Reqs,
           SrcPdf(r) \/ SrcText(r) \/ SrcNotify(r)
    PROVE  HistoryInv'
<1>1. CASE SrcPdf(r)
  <2>1. UNCHANGED <<store, sent>> /\ req[r].pc = "srcPdf"
        /\ (Goto(r, "error") \/ Goto(r, "srcText"))
    BY <1>1 DEF SrcPdf, Raise, At
  <2>2. StoreEvolves /\ RemovesSuperseded
    BY <2>1, UnchangedEvolves, SentStays
  <2>3. QED
    BY <2>1, <2>2, HistoryGoto DEF Advance, Stopped
<1>2. CASE SrcText(r)
  <2>1. /\ UNCHANGED <<live, unborn, nextVer, sent>>
        /\ req[r].pc = "srcText" /\ Goto(r, "srcNotify")
        /\ \E texts : WriteText(req[r].new, texts)
    BY <1>2 DEF SrcText, CopyText, At
  <2>2. StoreEvolves /\ RemovesSuperseded
    BY <2>1, WriteTextEvolves, SentStays
  <2>3. QED
    BY <2>1, <2>2, HistoryGoto DEF Advance
<1>3. CASE SrcNotify(r)
  <2>1. /\ UNCHANGED store /\ req[r].pc = "srcNotify" /\ req[r].old \in VerIds
        /\ req[r].new \in VerIds /\ Newer(req[r].old, req[r].new) /\ req[r].old < nextVer
    BY <1>3, LocalsOf DEF SrcNotify, At, LocalsAt, SrcPcs, HistoryInv, History
  <2>2. RemovesSuperseded
    BY <1>3, <2>1 DEF RemovesSuperseded, SrcNotify, Send, VersionUpdate, Referenced
  <2>3. PICK pc : Goto(r, pc) /\ Advance(req[r], pc)
    BY <1>3, <2>1 DEF SrcNotify, Advance, Stopped, ExtPcs
  <2>4. QED
    BY <2>1, <2>2, <2>3, UnchangedEvolves, HistoryGoto
<1>4. QED
  BY <1>1, <1>2, <1>3

LEMMA DstPdfEffect ==
    ASSUME TypeInv, NEW r \in Reqs, DstPdf(r), ~Raise(r)
    PROVE  /\ Others(r) /\ UNCHANGED <<store, sent>>
           /\ req'[r].pc \in {"error", "purge", "dstNotify"} /\ SameTask(req'[r], req[r])
<1> DEFINE pc == CASE \/ ReuseOcrRaises(req[r].old, Range(req[r].todo))
                      \/ req[r].op = "mix" /\ ReuseOcrRaises(req[r].dst, {req[r].at}) -> "error"
                   [] OTHER -> IF AllChosen(r) THEN "purge" ELSE "dstNotify"
           q == [req[r] EXCEPT !.out = {req[r].dnew}, !.pc = pc]
<1>1. req' = [req EXCEPT ![r] = q] /\ UNCHANGED <<store, sent>>
  BY DEF DstPdf
<1>2. Others(r) /\ req'[r] = q
  BY <1>1, OneChanged
<1>3. req[r] \in Request /\ pc \in {"error", "purge", "dstNotify"}
  BY DEF TypeInv
<1> HIDE DEF pc
<1>4. q.pc = pc /\ SameTask(q, req[r])
  BY <1>3 DEF Request, SameTask
<1>5. QED
  BY <1>1, <1>2, <1>3, <1>4

LEMMA HistoryTarget ==
    ASSUME TypeInv, TypeInv', HistoryInv, NEW r \in Reqs,
           DstPdf(r) \/ DstNotify(r) \/ Purge(r)
    PROVE  HistoryInv'
<1>1. CASE Raise(r)
  BY <1>1, HistoryRaise
<1>2. CASE DstPdf(r) /\ ~Raise(r)
  <2>1. /\ Others(r) /\ UNCHANGED <<store, sent>>
        /\ req'[r].pc \in {"error", "purge", "dstNotify"} /\ SameTask(req'[r], req[r])
        /\ req[r].pc = "dstPdf"
    BY <1>2, DstPdfEffect DEF DstPdf, At
  <2>2. StoreEvolves /\ RemovesSuperseded /\ NoNewReference
    BY <2>1, UnchangedEvolves, SentStays, ReferencesStay DEF SameTask
  <2>3. PICK q : q = req[r]
    OBVIOUS
  <2>4. History(q)'
    BY <2>2, <2>3, HistoryKept
  <2>5. History(req[r])'
    BY <2>1, <2>3, <2>4 DEF History, SameTask, SrcPcs, DstPcs
  <2>6. Holds(r)' = {}
    BY <2>1 DEF Holds
  <2>7. QED
    BY <2>1, <2>2, <2>5, <2>6, HistoryStep
<1>3. CASE DstNotify(r)
  <2>1. /\ UNCHANGED store /\ Goto(r, "done") /\ req[r].dst \in VerIds
        /\ req[r].dnew \in VerIds /\ Newer(req[r].dst, req[r].dnew) /\ req[r].dst < nextVer
    BY <1>3, LocalsOf DEF DstNotify, At, LocalsAt, DstPcs, HistoryInv, History
  <2>2. RemovesSuperseded
    BY <1>3, <2>1 DEF RemovesSuperseded, DstNotify, Send, VersionUpdate, Referenced
  <2>3. QED
    BY <2>1, <2>2, UnchangedEvolves, HistoryGoto DEF Advance, Stopped
<1>4. CASE Purge(r)
  <2>1. StoreEvolves /\ RemovesSuperseded /\ Goto(r, "done")
    BY <1>4, DropEvolves, SentStays DEF Purge
  <2>2. QED
    BY <2>1, HistoryGoto DEF Advance, Stopped
<1>5. QED
  BY <1>1, <1>2, <1>3, <1>4

LEMMA HistoryExtract ==
    ASSUME TypeInv, TypeInv', HistoryInv, NEW r \in Reqs,
           ExtRead(r) \/ ExtDoc(r) \/ ExtPages(r) \/ ExtText(r) \/ ExtNotify(r)
    PROVE  HistoryInv'
<1>1. CASE Raise(r)
  BY <1>1, HistoryRaise
<1>2. CASE ExtRead(r) \/ ExtNotify(r)
  <2>1. UNCHANGED store
    BY <1>2 DEF ExtRead, ExtNotify
  <2>2. \A v \in VerIds : <<"index_remove", v>> \in sent' => <<"index_remove", v>> \in sent
    BY <1>2 DEF ExtRead, ExtNotify, Send
  <2>3. PICK pc : Goto(r, pc) /\ Advance(req[r], pc)
    BY <1>2 DEF ExtRead, ExtNotify, Advance, Stopped, ExtPcs
  <2>4. QED
    BY <2>1, <2>2, <2>3, UnchangedEvolves, SentStays, HistoryGoto
<1>3. CASE ExtDoc(r)
  <2>1. /\ Others(r) /\ UNCHANGED sent /\ SameTask(req'[r], req[r])
        /\ req'[r].pc \in ExtPcs /\ \E d : CreateDocument(d)
    BY <1>3, ExtDocEffect DEF ExtPcs
  <2>2. QED
    BY <2>1, CreateEvolves, SentStays, HistoryAdvance DEF Advance
<1>4. CASE ExtPages(r) /\ ~Raise(r)
  <2>1. /\ Others(r) /\ UNCHANGED sent /\ SameTask(req'[r], req[r])
        /\ req'[r].pc \in {"error", "extText"} /\ req[r].cur \in live
        /\ \E v \in FillTarget(req[r].cur) : \E s : FillVersion(req[r].cur, v, s)
    BY <1>4, ExtPagesEffect
  <2>2. QED
    BY <2>1, FillEvolves, SentStays, HistoryAdvance DEF Advance, ExtPcs, Stopped
<1>5. CASE ExtText(r)
  <2>1. /\ Others(r) /\ UNCHANGED <<live, unborn, nextVer, sent>> /\ SameTask(req'[r], req[r])
        /\ req'[r].pc \in {"extNotify", "extDoc", "error"}
    BY <1>5, ExtTextEffect
  <2>2. StoreEvolves
    <3>1. CASE UNCHANGED store
      BY <3>1, UnchangedEvolves
    <3>2. CASE \E v, texts : WriteText(v, texts)
      BY <2>1, <3>2, WriteTextEvolves
    <3>3. QED
      BY <1>5, <3>1, <3>2 DEF ExtText, CopyText
  <2>3. QED
    BY <2>1, <2>2, SentStays, HistoryAdvance DEF Advance, ExtPcs, Stopped
<1>6. QED
  BY <1>1, <1>2, <1>3, <1>4, <1>5

\* Uploaded rows go to versions the upload holds, and that nobody relies on
\* when they are new.
LEMMA UpCommitEvolves ==
    ASSUME TypeInv, HistoryInv, NEW r \in Reqs, req[r].pc = "upCommit", req[r].doc \in live,
           ver' = [v \in VerIds |-> IF v \in {req[r].new, req[r].dnew}
                                    THEN UploadedVersion(r, v) ELSE ver[v]],
           UNCHANGED <<live, unborn, nextVer>>
    PROVE  StoreEvolves
<1>1. req[r].doc # NoDoc
  BY DocsAssumption DEF TypeInv, StoreType
<1>2. ASSUME NEW v \in VerIds, v \in {req[r].new, req[r].dnew}
      PROVE  /\ v \in Holds(r) /\ v < nextVer
             /\ ver[v].doc = NoDoc => ver'[v].doc = req[r].doc /\ ~Referenced(v)
             /\ ver[v].doc # NoDoc => ver'[v].doc = ver[v].doc /\ ver'[v].number = ver[v].number
  <2>1. v \in Holds(r) /\ v < nextVer
    BY <1>2 DEF Holds, HistoryInv, History
  <2>2. ver'[v] = UploadedVersion(r, v)
    BY <1>2
  <2>3. CASE ver[v].doc = NoDoc
    <3>1. ver'[v].doc = req[r].doc
      <4>1. PICK number, count, pages :
              ver'[v] = [doc |-> req[r].doc, number |-> number, count |-> count,
                         sized |-> TRUE, pages |-> pages]
        BY <2>2, <2>3 DEF UploadedVersion
      <4>2. QED
        BY <4>1
    <3>2. ~Referenced(v)
      BY <2>1, <2>3 DEF HistoryInv, Reserved
    <3>3. QED
      BY <2>1, <2>3, <3>1, <3>2
  <2>4. CASE ver[v].doc # NoDoc
    <3>1. ver[v] \in Version
      BY DEF TypeInv, StoreType
    <3>2. PICK count, pages : ver'[v] = [ver[v] EXCEPT !.count = count, !.sized = TRUE,
                                                       !.pages = pages]
      BY <2>2, <2>4 DEF UploadedVersion
    <3>3. ver'[v].doc = ver[v].doc /\ ver'[v].number = ver[v].number
      BY <3>1, <3>2 DEF Version
    <3>4. QED
      BY <2>1, <2>4, <3>3
  <2>5. QED
    BY <2>3, <2>4
<1>3. ASSUME NEW v \in VerIds, v \notin {req[r].new, req[r].dnew} PROVE ver'[v] = ver[v]
  BY <1>3
<1>4. VersionsEvolve
  <2>1. ASSUME NEW v \in VerIds, v \in Holds(r), NEW p \in Reqs, v \in Holds(p)
        PROVE  req[p].doc = req[r].doc
    BY <2>1 DEF HistoryInv, HoldersAgree
  <2>2. QED
    BY <1>1, <1>2, <1>3, <2>1 DEF VersionsEvolve
<1>5. Cascaded'
  BY <1>2, <1>3 DEF HistoryInv, Cascaded
<1>6. Unused'
  <2>1. \A v \in VerIds : v < nextVer => ~(v >= nextVer)
    BY DEF VerIds, TypeInv, StoreType
  <2>2. QED
    BY <1>2, <1>3, <2>1 DEF HistoryInv, Unused
<1>7. nextVer <= nextVer
  BY DEF TypeInv, StoreType
<1>8. QED
  BY <1>4, <1>5, <1>6, <1>7 DEF StoreEvolves

LEMMA HistoryUpload ==
    ASSUME TypeInv, TypeInv', HistoryInv, NEW r \in Reqs,
           UpFile(r) \/ UpCommit(r) \/ UpNotify(r)
    PROVE  HistoryInv'
<1>1. CASE Raise(r)
  BY <1>1, HistoryRaise
<1>2. CASE UpFile(r)
  <2>1. UNCHANGED <<store, sent>> /\ Goto(r, "upCommit") /\ req[r].pc = "upFile"
    BY <1>2 DEF UpFile, At
  <2>2. QED
    BY <2>1, UnchangedEvolves, SentStays, HistoryGoto DEF Advance
<1>3. CASE UpCommit(r) /\ ~Raise(r)
  <2>1. StoreEvolves
    BY <1>3, UpCommitEvolves DEF UpCommit, At
  <2>2. QED
    BY <1>3, <2>1, SentStays, HistoryGoto DEF UpCommit, Advance
<1>4. CASE UpNotify(r) /\ ~Raise(r)
  <2>1. UNCHANGED store /\ Goto(r, "done") /\ Send({<<"s3_add", v>> : v \in {req[r].new, req[r].dnew} \ {0}})
    BY <1>4 DEF UpNotify
  <2>2. RemovesSuperseded
    BY <2>1, SentStays DEF Send
  <2>3. QED
    BY <2>1, <2>2, UnchangedEvolves, HistoryGoto DEF Advance, Stopped
<1>5. QED
  BY <1>1, <1>2, <1>3, <1>4

LEMMA HistoryDelete ==
    ASSUME TypeInv, TypeInv', HistoryInv, NEW r \in Reqs, DelCommit(r) \/ DelNotify(r)
    PROVE  HistoryInv'
<1>1. CASE DelCommit(r)
  <2>1. StoreEvolves /\ RemovesSuperseded /\ Goto(r, "delNotify")
    BY <1>1, DropEvolves, SentStays DEF DelCommit
  <2>2. QED
    BY <2>1, HistoryGoto DEF Advance, DelPcs
<1>2. CASE DelNotify(r)
  <2>1. UNCHANGED store /\ Goto(r, "done") /\ Send({<<"s3_remove", v>> : v \in req[r].gone})
    BY <1>2 DEF DelNotify
  <2>2. RemovesSuperseded
    BY <2>1, SentStays DEF Send
  <2>3. QED
    BY <2>1, <2>2, UnchangedEvolves, HistoryGoto DEF Advance, Stopped
<1>3. QED
  BY <1>1, <1>2

LEMMA HistoryCrash ==
    ASSUME TypeInv, TypeInv', HistoryInv, NEW r \in Reqs, Crash(r)
    PROVE  HistoryInv'
<1>1. UNCHANGED <<store, sent>> /\ Goto(r, "crashed")
  BY DEF Crash
<1>2. QED
  BY <1>1, UnchangedEvolves, SentStays, HistoryGoto DEF Advance, Stopped

\* Steps that only write texts, or nothing.
LEMMA HistorySame ==
    ASSUME TypeInv, TypeInv', HistoryInv, SameVersions, UNCHANGED <<req, sent>>
    PROVE  HistoryInv'
<1>1. Cascaded' /\ Unused'
  BY DEF HistoryInv, Cascaded, Unused, SameVersions
<1>2. RemovedSuperseded'
  BY DEF HistoryInv, RemovedSuperseded, Newer, SameVersions
<1>3. Reserved' /\ HoldersAgree'
  <2>1. \A r \in Reqs : Holds(r)' = Holds(r) /\ Holds(r) \subseteq VerIds
    BY DEF Holds
  <2>2. \A v \in VerIds : Referenced(v)' = Referenced(v)
    BY DEF Referenced
  <2>3. QED
    BY <2>1, <2>2 DEF HistoryInv, Reserved, HoldersAgree, SameVersions
<1>4. ASSUME NEW r \in Reqs PROVE History(req[r])'
  <2>1. PICK q : q = req[r]
    OBVIOUS
  <2>2. History(q)'
    BY <2>1, SameEvolves, HistoryKept
  <2>3. QED
    BY <2>1, <2>2
<1>5. QED
  BY <1>1, <1>2, <1>3, <1>4 DEF HistoryInv

LEMMA HistoryNext == TypeInv /\ TypeInv' /\ HistoryInv /\ [Next]_vars => HistoryInv'
<1> SUFFICES ASSUME TypeInv, TypeInv', HistoryInv, [Next]_vars PROVE HistoryInv'
  OBVIOUS
<1>1. ASSUME NEW r \in Reqs, Begin(r) PROVE HistoryInv'
  BY <1>1, HistorySelect, HistoryBeginMove, HistoryCreateDelete, HistoryBeginUpload DEF Begin
<1>2. ASSUME NEW r \in Reqs, Step(r) PROVE HistoryInv'
  BY <1>2, HistoryBumpRead, HistorySrcInsert, HistoryDstInsert, HistorySource, HistoryTarget,
     HistoryExtract, HistoryUpload, HistoryDelete DEF Step
<1>3. ASSUME NEW v \in VerIds, OcrDone(v) PROVE HistoryInv'
  <2>1. PICK rows : ver' = [ver EXCEPT ![v].pages = rows]
    BY <1>3 DEF OcrDone
  <2>2. SameVersions /\ UNCHANGED <<req, sent>>
    <3>1. ASSUME NEW w \in VerIds PROVE ver'[w].doc = ver[w].doc /\ ver'[w].number = ver[w].number
      BY <2>1 DEF TypeInv, StoreType, Version
    <3>2. QED
      BY <1>3, <3>1 DEF SameVersions, OcrDone
  <2>3. QED
    BY SMTT(30), <2>2, HistorySame
<1>4. CASE UNCHANGED vars
  BY <1>4, HistorySame DEF vars, SameVersions
<1>5. QED
  BY <1>1, <1>2, <1>3, <1>4, HistoryCrash DEF Next

LEMMA HistoryInit == Init => HistoryInv
<1> SUFFICES ASSUME Init PROVE HistoryInv
  OBVIOUS
<1>1. /\ NoRequest.pc = "idle" /\ NoRequest.old = 0 /\ NoRequest.dst = 0
      /\ NoRequest.doc = NoDoc /\ NoRequest.into = NoDoc
  BY DEF NoRequest
<1>2. TypeInv
  BY InitType
<1>3. \A r \in Reqs : req[r] = NoRequest
  BY DEF Init
<1>4. \A r \in Reqs : Holds(r) = {} /\ History(req[r])
  BY <1>1, <1>2, <1>3, NoDocUnborn DEF Holds, History, SrcPcs, DstPcs
<1>5. RemovedSuperseded /\ Reserved /\ HoldersAgree
  BY <1>4 DEF Init, RemovedSuperseded, Reserved, HoldersAgree
<1>6. DOMAIN Initial = 1..Len(Initial) /\ Len(Initial) \in Nat
  BY InitialAssumption, LenProperties
<1>7. \A v \in VerIds : ver[v].doc = IF v \in DOMAIN Initial THEN Initial[v].doc ELSE NoDoc
  BY DEF Init, NoVersion
<1>8. Cascaded
  BY <1>7 DEF Cascaded, Init
<1>9. Unused
  BY <1>6, <1>7 DEF Unused, Init, VerIds
<1>10. QED
  BY <1>4, <1>5, <1>8, <1>9 DEF HistoryInv

\* The versions the search index was told to drop (INDEX_UPDATE tasks) belong to
\* documents that are gone, or that have a version with a larger number: whatever
\* requests run, whichever versions they started from and wherever one dies.
THEOREM RemovedAreSuperseded == Spec => []RemovedNotLast
<1>1. TypeInv /\ HistoryInv => RemovedNotLast
  BY DEF HistoryInv, RemovedSuperseded, Newer, RemovedNotLast, VersionsOf
<1>2. TypeInv /\ HistoryInv /\ [Next]_vars /\ TypeInv' => HistoryInv'
  BY HistoryNext
<1>3. QED
  BY <1>1, <1>2, HistoryInit, TypeInvariant, PTL DEF Spec

-----------------------------------------------------------------------------
(* History is not rewritten *)

\* The version whose file handler q is about to write.
Target(q) ==
    CASE q.pc = "srcPdf" -> {q.new}
      [] q.pc = "dstPdf" -> {q.dnew}
      [] OTHER -> {}

\* Request p has nothing to do with document d, but for a delete of it.
Avoids(p, d) ==
    /\ req[p].op # "delete" => req[p].doc # d
    /\ req[p].into # d
    /\ req[p].pc = "extPages" => req[p].cur # d

\* A new document that waits for its pages is empty, and no handler but its own
\* works on it: no client can choose pages from it.
Filling(r) ==
    req[r].pc = "extPages" =>
        /\ req[r].cur \notin unborn
        /\ \A v \in VersionsOf(req[r].cur) : file[v].kind = "none" /\ Len(ver[v].pages) = 0
        /\ \A p \in Reqs \ {r} : Avoids(p, req[r].cur)
        /\ \A p \in Reqs : \A v \in Target(req[p]) : ver[v].doc # req[r].cur

\* A version that a handler is about to write has no file, and no other writer; so
\* has one that was not given out, or that waits in a new document.
FreshInv ==
    /\ \A r \in Reqs : req[r].pc \notin UpPcs
    /\ \A v \in VerIds : v >= nextVer => file[v].kind = "none"
    /\ \A r \in Reqs : \A v \in Target(req[r]) : v < nextVer /\ file[v].kind = "none"
    /\ \A p, r \in Reqs : p # r => Target(req[p]) \cap Target(req[r]) = {}
    /\ \A r \in Reqs : Filling(r)

\* A row stays as it is but for texts, or goes with its document.
RowKept(v) ==
    /\ ver'[v].doc \in {ver[v].doc, NoDoc}
    /\ ver'[v].doc # NoDoc => Len(ver'[v].pages) = Len(ver[v].pages)

\* Version v is for handler r alone to write.
Mine(r, v) ==
    \/ v >= nextVer
    \/ v \in Target(req[r])
    \/ req[r].pc = "extPages" /\ ver[v].doc = req[r].cur

\* What HistoryImmutable says of a step.
Frozen ==
    \A v \in VerIds : file[v].kind # "none" =>
        /\ file'[v] = file[v]
        /\ ver'[v].doc # NoDoc => Len(ver'[v].pages) = Len(ver[v].pages)

LEMMA TargetType ==
    ASSUME TypeInv, NEW r \in Reqs
    PROVE  /\ Target(req[r]) \subseteq VerIds
           /\ req[r].pc = "extPages" => req[r].cur \in Docs /\ req[r].cur # NoDoc
BY LocalsOf, DocsAssumption DEF LocalsAt, Target

\* What is for one handler to write has no file yet, and is no other handler's.
LEMMA MineIsFresh ==
    ASSUME TypeInv, HistoryInv, FreshInv, NEW r \in Reqs, NEW w \in VerIds, Mine(r, w)
    PROVE  /\ file[w].kind = "none"
           /\ \A p \in Reqs \ {r} : w \notin Target(req[p])
           /\ \A p \in Reqs \ {r} : req[p].pc = "extPages" => ver[w].doc # req[p].cur
<1>1. nextVer \in Int /\ w \in Int
  BY DEF TypeInv, StoreType, VerIds
<1>2. CASE w >= nextVer
  BY <1>1, <1>2, TargetType DEF FreshInv, HistoryInv, Unused
<1>3. CASE w \in Target(req[r])
  BY <1>3 DEF FreshInv, Filling
<1>4. CASE req[r].pc = "extPages" /\ ver[w].doc = req[r].cur
  <2>1. w \in VersionsOf(req[r].cur)
    BY <1>4 DEF VersionsOf
  <2>2. QED
    BY <1>4, <2>1 DEF FreshInv, Filling, Avoids
<1>5. QED
  BY <1>2, <1>3, <1>4 DEF Mine

\* A step of r that writes to versions W, which are its own.
LEMMA FreshStep ==
    ASSUME TypeInv, TypeInv', HistoryInv, FreshInv, NEW r \in Reqs, Others(r),
           NEW W \in SUBSET VerIds, \A w \in W : Mine(r, w),
           \A v \in VerIds \ W : file'[v] = file[v] /\ RowKept(v),
           \A w \in W : \A p \in Reqs \ {r} : req[p].pc = "extPages" => ver'[w].doc # req[p].cur,
           \A w \in W : w < nextVer' \/ file'[w].kind = "none",
           unborn' \subseteq unborn, nextVer <= nextVer',
           req'[r].pc \notin UpPcs,
           \A v \in Target(req'[r]) : /\ v \in Target(req[r]) \/ v >= nextVer
                                      /\ v < nextVer' /\ file'[v].kind = "none",
           \A p \in Reqs \ {r} : req[p].pc = "extPages" => Avoids(r, req[p].cur)',
           Filling(r)'
    PROVE  FreshInv' /\ Frozen
<1>1. Frozen
  BY MineIsFresh DEF Frozen, RowKept
<1>2. nextVer \in Int /\ nextVer' \in Int /\ VerIds \subseteq Int
  BY DEF TypeInv, StoreType, VerIds
<1>3. \A p \in Reqs \ {r} : req'[p] = req[p]
  BY DEF Others
<1>4. \A p \in Reqs : req'[p].pc \notin UpPcs
  BY <1>3 DEF FreshInv
<1>5. ASSUME NEW v \in VerIds, v >= nextVer' PROVE file'[v].kind = "none"
  <2>1. CASE v \in W
    BY <1>2, <1>5, <2>1
  <2>2. CASE v \notin W
    BY <1>2, <1>5, <2>2 DEF FreshInv
  <2>3. QED
    BY <2>1, <2>2
<1>6. ASSUME NEW p \in Reqs \ {r}, NEW v \in Target(req[p])
      PROVE  /\ v \in VerIds \ W /\ v < nextVer /\ v < nextVer' /\ file'[v].kind = "none"
             /\ v \notin Target(req'[r])
  <2>1. v \in VerIds /\ v < nextVer /\ file[v].kind = "none" /\ v \notin Target(req[r])
    BY TargetType DEF FreshInv
  <2>2. v \notin W
    BY MineIsFresh
  <2>3. v < nextVer' /\ ~(v >= nextVer)
    BY <1>2, <2>1
  <2>4. file'[v] = file[v]
    BY <2>1, <2>2
  <2>5. v \notin Target(req'[r])
    BY <2>1, <2>3
  <2>6. QED
    BY <2>1, <2>2, <2>3, <2>4, <2>5
<1>7. \A p \in Reqs : \A v \in Target(req'[p]) : v < nextVer' /\ file'[v].kind = "none"
  BY <1>3, <1>6
<1>8. \A p, q \in Reqs : p # q => Target(req'[p]) \cap Target(req'[q]) = {}
  BY <1>3, <1>6 DEF FreshInv
<1>9. ASSUME NEW p \in Reqs \ {r} PROVE Filling(p)'
  <2> SUFFICES ASSUME req[p].pc = "extPages" PROVE Filling(p)'
    BY <1>3 DEF Filling
  <2> DEFINE c == req[p].cur
  <2>1. /\ c \notin unborn /\ c # NoDoc
        /\ \A v \in VerIds : ver[v].doc = c => file[v].kind = "none" /\ Len(ver[v].pages) = 0
        /\ \A q \in Reqs \ {p} : Avoids(q, c)
        /\ \A q \in Reqs : \A v \in Target(req[q]) : ver[v].doc # c
    BY TargetType DEF FreshInv, Filling, VersionsOf
  <2>2. \A v \in VerIds : ver'[v].doc = c => v \notin W /\ ver[v].doc = c
    BY <2>1 DEF RowKept
  <2>3. \A v \in VersionsOf(c)' : file'[v].kind = "none" /\ Len(ver'[v].pages) = 0
    <3>1. VersionsOf(c)' = {v \in VerIds : ver'[v].doc = c}
      BY <1>3 DEF VersionsOf
    <3>2. ASSUME NEW v \in VerIds, ver'[v].doc = c
          PROVE  file'[v].kind = "none" /\ Len(ver'[v].pages) = 0
      <4>1. v \in VerIds \ W /\ ver[v].doc = c
        BY <2>2, <3>2
      <4>2. file'[v] = file[v] /\ Len(ver'[v].pages) = Len(ver[v].pages)
        BY <2>1, <3>2, <4>1 DEF RowKept
      <4>3. QED
        BY <2>1, <4>1, <4>2
    <3>3. QED
      BY <3>1, <3>2
  <2>4. \A q \in Reqs \ {p} : Avoids(q, c)'
    BY <1>3, <2>1 DEF Avoids
  <2>5. ASSUME NEW q \in Reqs, NEW v \in Target(req'[q]) PROVE ver'[v].doc # c
    <3>1. CASE q # r
      <4>1. v \in Target(req[q]) /\ v \in VerIds
        BY <1>3, <1>6, <2>5, <3>1
      <4>2. QED
        BY <2>1, <2>2, <4>1
    <3>2. CASE q = r
      <4>0. LocalsAt(req'[r].pc, req'[r])
        BY DEF TypeInv
      <4>1. v \in VerIds /\ (v \in Target(req[r]) \/ v >= nextVer)
        BY <2>5, <3>2, <4>0 DEF LocalsAt, Target
      <4>2. ver[v].doc # c
        BY <2>1, <4>1 DEF HistoryInv, Unused
      <4>3. QED
        BY <2>2, <4>1, <4>2
    <3>3. QED
      BY <3>1, <3>2
  <2>6. QED
    BY <1>3, <2>1, <2>3, <2>4, <2>5 DEF Filling
<1>10. QED
  BY <1>1, <1>3, <1>4, <1>5, <1>7, <1>8, <1>9 DEF FreshInv

\* A handler stays away from a document it has nothing to do with.
LEMMA AvoidsKept ==
    ASSUME FreshInv, NEW r \in Reqs, Others(r), req'[r].pc # "extPages",
           req'[r].op = req[r].op, req'[r].doc = req[r].doc, req'[r].into = req[r].into
    PROVE  \A p \in Reqs \ {r} : req[p].pc = "extPages" => Avoids(r, req[p].cur)'
<1> SUFFICES ASSUME NEW p \in Reqs \ {r}, req[p].pc = "extPages"
             PROVE  Avoids(r, req[p].cur)'
  OBVIOUS
<1>1. req'[p] = req[p] /\ Avoids(r, req[p].cur)
  BY DEF Others, FreshInv, Filling
<1>2. QED
  BY <1>1 DEF Avoids

\* A step that writes no file, to a point where no file is about to be written.
LEMMA FreshQuiet ==
    ASSUME TypeInv, TypeInv', HistoryInv, FreshInv, NEW r \in Reqs, Others(r),
           UNCHANGED <<file, unborn, nextVer>>, \A v \in VerIds : RowKept(v),
           SameTask(req'[r], req[r]),
           req'[r].pc \notin UpPcs \cup {"srcPdf", "dstPdf", "extPages"}
    PROVE  FreshInv' /\ Frozen
<1>1. Target(req'[r]) = {} /\ Filling(r)'
  BY DEF Target, Filling
<1>2. \A p \in Reqs \ {r} : req[p].pc = "extPages" => Avoids(r, req[p].cur)'
  BY AvoidsKept DEF SameTask
<1>3. nextVer <= nextVer'
  BY DEF TypeInv, StoreType
<1>4. QED
  BY <1>1, <1>2, <1>3, FreshStep

\* A step that goes on from a point where r writes no file, and changes no row but
\* its texts or that it goes with its document.
LEMMA FreshGoto ==
    ASSUME TypeInv, TypeInv', HistoryInv, FreshInv, NEW r \in Reqs, NEW pc, Goto(r, pc),
           pc \notin UpPcs \cup {"srcPdf", "dstPdf", "extPages"},
           UNCHANGED <<file, unborn, nextVer>>, \A v \in VerIds : RowKept(v)
    PROVE  FreshInv' /\ Frozen
<1>1. Others(r) /\ req'[r].pc = pc /\ SameTask(req'[r], req[r])
  BY PcChanged DEF SameTask
<1>2. QED
  BY <1>1, FreshQuiet

LEMMA SameRows ==
    ASSUME TypeInv, UNCHANGED ver
    PROVE  \A v \in VerIds : RowKept(v)
BY DEF RowKept

LEMMA FreshRaise ==
    ASSUME TypeInv, TypeInv', HistoryInv, FreshInv, NEW r \in Reqs, Raise(r)
    PROVE  FreshInv' /\ Frozen
BY SameRows, FreshGoto DEF Raise, store, UpPcs

LEMMA SameLength ==
    ASSUME NEW S, NEW T, NEW s \in Seq(S), NEW t \in Seq(T), DOMAIN s = DOMAIN t
    PROVE  Len(s) = Len(t)
<1>1. DOMAIN s = 1..Len(s) /\ Len(s) \in Nat /\ DOMAIN t = 1..Len(t) /\ Len(t) \in Nat
  BY LenProperties
<1>2. \A n \in Nat : Cardinality(1..n) = n
  <2>1. \A n \in Nat : Cardinality(1..n) = IF 1 > n THEN 0 ELSE n - 1 + 1
    BY FS_Interval
  <2>2. QED
    BY <2>1
<1>3. Cardinality(DOMAIN s) = Len(s) /\ Cardinality(DOMAIN t) = Len(t)
  BY <1>1, <1>2
<1>4. QED
  BY <1>3

\* Texts are written into the rows there are.
LEMMA PagesKeepRows ==
    ASSUME TypeInv, TypeInv', NEW v, NEW f, ver' = [ver EXCEPT ![v].pages = f],
           DOMAIN f = DOMAIN ver[v].pages
    PROVE  \A w \in VerIds : RowKept(w)
<1>1. /\ ver \in [VerIds -> Version] /\ ver' \in [VerIds -> Version]
      /\ ver' = [ver EXCEPT ![v] = [ver[v] EXCEPT !.pages = f]]
  BY DEF TypeInv, StoreType
<1>2. ASSUME v \in VerIds PROVE RowKept(v)
  <2>1. ver'[v] = [ver[v] EXCEPT !.pages = f] /\ ver[v] \in Version /\ ver'[v] \in Version
    BY <1>1, <1>2
  <2>2. ver'[v].doc = ver[v].doc /\ ver'[v].pages = f
    BY <2>1 DEF Version
  <2>3. ver[v].pages \in Seq(PageRow) /\ f \in Seq(PageRow)
    BY <2>1, <2>2 DEF Version
  <2>4. QED
    BY <2>2, <2>3, SameLength DEF RowKept
<1>3. ASSUME NEW w \in VerIds, w # v PROVE RowKept(w)
  BY <1>1, <1>3 DEF RowKept
<1>4. QED
  BY <1>2, <1>3

LEMMA TextsKeepRows ==
    ASSUME TypeInv, TypeInv', NEW v, NEW texts, WriteText(v, texts)
    PROVE  \A w \in VerIds : RowKept(w)
<1>1. PICK rank \in Ranking(ver[v].pages) :
        ver' = [ver EXCEPT ![v].pages =
            [i \in DOMAIN ver[v].pages |->
                IF ver[v].pages[i].text = NULL /\ rank[i] \in DOMAIN texts
                THEN [ver[v].pages[i] EXCEPT !.text = texts[rank[i]]]
                ELSE ver[v].pages[i]]]
  BY DEF WriteText
<1> DEFINE f == [i \in DOMAIN ver[v].pages |->
                IF ver[v].pages[i].text = NULL /\ rank[i] \in DOMAIN texts
                THEN [ver[v].pages[i] EXCEPT !.text = texts[rank[i]]]
                ELSE ver[v].pages[i]]
<1>2. DOMAIN f = DOMAIN ver[v].pages /\ ver' = [ver EXCEPT ![v].pages = f]
  BY <1>1
<1> HIDE DEF f
<1>3. QED
  BY <1>2, PagesKeepRows

LEMMA DropKeepsRows ==
    ASSUME TypeInv, NEW d, DropDocument(d)
    PROVE  \A v \in VerIds : RowKept(v)
BY DEF DropDocument, RowKept, NoVersion

\* A document that waits for its pages has no version anybody could choose from.
LEMMA ChoosableAvoid ==
    ASSUME TypeInv, FreshInv, NEW p \in Reqs, req[p].pc = "extPages"
    PROVE  /\ req[p].cur # NoDoc
           /\ \A v \in Choosable : ver[v].doc # req[p].cur
<1>1. req[p].cur # NoDoc
  BY TargetType
<1>2. ASSUME NEW v \in Choosable PROVE ver[v].doc # req[p].cur
  <2>1. v \in VerIds /\ Len(ver[v].pages) # 0
    BY DEF Choosable
  <2>2. QED
    BY <2>1 DEF FreshInv, Filling, VersionsOf
<1>3. QED
  BY <1>1, <1>2

\* Inserting a version.
LEMMA FreshInserted ==
    ASSUME TypeInv, NEW r \in Reqs, nextVer \in VerIds, nextVer' = nextVer + 1, UNCHANGED file,
           NEW row, ver' = [ver EXCEPT ![nextVer] = row]
    PROVE  /\ {nextVer} \in SUBSET VerIds /\ Mine(r, nextVer)
           /\ nextVer <= nextVer' /\ nextVer < nextVer'
           /\ ver'[nextVer] = row
           /\ \A v \in VerIds \ {nextVer} : ver'[v] = ver[v] /\ file'[v] = file[v] /\ RowKept(v)
<1>1. nextVer \in Int /\ ver \in [VerIds -> Version]
  BY DEF TypeInv, StoreType
<1>2. QED
  BY <1>1 DEF RowKept, Mine

LEMMA FreshCreated ==
    ASSUME TypeInv, NEW r \in Reqs, NEW d, CreateDocument(d), UNCHANGED file
    PROVE  /\ {nextVer} \in SUBSET VerIds /\ Mine(r, nextVer)
           /\ nextVer <= nextVer' /\ nextVer < nextVer'
           /\ ver'[nextVer].doc = d /\ Len(ver'[nextVer].pages) = 0
           /\ unborn' \subseteq unborn /\ d \notin unborn'
           /\ \A v \in VerIds \ {nextVer} : ver'[v] = ver[v] /\ file'[v] = file[v] /\ RowKept(v)
<1> DEFINE row == [NoVersion EXCEPT !.doc = d, !.number = 1]
<1>1. nextVer \in VerIds /\ nextVer' = nextVer + 1 /\ ver' = [ver EXCEPT ![nextVer] = row]
      /\ unborn' = unborn \ {d}
  BY DEF CreateDocument
<1>2. row.doc = d /\ Len(row.pages) = 0
  BY EmptySeqType DEF NoVersion
<1> HIDE DEF row
<1>3. QED
  BY <1>1, <1>2, FreshInserted

\* A request begins: it chose from versions that have pages, or is to delete a document.
LEMMA FreshAccepted ==
    ASSUME TypeInv, TypeInv', HistoryInv, FreshInv, NEW r \in Reqs, Others(r),
           UNCHANGED <<store, file>>,
           \/ /\ req'[r].pc = "srcRead"
              /\ \E v \in Choosable : req'[r].doc = ver[v].doc
              /\ req'[r].into = NoDoc \/ \E w \in Choosable : req'[r].into = ver[w].doc
           \/ req'[r].pc = "delCommit" /\ req'[r].op = "delete" /\ req'[r].into = NoDoc
    PROVE  FreshInv' /\ Frozen
<1>1. \A p \in Reqs \ {r} : req[p].pc = "extPages" =>
         /\ req[p].cur # NoDoc /\ \A v \in Choosable : ver[v].doc # req[p].cur
  BY ChoosableAvoid
<1>2. \A p \in Reqs \ {r} : req[p].pc = "extPages" => Avoids(r, req[p].cur)'
  <2> SUFFICES ASSUME NEW p \in Reqs \ {r}, req[p].pc = "extPages"
               PROVE  Avoids(r, req[p].cur)'
    OBVIOUS
  <2>1. req'[p] = req[p]
    BY DEF Others
  <2>2. QED
    BY <1>1, <2>1 DEF Avoids
<1>3. Target(req'[r]) = {} /\ Filling(r)' /\ req'[r].pc \notin UpPcs
  BY DEF Target, Filling, UpPcs
<1>4. nextVer <= nextVer'
  BY DEF TypeInv, StoreType, store
<1>5. QED
  BY <1>2, <1>3, <1>4, SameRows, FreshStep DEF store

LEMMA FreshBegin ==
    ASSUME UploadOps \cap Ops = {}, TypeInv, TypeInv', HistoryInv, FreshInv,
           NEW r \in Reqs, Begin(r)
    PROVE  FreshInv' /\ Frozen
<1>1. CASE BeginApply(r) \/ BeginExtract(r)
  <2>1. PICK op, v, items : /\ v \in Choosable
                            /\ req' = [req EXCEPT ![r] = Selected(op, v, items)]
                            /\ UNCHANGED <<store, file>>
    BY <1>1 DEF BeginApply, BeginExtract
  <2>2. PICK q : q = Selected(op, v, items)
    OBVIOUS
  <2>3. Others(r) /\ req'[r] = q
    BY <2>1, <2>2, OneChanged
  <2>4. q.pc = "srcRead" /\ q.doc = ver[v].doc /\ q.into = NoDoc
    BY <2>2 DEF Selected, NoRequest
  <2>5. QED
    BY <2>1, <2>3, <2>4, FreshAccepted
<1>2. CASE BeginMove(r)
  <2>0. PICK op \in MoveOps :
          /\ \E v, w \in Choosable :
             \E S \in Chosenable(v), i \in DOMAIN ver[w].pages :
             \E items \in ByNumber(ver[v].pages, S) :
               /\ SameDocMove \/ ver[v].doc # ver[w].doc
               /\ req' = [req EXCEPT ![r] = Targeted(Selected(op, v, items), w, i)]
          /\ UNCHANGED <<store, file>>
    BY <1>2 DEF BeginMove
  <2>5. PICK v \in Choosable, w \in Choosable :
          \E i, items : req' = [req EXCEPT ![r] = Targeted(Selected(op, v, items), w, i)]
    BY <2>0
  <2>1. PICK i, items : req' = [req EXCEPT ![r] = Targeted(Selected(op, v, items), w, i)]
    BY <2>5
  <2>2. PICK q : q = Targeted(Selected(op, v, items), w, i)
    OBVIOUS
  <2>3. Others(r) /\ req'[r] = q
    BY <2>1, <2>2, OneChanged
  <2>4. q.pc = "srcRead" /\ q.doc = ver[v].doc /\ q.into = ver[w].doc
    BY <2>2 DEF Targeted, Selected, NoRequest
  <2>6. QED
    BY <2>0, <2>1, <2>3, <2>4, FreshAccepted
<1>3. CASE BeginDelete(r)
  <2>1. PICK d, S : d \in live /\ req' = [req EXCEPT ![r] = [NoRequest EXCEPT
                      !.op = "delete", !.pc = "delCommit", !.doc = d, !.gone = S]]
    BY <1>3 DEF BeginDelete
  <2>2. PICK q : q = [NoRequest EXCEPT !.op = "delete", !.pc = "delCommit", !.doc = d, !.gone = S]
    OBVIOUS
  <2>5. Others(r) /\ req'[r] = q
    BY <2>1, <2>2, OneChanged
  <2>6. q.op = "delete" /\ q.pc = "delCommit" /\ q.into = NoDoc
    BY <2>2 DEF NoRequest
  <2>3. UNCHANGED <<store, file>>
    BY <1>3 DEF BeginDelete
  <2>4. QED
    BY <2>3, <2>5, <2>6, FreshAccepted
<1>4. CASE Create(r)
  <2>1. PICK d \in unborn : CreateDocument(d)
    BY <1>4 DEF Create, FreshDoc
  <2>2. UNCHANGED file /\ Others(r)
    BY <1>4, OthersBegin DEF Create, Begin
  <2>3. req'[r].pc = "done" /\ req'[r].op = "create" /\ req'[r].doc = NoDoc /\ req'[r].into = NoDoc
    BY <1>4 DEF Create, NoRequest, TypeInv
  <2>4. \A p \in Reqs \ {r} : req[p].pc = "extPages" => req[p].cur # NoDoc /\ req[p].cur # d
    BY <2>1, TargetType DEF FreshInv, Filling
  <2>5. \A p \in Reqs \ {r} : req[p].pc = "extPages" => Avoids(r, req[p].cur)'
    <3> SUFFICES ASSUME NEW p \in Reqs \ {r}, req[p].pc = "extPages"
                 PROVE  Avoids(r, req[p].cur)'
      OBVIOUS
    <3>1. req'[p] = req[p]
      BY <2>2 DEF Others
    <3>2. QED
      BY <2>3, <2>4, <3>1 DEF Avoids
  <2>6. Target(req'[r]) = {} /\ Filling(r)' /\ req'[r].pc \notin UpPcs
    BY <2>3 DEF Target, Filling, UpPcs
  <2>7. PICK n : n = nextVer
    OBVIOUS
  <2>8. /\ {n} \in SUBSET VerIds /\ Mine(r, n) /\ nextVer <= nextVer' /\ n < nextVer'
        /\ ver'[n].doc = d /\ unborn' \subseteq unborn
        /\ \A v \in VerIds \ {n} : file'[v] = file[v] /\ RowKept(v)
    BY <2>1, <2>2, <2>7, FreshCreated
  <2>9. \A p \in Reqs \ {r} : req[p].pc = "extPages" => ver'[n].doc # req[p].cur
    BY <2>4, <2>8
  <2>10. QED
    BY <2>2, <2>5, <2>6, <2>8, <2>9, FreshStep
<1>5. ~BeginUpload(r)
  BY DEF BeginUpload, MayBegin
<1>6. QED
  BY <1>1, <1>2, <1>3, <1>4, <1>5 DEF Begin

LEMMA FreshRead ==
    ASSUME TypeInv, TypeInv', HistoryInv, FreshInv, NEW r \in Reqs, SrcRead(r) \/ DstRead(r)
    PROVE  FreshInv' /\ Frozen
<1>1. CASE Raise(r)
  BY <1>1, FreshRaise
<1>2. CASE ~Raise(r)
  <2>1. /\ Others(r) /\ UNCHANGED <<store, file>>
        /\ req'[r].pc \in {"srcInsert", "dstInsert"} /\ SameTask(req'[r], req[r])
    BY <1>2, BumpReadEffect DEF SrcRead, DstRead
  <2>2. QED
    BY <2>1, SameRows, FreshQuiet DEF store, UpPcs
<1>3. QED
  BY <1>1, <1>2

LEMMA FreshSrcInsert ==
    ASSUME TypeInv, TypeInv', HistoryInv, FreshInv, NEW r \in Reqs, SrcInsert(r)
    PROVE  FreshInv' /\ Frozen
<1>1. CASE Raise(r)
  BY <1>1, FreshRaise
<1>2. CASE ~Raise(r)
  <2>1. /\ req[r].pc = "srcInsert" /\ req[r].doc \in live
        /\ BumpInsert(r, req[r].doc, SrcCount(r))
        /\ req' = [req EXCEPT ![r].pc = "srcPdf", ![r].new = nextVer]
    BY <1>2 DEF SrcInsert, At
  <2>2. PICK n, q : n = nextVer /\ q = req[r]
    OBVIOUS
  <2>3. q \in Request /\ q.op # "delete"
    BY <2>1, <2>2, LocalsOf DEF LocalsAt, SrcPcs, TypeInv, Choosers, MoveOps, ExtractOps
  <2>4. /\ Others(r) /\ req'[r].pc = "srcPdf" /\ req'[r].new = n
        /\ req'[r].op = q.op /\ req'[r].doc = q.doc /\ req'[r].into = q.into
    BY <2>1, <2>2, <2>3 DEF Request, TypeInv, Others
  <2>5. /\ {n} \in SUBSET VerIds /\ Mine(r, n) /\ nextVer <= nextVer' /\ n < nextVer'
        /\ \A v \in VerIds \ {n} : file'[v] = file[v] /\ RowKept(v)
        /\ ver'[n].doc = q.doc
    <3>1. /\ nextVer \in VerIds /\ nextVer' = nextVer + 1 /\ UNCHANGED file
          /\ ver' = [ver EXCEPT ![nextVer] = BumpVersion(r, req[r].doc, SrcCount(r))]
      BY <2>1 DEF BumpInsert
    <3>2. QED
      BY <2>2, <3>1, FreshInserted DEF BumpVersion
  <2>6. \A p \in Reqs \ {r} : req[p].pc = "extPages" => q.doc # req[p].cur
    BY <2>2, <2>3 DEF FreshInv, Filling, Avoids
  <2>7. \A p \in Reqs \ {r} : req[p].pc = "extPages" => Avoids(r, req[p].cur)'
    BY <2>2, <2>4, AvoidsKept
  <2>8. Target(req'[r]) = {n} /\ Filling(r)' /\ req'[r].pc \notin UpPcs
    BY <2>4 DEF Target, Filling, UpPcs
  <2>9. n >= nextVer /\ file'[n].kind = "none" /\ unborn' \subseteq unborn
    BY <2>1, <2>2, <2>5 DEF FreshInv, BumpInsert, TypeInv, StoreType
  <2>10. QED
    BY <2>4, <2>5, <2>6, <2>7, <2>8, <2>9, FreshStep
<1>3. QED
  BY <1>1, <1>2

LEMMA FreshDstInsert ==
    ASSUME TypeInv, TypeInv', HistoryInv, FreshInv, NEW r \in Reqs, DstInsert(r)
    PROVE  FreshInv' /\ Frozen
<1>1. CASE Raise(r)
  BY <1>1, FreshRaise
<1>2. CASE ~Raise(r)
  <2>1. /\ req[r].pc = "dstInsert" /\ req[r].into \in live
        /\ BumpInsert(r, req[r].into, DstCount(r))
        /\ req' = [req EXCEPT ![r].pc = "dstPdf", ![r].dnew = nextVer]
    BY <1>2 DEF DstInsert, At
  <2>2. PICK n, q : n = nextVer /\ q = req[r]
    OBVIOUS
  <2>3. q \in Request
    BY <2>2 DEF TypeInv
  <2>4. /\ Others(r) /\ req'[r].pc = "dstPdf" /\ req'[r].dnew = n
        /\ req'[r].op = q.op /\ req'[r].doc = q.doc /\ req'[r].into = q.into
    BY <2>1, <2>2, <2>3 DEF Request, TypeInv, Others
  <2>5. /\ {n} \in SUBSET VerIds /\ Mine(r, n) /\ nextVer <= nextVer' /\ n < nextVer'
        /\ \A v \in VerIds \ {n} : file'[v] = file[v] /\ RowKept(v)
        /\ ver'[n].doc = q.into
    <3>1. /\ nextVer \in VerIds /\ nextVer' = nextVer + 1 /\ UNCHANGED file
          /\ ver' = [ver EXCEPT ![nextVer] = BumpVersion(r, req[r].into, DstCount(r))]
      BY <2>1 DEF BumpInsert
    <3>2. QED
      BY <2>2, <3>1, FreshInserted DEF BumpVersion
  <2>6. \A p \in Reqs \ {r} : req[p].pc = "extPages" => q.into # req[p].cur
    BY <2>2 DEF FreshInv, Filling, Avoids
  <2>7. \A p \in Reqs \ {r} : req[p].pc = "extPages" => Avoids(r, req[p].cur)'
    BY <2>2, <2>4, AvoidsKept
  <2>8. Target(req'[r]) = {n} /\ Filling(r)' /\ req'[r].pc \notin UpPcs
    BY <2>4 DEF Target, Filling, UpPcs
  <2>9. n >= nextVer /\ file'[n].kind = "none" /\ unborn' \subseteq unborn
    BY <2>1, <2>2, <2>5 DEF FreshInv, BumpInsert, TypeInv, StoreType
  <2>10. QED
    BY <2>4, <2>5, <2>6, <2>7, <2>8, <2>9, FreshStep
<1>3. QED
  BY <1>1, <1>2

LEMMA FreshPdf ==
    ASSUME TypeInv, TypeInv', HistoryInv, FreshInv, NEW r \in Reqs, SrcPdf(r) \/ DstPdf(r)
    PROVE  FreshInv' /\ Frozen
<1>1. CASE Raise(r)
  BY <1>1, FreshRaise
<1>2. CASE ~Raise(r)
  <2>1. PICK w \in Target(req[r]) :
          /\ \A v \in VerIds \ {w} : file'[v] = file[v]
          /\ UNCHANGED store /\ Others(r) /\ SameTask(req'[r], req[r])
          /\ req'[r].pc \in {"error", "srcText", "purge", "dstNotify"}
    <3>1. CASE SrcPdf(r)
      <4>1. PICK pc, f :
              /\ pc \in {"error", "srcText"} /\ Goto(r, pc) /\ UNCHANGED store /\ req[r].pc = "srcPdf"
              /\ file' = [file EXCEPT ![req[r].new] = f]
        BY <1>2, <3>1 DEF SrcPdf, At
      <4>2. \A v \in VerIds \ {req[r].new} : file'[v] = file[v]
        BY <4>1 DEF TypeInv
      <4>3. req[r].new \in Target(req[r])
        BY <4>1 DEF Target
      <4>4. QED
        BY <4>1, <4>2, <4>3, PcChanged DEF SameTask
    <3>2. CASE DstPdf(r)
      <4>1. /\ req[r].pc = "dstPdf"
            /\ file' = [file EXCEPT ![req[r].dnew] = Pdf(DstPages(r))]
        BY <1>2, <3>2 DEF DstPdf, At
      <4>2. \A v \in VerIds \ {req[r].dnew} : file'[v] = file[v]
        BY <4>1 DEF TypeInv
      <4>3. req[r].dnew \in Target(req[r])
        BY <4>1 DEF Target
      <4>4. QED
        BY <1>2, <3>2, <4>2, <4>3, DstPdfEffect
    <3>3. QED
      BY <3>1, <3>2
  <2>2. {w} \in SUBSET VerIds /\ Mine(r, w) /\ w < nextVer'
    BY <2>1, TargetType DEF Mine, FreshInv, store
  <2>3. \A p \in Reqs \ {r} : req[p].pc = "extPages" => ver'[w].doc # req[p].cur
    BY <2>1, <2>2, MineIsFresh DEF store
  <2>4. Target(req'[r]) = {} /\ Filling(r)' /\ req'[r].pc \notin UpPcs
    BY <2>1 DEF Target, Filling, UpPcs
  <2>5. \A p \in Reqs \ {r} : req[p].pc = "extPages" => Avoids(r, req[p].cur)'
    BY <2>1, AvoidsKept DEF SameTask
  <2>6. nextVer <= nextVer' /\ unborn' \subseteq unborn /\ \A v \in VerIds : RowKept(v)
    BY <2>1, SameRows DEF store, TypeInv, StoreType
  <2>7. QED
    BY <2>1, <2>2, <2>3, <2>4, <2>5, <2>6, FreshStep
<1>3. QED
  BY <1>1, <1>2

LEMMA FreshText ==
    ASSUME TypeInv, TypeInv', HistoryInv, FreshInv, NEW r \in Reqs, SrcText(r) \/ ExtText(r)
    PROVE  FreshInv' /\ Frozen
<1>1. CASE SrcText(r)
  <2>1. PICK v, texts : WriteText(v, texts)
    BY <1>1 DEF SrcText, CopyText
  <2>2. \A w \in VerIds : RowKept(w)
    BY <2>1, TextsKeepRows
  <2>3. QED
    BY <1>1, <2>2, FreshGoto DEF SrcText, UpPcs
<1>2. CASE ExtText(r)
  <2>1. CASE UNCHANGED store
    BY <1>2, <2>1, SameRows, ExtTextEffect, FreshQuiet DEF store, UpPcs
  <2>2. CASE \E v \in VersionsOf(req[r].cur) : CopyText(req[r].rows, Range(Batch(r)), v)
    <3>1. PICK v, texts : WriteText(v, texts)
      BY <2>2 DEF CopyText
    <3>2. \A w \in VerIds : RowKept(w)
      BY <3>1, TextsKeepRows
    <3>3. QED
      BY <1>2, <3>2, ExtTextEffect, FreshQuiet DEF UpPcs
  <2>3. QED
    BY <1>2, <2>1, <2>2 DEF ExtText
<1>3. QED
  BY <1>1, <1>2

\* Steps that write neither files nor rows, or delete a document.
LEMMA FreshGoesOn ==
    ASSUME TypeInv, TypeInv', HistoryInv, FreshInv, NEW r \in Reqs,
           \/ SrcNotify(r) \/ DstNotify(r) \/ Purge(r) \/ ExtRead(r) \/ ExtNotify(r)
           \/ DelCommit(r) \/ DelNotify(r) \/ Crash(r)
    PROVE  FreshInv' /\ Frozen
<1>1. CASE SrcNotify(r) \/ DstNotify(r) \/ ExtRead(r) \/ ExtNotify(r) \/ DelNotify(r) \/ Crash(r)
  <2>1. UNCHANGED <<store, file>>
    BY <1>1 DEF SrcNotify, DstNotify, ExtRead, ExtNotify, DelNotify, Crash
  <2>2. PICK pc \in {"done", "dstRead", "extRead", "extDoc", "extNotify", "error", "purge", "crashed"} :
          Goto(r, pc)
    BY <1>1 DEF SrcNotify, DstNotify, ExtRead, ExtNotify, DelNotify, Crash
  <2>3. QED
    BY <2>1, <2>2, SameRows, FreshGoto DEF store, UpPcs
<1>2. CASE Purge(r) \/ DelCommit(r)
  <2>1. PICK pc, d : /\ pc \in {"done", "delNotify"} /\ Goto(r, pc)
                     /\ DropDocument(d) /\ UNCHANGED file
    BY <1>2 DEF Purge, DelCommit
  <2>2. \A v \in VerIds : RowKept(v)
    BY <2>1, DropKeepsRows
  <2>3. QED
    BY <2>1, <2>2, FreshGoto DEF DropDocument, UpPcs
<1>3. QED
  BY <1>1, <1>2

LEMMA FreshExtDoc ==
    ASSUME TypeInv, TypeInv', HistoryInv, FreshInv, NEW r \in Reqs, ExtDoc(r)
    PROVE  FreshInv' /\ Frozen
<1>1. PICK d \in FreshDoc : CreateDocument(d) /\ req'[r].cur = d
  BY ExtDocEffect
<1>2. /\ Others(r) /\ UNCHANGED file
      /\ req'[r].pc = "extPages" /\ SameTask(req'[r], req[r])
  BY ExtDocEffect
<1>3. PICK n : n = nextVer
  OBVIOUS
<1>4. /\ {n} \in SUBSET VerIds /\ Mine(r, n) /\ nextVer <= nextVer' /\ n < nextVer'
      /\ ver'[n].doc = d /\ Len(ver'[n].pages) = 0 /\ unborn' \subseteq unborn /\ d \notin unborn'
      /\ \A v \in VerIds \ {n} : ver'[v] = ver[v] /\ file'[v] = file[v] /\ RowKept(v)
  BY <1>1, <1>2, <1>3, FreshCreated
<1>5. d \in unborn /\ d # NoDoc /\ d \notin live
  BY <1>1, NoDocUnborn DEF FreshDoc, TypeInv, StoreType
<1>6. \A v \in VerIds : ver[v].doc # d
  BY <1>5 DEF HistoryInv, Cascaded
<1>7. \A p \in Reqs \ {r} :
        /\ req'[p] = req[p] /\ Avoids(p, d)' /\ \A v \in Target(req[p]) : v \in VerIds \ {n}
        /\ req[p].pc = "extPages" => req[p].cur # d /\ Avoids(r, req[p].cur)
  <2> SUFFICES ASSUME NEW p \in Reqs \ {r}
               PROVE  /\ req'[p] = req[p] /\ Avoids(p, d)'
                      /\ \A v \in Target(req[p]) : v \in VerIds \ {n}
                      /\ req[p].pc = "extPages" => req[p].cur # d /\ Avoids(r, req[p].cur)
    OBVIOUS
  <2>1. req'[p] = req[p]
    BY <1>2 DEF Others
  <2>2. req[p].pc = "extPages" => req[p].cur # d /\ Avoids(r, req[p].cur)
    BY <1>5 DEF FreshInv, Filling
  <2>3. req[p].doc # d /\ req[p].into # d
    BY <1>5 DEF HistoryInv, History
  <2>4. \A v \in Target(req[p]) : v \in VerIds \ {n}
    BY <1>3, TargetType DEF FreshInv, TypeInv, StoreType, VerIds
  <2>5. Avoids(p, d)'
    BY <2>1, <2>2, <2>3 DEF Avoids
  <2>6. QED
    BY <2>1, <2>2, <2>4, <2>5
<1>8. \A p \in Reqs \ {r} : req[p].pc = "extPages" => Avoids(r, req[p].cur)'
  <2> SUFFICES ASSUME NEW p \in Reqs \ {r}, req[p].pc = "extPages"
               PROVE  Avoids(r, req[p].cur)'
    OBVIOUS
  <2>1. req'[p] = req[p] /\ req[p].cur # d /\ Avoids(r, req[p].cur)
    BY <1>7
  <2>2. QED
    BY <1>1, <1>2, <2>1 DEF Avoids, SameTask
<1>9. Target(req'[r]) = {} /\ req'[r].pc \notin UpPcs
  BY <1>2 DEF Target, UpPcs
<1>10. n >= nextVer /\ file[n].kind = "none" /\ file'[n].kind = "none"
  BY <1>2, <1>3, <1>4 DEF FreshInv, TypeInv, StoreType
<1>11. Filling(r)'
  <2>1. \A v \in VersionsOf(d)' : file'[v].kind = "none" /\ Len(ver'[v].pages) = 0
    <3> SUFFICES ASSUME NEW v \in VerIds, ver'[v].doc = d PROVE v = n
      BY <1>4, <1>10 DEF VersionsOf
    <3>1. QED
      BY <1>4, <1>6
  <2>2. \A p \in Reqs : \A v \in Target(req'[p]) : ver'[v].doc # d
    BY <1>4, <1>6, <1>7, <1>9
  <2>3. \A p \in Reqs \ {r} : Avoids(p, d)'
    BY <1>7
  <2>4. QED
    <3>1. \A p \in Reqs \ {r} : Avoids(p, req[r].cur)'
      BY <1>1, <2>3 DEF Avoids
    <3>2. \A v \in VersionsOf(req[r].cur)' : file'[v].kind = "none" /\ Len(ver'[v].pages) = 0
      BY <1>1, <2>1 DEF VersionsOf
    <3>3. QED
      BY <1>1, <1>4, <2>2, <3>1, <3>2 DEF Filling
<1>12. QED
  <2>1. \A p \in Reqs \ {r} : req[p].pc = "extPages" => ver'[n].doc # req[p].cur
    BY <1>4, <1>7
  <2>2. QED
    BY <1>2, <1>4, <1>8, <1>9, <1>11, <2>1, FreshStep

LEMMA FreshExtPages ==
    ASSUME TypeInv, TypeInv', HistoryInv, FreshInv, NEW r \in Reqs, ExtPages(r)
    PROVE  FreshInv' /\ Frozen
<1>1. CASE Raise(r)
  BY <1>1, FreshRaise
<1>2. CASE ~Raise(r)
  <2>1. req[r].pc = "extPages" /\ req[r].cur \in live /\ req[r].cur # NoDoc
    BY <1>2, ExtPagesEffect, TargetType DEF ExtPages, At
  <2>2. PICK v, s : v \in FillTarget(req[r].cur) /\ FillVersion(req[r].cur, v, s)
    BY <1>2, ExtPagesEffect
  <2>3. /\ Others(r) /\ req'[r].pc \in {"error", "extText"} /\ SameTask(req'[r], req[r])
    BY <1>2, ExtPagesEffect
  <2>4. v \in VerIds /\ ver[v].doc = req[r].cur /\ v < nextVer
    <3>1. v \in VerIds /\ ver[v].doc = req[r].cur
      BY <2>2 DEF FillTarget, Highest, Unsized, VersionsOf
    <3>2. ver[v].doc = req[r].cur => ~(v >= nextVer)
      BY <2>1, <3>1 DEF HistoryInv, Unused
    <3>3. v \in Int /\ nextVer \in Int
      BY <3>1 DEF VerIds, TypeInv, StoreType
    <3>4. QED
      BY <3>1, <3>2, <3>3
  <2>5. Mine(r, v)
    BY <2>1, <2>4 DEF Mine, TypeInv, StoreType
  <2>6. nextVer <= nextVer' /\ v < nextVer' /\ unborn' = unborn
    BY <2>2, <2>4 DEF FillVersion, TypeInv, StoreType
  <2>7. /\ \A w \in VerIds \ {v} : ver'[w] = ver[w] /\ file'[w] = file[w]
        /\ ver'[v].doc = req[r].cur
    BY <2>2, <2>4 DEF FillVersion, TypeInv, StoreType
  <2>8. \A p \in Reqs \ {r} : req[p].pc = "extPages" => ver'[v].doc # req[p].cur
    BY <2>1, <2>7 DEF FreshInv, Filling, Avoids
  <2>9. \A w \in VerIds \ {v} : file'[w] = file[w] /\ RowKept(w)
    BY <2>7 DEF RowKept
  <2>10. Target(req'[r]) = {} /\ Filling(r)' /\ req'[r].pc \notin UpPcs
    BY <2>3 DEF Target, Filling, UpPcs
  <2>11. \A p \in Reqs \ {r} : req[p].pc = "extPages" => Avoids(r, req[p].cur)'
    BY <2>3, AvoidsKept DEF SameTask
  <2>12. QED
    <3>1. {v} \in SUBSET VerIds
      BY <2>4
    <3>2. QED
      BY <2>3, <2>5, <2>6, <2>8, <2>9, <2>10, <2>11, <3>1, FreshStep
<1>3. QED
  BY <1>1, <1>2

\* No request steps: the OCR worker writes texts, or nothing happens.
LEMMA FreshSame ==
    ASSUME TypeInv, FreshInv, UNCHANGED <<req, file, unborn, nextVer>>,
           \A v \in VerIds : RowKept(v)
    PROVE  FreshInv' /\ Frozen
<1>1. Frozen
  BY DEF Frozen, RowKept
<1>2. ASSUME NEW r \in Reqs PROVE Filling(r)'
  <2> SUFFICES ASSUME req[r].pc = "extPages" PROVE Filling(r)'
    BY DEF Filling
  <2> DEFINE c == req[r].cur
  <2>1. /\ c \notin unborn /\ c # NoDoc
        /\ \A v \in VerIds : ver[v].doc = c => file[v].kind = "none" /\ Len(ver[v].pages) = 0
        /\ \A p \in Reqs \ {r} : Avoids(p, c)
        /\ \A p \in Reqs : \A v \in Target(req[p]) : v \in VerIds /\ ver[v].doc # c
    BY TargetType DEF FreshInv, Filling, VersionsOf
  <2>2. \A v \in VerIds : ver'[v].doc = c =>
            ver[v].doc = c /\ file'[v].kind = "none" /\ Len(ver'[v].pages) = 0
    BY <2>1 DEF RowKept
  <2>3. \A v \in VersionsOf(c)' : file'[v].kind = "none" /\ Len(ver'[v].pages) = 0
    BY <2>2 DEF VersionsOf
  <2>4. \A p \in Reqs \ {r} : Avoids(p, c)'
    BY <2>1 DEF Avoids
  <2>5. \A p \in Reqs : \A v \in Target(req'[p]) : ver'[v].doc # c
    BY <2>1, <2>2
  <2>6. QED
    BY <2>1, <2>3, <2>4, <2>5 DEF Filling
<1>3. QED
  BY <1>1, <1>2 DEF FreshInv

LEMMA FreshNext ==
    ASSUME UploadOps \cap Ops = {}, TypeInv, TypeInv', HistoryInv, FreshInv, [Next]_vars
    PROVE  FreshInv' /\ Frozen
<1>1. ASSUME NEW r \in Reqs, Step(r) PROVE FreshInv' /\ Frozen
  <2>1. ~(UpFile(r) \/ UpCommit(r) \/ UpNotify(r))
    BY DEF FreshInv, UpPcs, UpFile, UpCommit, UpNotify, At
  <2>2. QED
    BY <1>1, <2>1, FreshRead, FreshSrcInsert, FreshDstInsert, FreshPdf, FreshText, FreshGoesOn,
       FreshExtDoc, FreshExtPages DEF Step
<1>2. ASSUME NEW v \in VerIds, OcrDone(v) PROVE FreshInv' /\ Frozen
  <2> DEFINE rows == ver[v].pages
             texts == file[v].pages
             f == [i \in DOMAIN rows |->
                     IF rows[i].text = NULL /\ rows[i].number \in DOMAIN texts
                     THEN [rows[i] EXCEPT !.text = texts[rows[i].number]] ELSE rows[i]]
  <2>1. ver' = [ver EXCEPT ![v].pages = f] /\ DOMAIN f = DOMAIN ver[v].pages
    BY <1>2 DEF OcrDone
  <2> HIDE DEF f
  <2>2. UNCHANGED <<req, file, unborn, nextVer>>
    BY <1>2 DEF OcrDone
  <2>3. QED
    BY <2>1, <2>2, PagesKeepRows, FreshSame
<1>3. CASE UNCHANGED vars
  BY <1>3, SameRows, FreshSame DEF vars
<1>4. QED
  BY <1>1, <1>2, <1>3, FreshBegin, FreshGoesOn DEF Next

LEMMA FreshInit == Init => FreshInv
<1> SUFFICES ASSUME Init PROVE FreshInv
  OBVIOUS
<1>1. \A r \in Reqs : req[r] = NoRequest /\ req[r].pc = "idle"
  BY DEF Init, NoRequest
<1>2. \A r \in Reqs : req[r].pc \notin UpPcs /\ Target(req[r]) = {} /\ Filling(r)
  BY <1>1 DEF Target, Filling, UpPcs
<1>3. DOMAIN Initial = 1..Len(Initial) /\ Len(Initial) \in Nat
  BY InitialAssumption, LenProperties
<1>4. \A v \in VerIds : v >= nextVer => file[v].kind = "none"
  BY <1>3 DEF Init, NoFile, VerIds
<1>5. QED
  BY <1>2, <1>4 DEF FreshInv

\* History is immutable under page operations, deletions, OCR and crashes, however they
\* overlap: once the PDF of a version is on disk, neither it nor the rows of its pages are
\* replaced until its document goes.  Uploads are left out: an upload overwrites a
\* version of size 0, which may be one that a page operation has just written.
THEOREM HistoryStays ==
    ASSUME UploadOps \cap Ops = {}
    PROVE  Spec => HistoryImmutable
<1>1. TypeInv /\ TypeInv' /\ HistoryInv /\ [Next]_vars => HistoryInv'
  BY HistoryNext
<1>2. TypeInv /\ TypeInv' /\ HistoryInv /\ FreshInv /\ [Next]_vars => FreshInv' /\ [Frozen]_vars
  BY FreshNext DEF Frozen
<1>3. QED
  <2>1. Spec => [][Frozen]_vars
    BY <1>1, <1>2, HistoryInit, FreshInit, TypeInvariant, PTL DEF Spec
  <2>2. QED
    BY <2>1 DEF HistoryImmutable, Frozen

=============================================================================
