-------------------- MODULE DocVersionsSequential_proofs --------------------
(***************************************************************************)
(* Theorems about DocVersions when a client waits for the answer to one     *)
(* request before it sends the next: versions are numbered 1 to n, and a    *)
(* version that records a size is final.                                    *)
(***************************************************************************)
EXTENDS DocVersions_proofs

-----------------------------------------------------------------------------
(* One handler at a time *)

Working(q) == q.pc \notin Stopped

Alone == \A p, r \in Reqs : p # r => ~Working(req[p]) \/ ~Working(req[r])

\* Request r takes a step while every other one is stopped.
Solo(r) == Others(r) /\ \A p \in Reqs \ {r} : ~Working(req[p])

LEMMA StepWorks ==
    ASSUME NEW r \in Reqs, Step(r) \/ Crash(r)
    PROVE  Working(req[r])
<1> USE DEF At, Stopped, Working
<1>1. CASE SrcRead(r) \/ SrcInsert(r) \/ SrcPdf(r) \/ SrcText(r) \/ SrcNotify(r)
  BY <1>1 DEF SrcRead, SrcInsert, SrcPdf, SrcText, SrcNotify
<1>2. CASE DstRead(r) \/ DstInsert(r) \/ DstPdf(r) \/ DstNotify(r) \/ Purge(r)
  BY <1>2 DEF DstRead, DstInsert, DstPdf, DstNotify, Purge
<1>3. CASE ExtRead(r) \/ ExtDoc(r) \/ ExtPages(r) \/ ExtText(r) \/ ExtNotify(r)
  BY <1>3 DEF ExtRead, ExtDoc, ExtPages, ExtText, ExtNotify
<1>4. CASE UpFile(r) \/ UpCommit(r) \/ UpNotify(r) \/ DelCommit(r) \/ DelNotify(r)
  BY <1>4 DEF UpFile, UpCommit, UpNotify, DelCommit, DelNotify
<1>5. CASE Crash(r)
  BY <1>5 DEF Crash
<1>6. QED
  BY <1>1, <1>2, <1>3, <1>4, <1>5 DEF Step

LEMMA BeginsAlone ==
    ASSUME Sequential, NEW r \in Reqs, Begin(r)
    PROVE  \A p \in Reqs : ~Working(req[p])
BY DEF Begin, BeginApply, BeginMove, BeginExtract, Create, BeginUpload, BeginDelete,
       MayBegin, Working

LEMMA SoloStep ==
    ASSUME Sequential, TypeInv, Alone, NEW r \in Reqs, Begin(r) \/ Step(r) \/ Crash(r)
    PROVE  Solo(r)
<1>1. CASE Begin(r)
  BY <1>1, OthersBegin, BeginsAlone DEF Solo
<1>2. CASE Step(r)
  BY <1>2, OthersStep, StepWorks DEF Solo, Alone
<1>3. CASE Crash(r)
  BY SMTT(30), <1>3, PcChanged, StepWorks DEF Crash, Solo, Alone
<1>4. QED
  BY <1>1, <1>2, <1>3

LEMMA AloneNext ==
    ASSUME Sequential, TypeInv, Alone, [Next]_vars
    PROVE  Alone'
<1>1. ASSUME NEW r \in Reqs, Begin(r) \/ Step(r) \/ Crash(r) PROVE Alone'
  BY <1>1, SoloStep DEF Solo, Others, Alone
<1>2. CASE UNCHANGED req
  BY <1>2 DEF Alone
<1>3. QED
  BY <1>1, <1>2 DEF Next, OcrDone, vars

LEMMA AloneInit == Init => Alone
BY NoRequestType DEF Init, Alone, Working, Stopped

-----------------------------------------------------------------------------
(* NumbersContiguous *)

Numbered(d) == {ver[v].number : v \in VersionsOf(d)} = 1..Cardinality(VersionsOf(d))

\* What request q knows about the numbers it is going to give out.
Counted(q) ==
    /\ q.pc = "srcInsert" /\ q.doc \in Docs => q.lnum = Cardinality(VersionsOf(q.doc))
    /\ q.pc = "dstInsert" /\ q.into \in Docs => q.lnum = Cardinality(VersionsOf(q.into))
    /\ q.pc = "extPages" => Unsized(q.cur) # {}
    /\ q.pc \in {"upFile", "upCommit"} =>
          /\ q.new \in VerIds /\ q.dnew = 0
          /\ ver[q.new].doc = NoDoc => q.lnum = Cardinality(VersionsOf(q.doc))

NumInv ==
    /\ \A d \in Docs : Numbered(d)
    /\ \A r \in Reqs : Counted(req[r])

\* No document gets or loses a version, or a version another number.
SameNumbers ==
    \A v \in VerIds : ver'[v].doc = ver[v].doc /\ ver'[v].number = ver[v].number

LEMMA FiniteVersions ==
    ASSUME NEW d
    PROVE  IsFiniteSet(VersionsOf(d)) /\ Cardinality(VersionsOf(d)) \in Nat
<1>1. IsFiniteSet(VerIds)
  BY FS_Interval, BoundsAssumption DEF VerIds
<1>2. QED
  BY <1>1, FS_Subset, FS_CardinalityType DEF VersionsOf

LEMMA SameNumbered ==
    ASSUME SameNumbers, NEW d
    PROVE  Numbered(d) => Numbered(d)'
<1>1. VersionsOf(d)' = VersionsOf(d)
  BY DEF SameNumbers, VersionsOf
<1>2. {ver'[v].number : v \in VersionsOf(d)'} = {ver[v].number : v \in VersionsOf(d)}
  BY <1>1 DEF SameNumbers, VersionsOf
<1>3. QED
  BY <1>1, <1>2 DEF Numbered

\* A version inserted with the next number.
LEMMA NextNumbered ==
    ASSUME TypeInv, NEW n \in VerIds, ver[n].doc = NoDoc, NEW d \in Docs, Numbered(d),
           NEW row, ver' = [ver EXCEPT ![n] = row], row.doc = d,
           row.number = Cardinality(VersionsOf(d)) + 1, NEW e \in Docs, Numbered(e)
    PROVE  Numbered(e)'
<1>1. ver'[n] = row /\ \A v \in VerIds \ {n} : ver'[v] = ver[v]
  BY DEF TypeInv, StoreType
<1>2. d # NoDoc /\ e # NoDoc
  BY DocsAssumption
<1>3. CASE e # d
  <2>1. VersionsOf(e)' = VersionsOf(e)
    BY <1>1, <1>2, <1>3 DEF VersionsOf
  <2>2. {ver'[v].number : v \in VersionsOf(e)} = {ver[v].number : v \in VersionsOf(e)}
    BY <1>1, <1>2 DEF VersionsOf
  <2>3. QED
    BY <2>1, <2>2 DEF Numbered
<1>4. CASE e = d
  <2>1. VersionsOf(d)' = VersionsOf(d) \cup {n} /\ n \notin VersionsOf(d)
    BY <1>1, <1>2 DEF VersionsOf
  <2>2. PICK k \in Nat : k = Cardinality(VersionsOf(d))
    BY FiniteVersions
  <2>3. Cardinality(VersionsOf(d)') = k + 1
    BY SMTT(30), <2>1, <2>2, FiniteVersions, FS_AddElement
  <2>4. {ver'[v].number : v \in VersionsOf(d)'} = {ver[v].number : v \in VersionsOf(d)} \cup {k + 1}
    <3>1. ver'[n].number = k + 1
      BY <1>1, <2>2
    <3>2. \A v \in VersionsOf(d) : ver'[v].number = ver[v].number
      BY <1>1, <2>1 DEF VersionsOf
    <3>3. QED
      BY <2>1, <3>1, <3>2
  <2>5. {ver[v].number : v \in VersionsOf(d)} = 1..k
    BY <2>2 DEF Numbered
  <2>6. (1..k) \cup {k + 1} = 1..(k + 1)
    BY <2>2
  <2>7. QED
    BY <1>4, <2>3, <2>4, <2>5, <2>6 DEF Numbered
<1>5. QED
  BY <1>3, <1>4

LEMMA DropNumbered ==
    ASSUME TypeInv, NEW d, DropDocument(d), NEW e \in Docs, Numbered(e)
    PROVE  Numbered(e)'
<1>1. \A v \in VerIds : ver'[v] = IF ver[v].doc = d THEN NoVersion ELSE ver[v]
  BY DEF DropDocument
<1>2. e # NoDoc /\ NoVersion.doc = NoDoc
  BY DocsAssumption DEF NoVersion
<1>3. CASE e = d
  <2>1. VersionsOf(e)' = {}
    BY <1>1, <1>2, <1>3 DEF VersionsOf
  <2>2. Cardinality({}) = 0
    BY FS_EmptySet
  <2>3. QED
    BY <2>1, <2>2 DEF Numbered
<1>4. CASE e # d
  <2>1. VersionsOf(e)' = VersionsOf(e)
    BY <1>1, <1>2, <1>4 DEF VersionsOf
  <2>2. {ver'[v].number : v \in VersionsOf(e)} = {ver[v].number : v \in VersionsOf(e)}
    BY <1>1, <1>4 DEF VersionsOf
  <2>3. QED
    BY <2>1, <2>2 DEF Numbered
<1>5. QED
  BY <1>3, <1>4

\* The number of the last version is the number of versions.
LEMMA LastNumber ==
    ASSUME TypeInv, NEW d, Numbered(d), NEW v \in LastVersions(d)
    PROVE  ver[v].number = Cardinality(VersionsOf(d))
<1>1. PICK k \in Nat : k = Cardinality(VersionsOf(d))
  BY FiniteVersions
<1>2. v \in VersionsOf(d) /\ \A w \in VersionsOf(d) : ver[w].number <= ver[v].number
  BY DEF LastVersions, Highest
<1>3. ver[v].number \in 1..k
  BY <1>1, <1>2 DEF Numbered
<1>4. PICK w \in VersionsOf(d) : ver[w].number = k
  <2>1. k \in 1..k
    BY <1>1, <1>3
  <2>2. QED
    BY <1>1, <2>1 DEF Numbered
<1>5. QED
  BY <1>1, <1>2, <1>3, <1>4

\* Only pages change: texts.
OnlyPages ==
    \A v \in VerIds : /\ ver'[v].doc = ver[v].doc /\ ver'[v].number = ver[v].number
                      /\ ver'[v].count = ver[v].count /\ ver'[v].sized = ver[v].sized

LEMMA PagesWritten ==
    ASSUME TypeInv, NEW v, NEW f, ver' = [ver EXCEPT ![v].pages = f]
    PROVE  OnlyPages
<1>1. ver' = [ver EXCEPT ![v] = [ver[v] EXCEPT !.pages = f]]
  OBVIOUS
<1>2. ASSUME NEW w \in VerIds
      PROVE  /\ ver'[w].doc = ver[w].doc /\ ver'[w].number = ver[w].number
             /\ ver'[w].count = ver[w].count /\ ver'[w].sized = ver[w].sized
  <2>1. ver[w] \in Version /\ ver' [w] \in {ver[w], [ver[w] EXCEPT !.pages = f]}
    BY <1>1 DEF TypeInv, StoreType
  <2>2. QED
    BY <2>1 DEF Version
<1>3. QED
  BY <1>2 DEF OnlyPages

LEMMA TextsWritten ==
    ASSUME TypeInv, NEW v, NEW texts, WriteText(v, texts)
    PROVE  OnlyPages
<1>1. PICK f : ver' = [ver EXCEPT ![v].pages = f]
  BY DEF WriteText
<1>2. QED
  BY <1>1, PagesWritten

LEMMA CopyOnly ==
    ASSUME TypeInv, NEW v, NEW rows, NEW S, CopyText(rows, S, v)
    PROVE  OnlyPages
BY TextsWritten DEF CopyText

LEMMA OnlyNumbers == OnlyPages \/ UNCHANGED ver => SameNumbers
BY DEF OnlyPages, SameNumbers

-----------------------------------------------------------------------------
(* NumbersContiguous: the steps *)

LEMMA NumStep ==
    ASSUME TypeInv, NumInv, NEW r \in Reqs, Solo(r), \A d \in Docs : Numbered(d)',
           Counted(req[r])'
    PROVE  NumInv'
<1>1. ASSUME NEW p \in Reqs \ {r} PROVE Counted(req[p])'
  BY DEF Solo, Others, Working, Stopped, Counted
<1>2. QED
  BY <1>1 DEF NumInv

\* A step to a point where nothing needs to be known.
LEMMA NumQuiet ==
    ASSUME TypeInv, NumInv, NEW r \in Reqs, Solo(r), \A d \in Docs : Numbered(d)',
           req'[r].pc \notin {"srcInsert", "dstInsert", "extPages", "upFile", "upCommit"}
    PROVE  NumInv'
BY NumStep DEF Counted

LEMMA NumGoto ==
    ASSUME TypeInv, NumInv, NEW r \in Reqs, Solo(r), \A d \in Docs : Numbered(d)', NEW pc,
           Goto(r, pc), pc \notin {"srcInsert", "dstInsert", "extPages", "upFile", "upCommit"}
    PROVE  NumInv'
BY NumQuiet, PcChanged

LEMMA NumSame ==
    ASSUME NumInv, SameNumbers
    PROVE  \A d \in Docs : Numbered(d)'
BY SameNumbered DEF NumInv

LEMMA NumRaise ==
    ASSUME TypeInv, NumInv, NEW r \in Reqs, Solo(r), Raise(r)
    PROVE  NumInv'
BY NumSame, NumGoto DEF Raise, SameNumbers, store

LEMMA NumDrop ==
    ASSUME TypeInv, NumInv, NEW d, DropDocument(d)
    PROVE  \A e \in Docs : Numbered(e)'
BY DropNumbered DEF NumInv

LEMMA NumCreate ==
    ASSUME TypeInv, HistoryInv, NumInv, NEW d, CreateDocument(d)
    PROVE  /\ \A e \in Docs : Numbered(e)'
           /\ nextVer \in VerIds /\ ver'[nextVer].doc = d /\ ~ver'[nextVer].sized
<1> DEFINE row == [NoVersion EXCEPT !.doc = d, !.number = 1]
<1>1. row.doc = d /\ row.number = 1 /\ ~row.sized
  BY DEF NoVersion
<1>2. /\ nextVer \in VerIds /\ ver' = [ver EXCEPT ![nextVer] = row]
      /\ d \in Docs /\ d \notin live /\ d # NoDoc
  BY DocsAssumption DEF CreateDocument, TypeInv, StoreType
<1>3. VersionsOf(d) = {}
  BY <1>2 DEF HistoryInv, Cascaded, VersionsOf
<1>4. Cardinality(VersionsOf(d)) = 0
  BY <1>3, FS_EmptySet
<1>5. ver[nextVer].doc = NoDoc
  BY <1>2 DEF HistoryInv, Unused, TypeInv, StoreType
<1> HIDE DEF row
<1>6. row.number = Cardinality(VersionsOf(d)) + 1
  BY <1>1, <1>4
<1>7. \A e \in Docs : Numbered(e)'
  BY <1>1, <1>2, <1>5, <1>6, NextNumbered DEF NumInv
<1>8. ver'[nextVer] = row
  BY <1>2 DEF TypeInv, StoreType
<1>9. QED
  BY <1>1, <1>2, <1>7, <1>8

LEMMA NumBump ==
    ASSUME TypeInv, HistoryInv, NumInv, NEW r \in Reqs, NEW d \in live, NEW count,
           BumpInsert(r, d, count), req[r].lnum = Cardinality(VersionsOf(d))
    PROVE  \A e \in Docs : Numbered(e)'
<1> DEFINE row == BumpVersion(r, d, count)
<1>1. row.doc = d /\ row.number = req[r].lnum + 1
  BY DEF BumpVersion
<1>2. nextVer \in VerIds /\ ver' = [ver EXCEPT ![nextVer] = row] /\ d \in Docs
  BY DEF BumpInsert, TypeInv, StoreType
<1>3. ver[nextVer].doc = NoDoc
  BY <1>2 DEF HistoryInv, Unused, TypeInv, StoreType
<1> HIDE DEF row
<1>4. row.number = Cardinality(VersionsOf(d)) + 1
  BY <1>1
<1>5. QED
  BY <1>1, <1>2, <1>3, <1>4, NextNumbered DEF NumInv

LEMMA BeginPc ==
    ASSUME TypeInv, NEW r \in Reqs, Begin(r), ~Create(r), ~BeginUpload(r)
    PROVE  UNCHANGED <<store, file>> /\ req'[r].pc \in {"srcRead", "delCommit"}
<1> USE NoRequestType DEF TypeInv, Request
<1>1. CASE BeginApply(r)
  BY <1>1 DEF BeginApply, Selected
<1>2. CASE BeginMove(r)
  BY <1>2 DEF BeginMove, Selected, Targeted
<1>3. CASE BeginExtract(r)
  BY <1>3 DEF BeginExtract, Selected
<1>4. CASE BeginDelete(r)
  BY <1>4 DEF BeginDelete
<1>5. QED
  BY <1>1, <1>2, <1>3, <1>4 DEF Begin

\* What an upload has when its versions are chosen.
LEMMA BeginUploadEffect ==
    ASSUME TypeInv, HistoryInv, NEW r \in Reqs, BeginUpload(r)
    PROVE  /\ UNCHANGED <<live, unborn, ver, file>> /\ req'[r].op \in Ops
           /\ \E d \in live, v \in VerIds, w \in VerIds \cup {0} :
                 /\ req'[r].pc = "upFile" /\ req'[r].doc = d /\ req'[r].new = v /\ req'[r].dnew = w
                 /\ req'[r].lnum = Cardinality(VersionsOf(d))
                 /\ v = nextVer \/ v \in Unsized(d)
                 /\ w # 0 => /\ req'[r].op = "upload_image" /\ w # v
                             /\ w \in Unsized(d) \/ w >= nextVer
<1>0. PICK op \in UploadOps, d \in live, c \in Uploads, v \in VerIds, w \in VerIds \cup {0} :
        BegunUpload(r, op, d, c, v, w)
  BY BeginUploadChoice, Zenon
<1>1. /\ op \in Ops
      /\ req' = [req EXCEPT ![r] = [NoRequest EXCEPT
                            !.op = op, !.pc = "upFile", !.doc = d, !.up = c,
                            !.lnum = Cardinality(VersionsOf(d)), !.new = v, !.dnew = w]]
      /\ v \in Unsized(d) \/ v = nextVer
      /\ w # 0 => op = "upload_image" /\ w # v /\ (w \in Unsized(d) \/ w >= nextVer)
  BY <1>0, Zenon DEF BegunUpload
<1> DEFINE versions == Cardinality(VersionsOf(d))
           q == [NoRequest EXCEPT !.op = op, !.pc = "upFile", !.doc = d, !.up = c,
                                  !.lnum = versions, !.new = v, !.dnew = w]
<1>2. req'[r] = q
  BY <1>1 DEF TypeInv
<1> HIDE DEF versions
<1>3. /\ q.op = op /\ q.pc = "upFile" /\ q.doc = d /\ q.new = v /\ q.dnew = w /\ q.lnum = versions
  BY DEF NoRequest
<1> HIDE DEF q
<1>4. UNCHANGED <<live, unborn, ver, file>>
  BY DEF BeginUpload
<1>5. /\ req'[r].pc = "upFile" /\ req'[r].doc = d /\ req'[r].new = v /\ req'[r].dnew = w
      /\ req'[r].lnum = Cardinality(VersionsOf(d)) /\ req'[r].op = op
  BY <1>2, <1>3 DEF versions
<1>6. QED
  BY <1>1, <1>4, <1>5

LEMMA NumBegin ==
    ASSUME TypeInv, HistoryInv, NumInv, NEW r \in Reqs, Solo(r), Begin(r),
           "upload_image" \notin Ops
    PROVE  NumInv'
<1>1. CASE ~Create(r) /\ ~BeginUpload(r)
  <2>1. \A d \in Docs : Numbered(d)'
    BY <1>1, BeginPc, NumSame DEF store, SameNumbers
  <2>2. QED
    BY <1>1, <2>1, BeginPc, NumQuiet
<1>2. CASE Create(r)
  <2>1. \A d \in Docs : Numbered(d)'
    BY <1>2, NumCreate DEF Create
  <2>2. req'[r].pc = "done"
    BY <1>2, NoRequestType DEF Create, TypeInv, Request
  <2>3. QED
    BY <2>1, <2>2, NumQuiet
<1>3. CASE BeginUpload(r)
  <2>1. UNCHANGED ver
    BY <1>3, BeginUploadEffect
  <2>2. PICK d \in live, v \in VerIds :
          /\ req'[r].pc = "upFile" /\ req'[r].doc = d /\ req'[r].new = v /\ req'[r].dnew = 0
          /\ req'[r].lnum = Cardinality(VersionsOf(d))
    BY <1>3, BeginUploadEffect
  <2>3. \A e \in Docs : Numbered(e)'
    BY <2>1, NumSame DEF SameNumbers
  <2>4. Cardinality(VersionsOf(d))' = Cardinality(VersionsOf(d))
    BY <2>1 DEF VersionsOf
  <2>5. Counted(req[r])'
    BY <2>2, <2>4 DEF Counted
  <2>6. QED
    BY <2>3, <2>5, NumStep
<1>4. QED
  BY <1>1, <1>2, <1>3

LEMMA NumBumpRead ==
    ASSUME TypeInv, HistoryInv, NumInv, NEW r \in Reqs, Solo(r), SrcRead(r) \/ DstRead(r)
    PROVE  NumInv'
<1>1. CASE Raise(r)
  BY <1>1, NumRaise
<1>2. CASE ~Raise(r)
  <2>1. PICK d, next :
          /\ BumpRead(r, d, next)
          /\ \/ d = req[r].doc /\ next = "srcInsert"
             \/ d = req[r].into /\ next = "dstInsert"
    BY <1>2 DEF SrcRead, DstRead
  <2>2. /\ UNCHANGED store /\ req'[r].pc = next /\ SameTask(req'[r], req[r])
        /\ \E v \in LastVersions(d) : req'[r].lnum = ver[v].number
    BY <1>2, <2>1, BumpReadEffect
  <2>3. d \in Docs => req'[r].lnum = Cardinality(VersionsOf(d))
    BY <2>2, LastNumber DEF NumInv
  <2>4. VersionsOf(d)' = VersionsOf(d)
    BY <2>2 DEF VersionsOf, store
  <2>5. Counted(req[r])'
    BY <2>1, <2>2, <2>3, <2>4 DEF Counted, SameTask
  <2>6. \A e \in Docs : Numbered(e)'
    BY <2>2, NumSame DEF store, SameNumbers
  <2>7. QED
    BY <2>5, <2>6, NumStep
<1>3. QED
  BY <1>1, <1>2

LEMMA NumInsert ==
    ASSUME TypeInv, HistoryInv, NumInv, NEW r \in Reqs, Solo(r), SrcInsert(r) \/ DstInsert(r)
    PROVE  NumInv'
<1>1. CASE Raise(r)
  BY <1>1, NumRaise
<1>2. CASE ~Raise(r)
  <2>1. PICK d, count : d \in live /\ BumpInsert(r, d, count) /\ req[r].lnum = Cardinality(VersionsOf(d))
    <3>1. live \subseteq Docs
      BY DEF TypeInv, StoreType
    <3>2. CASE SrcInsert(r)
      BY <1>2, <3>1, <3>2 DEF SrcInsert, At, NumInv, Counted
    <3>3. CASE DstInsert(r)
      BY <1>2, <3>1, <3>3 DEF DstInsert, At, NumInv, Counted
    <3>4. QED
      BY <3>2, <3>3
  <2>2. req'[r].pc \in {"srcPdf", "dstPdf"}
    BY <1>2 DEF SrcInsert, DstInsert, TypeInv, Request
  <2>3. \A e \in Docs : Numbered(e)'
    BY <2>1, NumBump
  <2>4. QED
    BY <2>2, <2>3, NumQuiet
<1>3. QED
  BY <1>1, <1>2

LEMMA NumExtDoc ==
    ASSUME TypeInv, HistoryInv, NumInv, NEW r \in Reqs, Solo(r), ExtDoc(r)
    PROVE  NumInv'
<1>1. PICK d : CreateDocument(d) /\ req'[r].cur = d
  BY ExtDocEffect
<1>2. req'[r].pc = "extPages"
  BY ExtDocEffect
<1>3. /\ \A e \in Docs : Numbered(e)'
      /\ nextVer \in VerIds /\ ver'[nextVer].doc = d /\ ~ver'[nextVer].sized
  BY <1>1, NumCreate
<1>4. nextVer \in Unsized(req[r].cur)'
  BY <1>1, <1>3 DEF Unsized, VersionsOf
<1>5. Counted(req[r])'
  BY <1>2, <1>4 DEF Counted
<1>6. QED
  BY <1>3, <1>5, NumStep

LEMMA NumExtPages ==
    ASSUME TypeInv, HistoryInv, NumInv, NEW r \in Reqs, Solo(r), ExtPages(r)
    PROVE  NumInv'
<1>1. CASE Raise(r)
  BY <1>1, NumRaise
<1>2. CASE ~Raise(r)
  <2>1. PICK v, s : v \in FillTarget(req[r].cur) /\ FillVersion(req[r].cur, v, s)
    BY <1>2, ExtPagesEffect
  <2>2. req[r].pc = "extPages" /\ req[r].cur \in live /\ req[r].cur # NoDoc
    BY <1>2, ExtPagesEffect, TargetType DEF ExtPages, At
  <2>3. v \in VerIds /\ ver[v].doc = req[r].cur
    BY <2>1, <2>2 DEF FillTarget, NumInv, Counted, Highest, Unsized, VersionsOf
  <2>4. v # nextVer
    BY <2>2, <2>3 DEF HistoryInv, Unused, TypeInv, StoreType
  <2>5. ver' = [ver EXCEPT ![v] =
                [doc |-> req[r].cur, number |-> ver[v].number,
                 count |-> Len(s), sized |-> TRUE, pages |-> ver[v].pages \o FreshRows(Len(s))]]
    BY <2>1, <2>4 DEF FillVersion
  <2>6. SameNumbers
    BY <2>3, <2>5 DEF SameNumbers, TypeInv, StoreType
  <2>7. req'[r].pc \in {"error", "extText"}
    BY <1>2, ExtPagesEffect
  <2>8. QED
    BY <2>6, <2>7, NumSame, NumQuiet
<1>3. QED
  BY <1>1, <1>2

LEMMA NumUpload ==
    ASSUME TypeInv, HistoryInv, NumInv, NEW r \in Reqs, Solo(r),
           UpFile(r) \/ UpCommit(r) \/ UpNotify(r)
    PROVE  NumInv'
<1>1. CASE Raise(r)
  BY <1>1, NumRaise
<1>2. CASE UpFile(r)
  <2>1. UNCHANGED store /\ Goto(r, "upCommit") /\ req[r].pc = "upFile"
    BY <1>2 DEF UpFile, At
  <2>2. VersionsOf(req[r].doc)' = VersionsOf(req[r].doc)
    BY <2>1, PcChanged DEF VersionsOf, store
  <2>3. Counted(req[r])'
    BY <2>1, <2>2, PcChanged DEF Counted, NumInv, store
  <2>4. \A e \in Docs : Numbered(e)'
    BY <2>1, NumSame DEF store, SameNumbers
  <2>5. QED
    BY <2>3, <2>4, NumStep
<1>3. CASE UpCommit(r) /\ ~Raise(r)
  <2>1. /\ req[r].doc \in live /\ req[r].pc = "upCommit" /\ Goto(r, "upNotify")
        /\ ver' = [v \in VerIds |-> IF v \in {req[r].new, req[r].dnew}
                                    THEN UploadedVersion(r, v) ELSE ver[v]]
    BY <1>3 DEF UpCommit, At
  <2>2. PICK n \in VerIds : n = req[r].new /\ req[r].dnew = 0 /\ 0 \notin VerIds
    BY <2>1 DEF NumInv, Counted, VerIds
  <2>3. ver' = [ver EXCEPT ![n] = UploadedVersion(r, n)]
    BY <2>1, <2>2 DEF TypeInv, StoreType
  <2>4. CASE ver[n].doc = NoDoc
    <3> DEFINE row == UploadedVersion(r, n)
    <3>1. row.doc = req[r].doc /\ row.number = req[r].lnum + 1
      BY <2>4 DEF UploadedVersion
    <3>2. req[r].lnum = Cardinality(VersionsOf(req[r].doc)) /\ req[r].doc \in Docs
      BY <2>1, <2>2, <2>4 DEF NumInv, Counted, TypeInv, StoreType
    <3> HIDE DEF row
    <3>3. row.number = Cardinality(VersionsOf(req[r].doc)) + 1
      BY <3>1, <3>2
    <3>4. ver' = [ver EXCEPT ![n] = row]
      BY <2>3 DEF row
    <3>5. \A e \in Docs : Numbered(e)'
      BY <2>4, <3>1, <3>2, <3>3, <3>4, NextNumbered DEF NumInv
    <3>6. QED
      BY <2>1, <3>5, NumGoto
  <2>5. CASE ver[n].doc # NoDoc
    <3>1. ver[n] \in Version
      BY DEF TypeInv, StoreType
    <3>2. UploadedVersion(r, n).doc = ver[n].doc /\ UploadedVersion(r, n).number = ver[n].number
      BY <2>5, <3>1 DEF UploadedVersion, Version
    <3>3. SameNumbers
      BY <2>3, <3>2 DEF SameNumbers, TypeInv, StoreType
    <3>4. QED
      BY <2>1, <3>3, NumSame, NumGoto
  <2>6. QED
    BY <2>4, <2>5
<1>4. CASE UpNotify(r) /\ ~Raise(r)
  BY <1>4, NumSame, NumGoto DEF UpNotify, store, SameNumbers
<1>5. QED
  BY <1>1, <1>2, <1>3, <1>4

LEMMA NumGoesOn ==
    ASSUME TypeInv, NumInv, NEW r \in Reqs, Solo(r),
           \/ SrcPdf(r) \/ SrcText(r) \/ SrcNotify(r) \/ DstPdf(r) \/ DstNotify(r) \/ Purge(r)
           \/ ExtRead(r) \/ ExtText(r) \/ ExtNotify(r) \/ DelCommit(r) \/ DelNotify(r) \/ Crash(r)
    PROVE  NumInv'
<1>1. CASE Raise(r)
  BY <1>1, NumRaise
<1>2. CASE SrcPdf(r) \/ SrcNotify(r) \/ DstNotify(r) \/ ExtRead(r) \/ ExtNotify(r) \/ DelNotify(r)
           \/ Crash(r)
  <2>1. CASE Raise(r)
    BY <2>1, <1>1
  <2>2. CASE ~Raise(r)
    <3>1. UNCHANGED store
      BY <1>2, <2>2 DEF SrcPdf, SrcNotify, DstNotify, ExtRead, ExtNotify, DelNotify, Crash
    <3>2. PICK pc \in Stopped \cup {"srcText", "dstRead", "extRead", "extDoc", "extNotify", "purge"} :
            Goto(r, pc)
      BY <1>2, <2>2 DEF SrcPdf, SrcNotify, DstNotify, ExtRead, ExtNotify, DelNotify, Crash, Stopped
    <3>3. QED
      BY <3>1, <3>2, NumSame, NumGoto DEF store, SameNumbers, Stopped
  <2>3. QED
    BY <2>1, <2>2
<1>3. CASE DstPdf(r) /\ ~Raise(r)
  BY <1>3, DstPdfEffect, NumSame, NumQuiet DEF store, SameNumbers
<1>4. CASE SrcText(r)
  BY <1>4, CopyOnly, OnlyNumbers, NumSame, NumGoto DEF SrcText
<1>5. CASE ExtText(r)
  <2>1. SameNumbers
    BY <1>5, CopyOnly, OnlyNumbers DEF ExtText, store
  <2>2. QED
    BY <1>5, <2>1, NumSame, ExtTextEffect, NumQuiet
<1>6. CASE Purge(r) \/ DelCommit(r)
  BY SMTT(30), <1>6, NumDrop, NumGoto DEF Purge, DelCommit
<1>7. QED
  BY <1>1, <1>2, <1>3, <1>4, <1>5, <1>6

LEMMA OcrOnly ==
    ASSUME TypeInv, NEW v \in VerIds, OcrDone(v)
    PROVE  OnlyPages /\ UNCHANGED <<live, unborn, nextVer, file, sent, req>>
<1>1. PICK f : ver' = [ver EXCEPT ![v].pages = f]
  BY DEF OcrDone
<1>2. QED
  BY <1>1, PagesWritten DEF OcrDone

LEMMA NumNext ==
    ASSUME Sequential, "upload_image" \notin Ops, TypeInv, HistoryInv, Alone, NumInv, [Next]_vars
    PROVE  NumInv'
<1>1. ASSUME NEW r \in Reqs, Begin(r) \/ Step(r) \/ Crash(r) PROVE NumInv'
  BY <1>1, SoloStep, NumBegin, NumBumpRead, NumInsert, NumExtDoc, NumExtPages, NumUpload,
     NumGoesOn DEF Step
<1>2. CASE UNCHANGED req /\ (OnlyPages \/ UNCHANGED ver)
  <2>1. SameNumbers
    BY <1>2, OnlyNumbers
  <2>2. ASSUME NEW d PROVE VersionsOf(d)' = VersionsOf(d) /\ Unsized(d)' = Unsized(d)
    BY <1>2 DEF VersionsOf, Unsized, OnlyPages
  <2>3. ASSUME NEW r \in Reqs PROVE Counted(req[r])'
    BY <1>2, <2>1, <2>2 DEF NumInv, Counted, SameNumbers
  <2>4. QED
    BY <2>1, <2>3, NumSame DEF NumInv
<1>3. QED
  BY <1>1, <1>2, OcrOnly DEF Next, vars

LEMMA NumInit == Init => NumInv
<1> SUFFICES ASSUME Init PROVE NumInv
  OBVIOUS
<1>1. \A r \in Reqs : Counted(req[r])
  BY NoRequestType DEF Init, Counted
<1>2. DOMAIN Initial = 1..Len(Initial) /\ Len(Initial) \in Nat /\ Len(Initial) <= MaxVer
  BY InitialAssumption, BoundsAssumption, LenProperties
<1>3. \A v \in VerIds : IF v \in DOMAIN Initial THEN ver[v].doc = Initial[v].doc /\ ver[v].number = 1
                                                ELSE ver[v].doc = NoDoc
  BY DEF Init, NoVersion
<1>4. ASSUME NEW d \in Docs PROVE Numbered(d)
  <2>1. d # NoDoc
    BY DocsAssumption
  <2>2. CASE VersionsOf(d) = {}
    <3>1. Cardinality(VersionsOf(d)) = 0
      BY <2>2, FS_EmptySet
    <3>2. QED
      BY <2>2, <3>1 DEF Numbered
  <2>3. CASE VersionsOf(d) # {}
    <3>1. PICK v \in VersionsOf(d) : TRUE
      BY <2>3
    <3>2. \A w \in VersionsOf(d) : w \in DOMAIN Initial /\ Initial[w].doc = d /\ ver[w].number = 1
      BY <1>3, <2>1 DEF VersionsOf
    <3>3. VersionsOf(d) = {v}
      BY <3>1, <3>2, InitialAssumption
    <3>4. Cardinality(VersionsOf(d)) = 1 /\ ver[v].number = 1
      BY <3>2, <3>3, FS_Singleton
    <3>5. {ver[w].number : w \in VersionsOf(d)} = {1}
      BY <3>3, <3>4
    <3>6. QED
      BY <3>4, <3>5 DEF Numbered
  <2>4. QED
    BY <2>2, <2>3
<1>5. QED
  BY <1>1, <1>4 DEF NumInv

\* As long as a client waits for each answer and uploads no images, the versions
\* of a document are numbered 1, 2, ..., n: whatever the operations are, and
\* wherever one of them dies, version_bump (last number plus one) and
\* create_next_version (number of versions plus one) hand out the same number.
THEOREM VersionsNumbered ==
    ASSUME Sequential, "upload_image" \notin Ops
    PROVE  Spec => []NumbersContiguous
<1>1. TypeInv /\ NumInv => NumbersContiguous
  BY DEF NumInv, Numbered, NumbersContiguous, TypeInv, StoreType
<1>2. TypeInv /\ HistoryInv /\ Alone /\ NumInv /\ [Next]_vars => Alone' /\ NumInv'
  BY AloneNext, NumNext
<1>3. TypeInv /\ HistoryInv /\ [Next]_vars /\ TypeInv' => HistoryInv'
  BY HistoryNext
<1>4. QED
  BY <1>1, <1>2, <1>3, HistoryInit, AloneInit, NumInit, TypeInvariant, PTL DEF Spec

-----------------------------------------------------------------------------
(* SizedDescribesFile, SizedImmutable *)

\* What request q knows of the versions it is going to write.
Sizing(q) ==
    /\ q.pc = "srcPdf" => ~ver[q.new].sized
    /\ q.pc = "dstPdf" => ~ver[q.dnew].sized
    /\ q.pc \in {"upFile", "upCommit"} =>
          /\ q.new \in VerIds /\ ~ver[q.new].sized
          /\ q.dnew \in VerIds \cup {0}
          /\ q.dnew \in VerIds => ~ver[q.dnew].sized /\ q.dnew # q.new
    /\ q.pc = "upCommit" =>
          /\ q.dnew \notin VerIds => file[q.new] = Pdf(q.up)
          /\ q.dnew \in VerIds => file[q.new].kind = "image" /\ file[q.dnew] = Pdf(q.up)

SizeInv ==
    /\ SizedDescribesFile
    /\ \A v \in VerIds : ver[v].sized => ver[v].doc # NoDoc
    /\ \A r \in Reqs : Sizing(req[r])

\* A step leaves version v alone, or drops it with its document ...
Untouched(v) ==
    /\ file'[v] = file[v]
    /\ ver'[v].sized => ver[v].sized /\ ver'[v].doc # NoDoc
    /\ ver'[v].doc # NoDoc => ver'[v].count = ver[v].count

\* ... or writes it; if it gets a size then with its file and page_count.
Filled(v) ==
    /\ ~ver[v].sized
    /\ ver'[v].sized => /\ ver'[v].doc # NoDoc /\ file'[v].kind # "none"
                        /\ file'[v].kind = "pdf" => ver'[v].count = Len(file'[v].pages)

\* What SizedImmutable says of a step.
SizedKept ==
    \A v \in VerIds : ver[v].sized =>
        /\ file'[v] = file[v]
        /\ ver'[v].doc # NoDoc => ver'[v].count = ver[v].count

LEMMA SizeStep ==
    ASSUME TypeInv, SizeInv, NEW r \in Reqs, Solo(r),
           \A v \in VerIds : Untouched(v) \/ Filled(v), Sizing(req[r])'
    PROVE  SizeInv' /\ SizedKept
<1>1. SizedKept
  BY DEF SizedKept, Untouched, Filled
<1>2. ASSUME NEW v \in VerIds, ver'[v].sized
      PROVE  /\ ver'[v].doc # NoDoc /\ file'[v].kind # "none"
             /\ file'[v].kind = "pdf" => ver'[v].count = Len(file'[v].pages)
  BY <1>2 DEF Untouched, Filled, SizeInv, SizedDescribesFile
<1>3. ASSUME NEW p \in Reqs \ {r} PROVE Sizing(req[p])'
  BY DEF Solo, Others, Working, Stopped, Sizing
<1>4. QED
  BY <1>1, <1>2, <1>3 DEF SizeInv, SizedDescribesFile

\* A step to a point where nothing needs to be known.
LEMMA SizeQuiet ==
    ASSUME TypeInv, SizeInv, NEW r \in Reqs, Solo(r),
           \A v \in VerIds : Untouched(v) \/ Filled(v),
           req'[r].pc \notin {"srcPdf", "dstPdf", "upFile", "upCommit"}
    PROVE  SizeInv' /\ SizedKept
BY SizeStep DEF Sizing

LEMMA SizeGoto ==
    ASSUME TypeInv, SizeInv, NEW r \in Reqs, Solo(r),
           \A v \in VerIds : Untouched(v) \/ Filled(v), NEW pc, Goto(r, pc),
           pc \notin {"srcPdf", "dstPdf", "upFile", "upCommit"}
    PROVE  SizeInv' /\ SizedKept
BY SizeQuiet, PcChanged

LEMMA SameUntouched ==
    ASSUME SizeInv, UNCHANGED file, OnlyPages \/ UNCHANGED ver
    PROVE  \A v \in VerIds : Untouched(v)
BY DEF SizeInv, Untouched, OnlyPages

LEMMA SizeRaise ==
    ASSUME TypeInv, SizeInv, NEW r \in Reqs, Solo(r), Raise(r)
    PROVE  SizeInv' /\ SizedKept
BY SameUntouched, SizeGoto DEF Raise, store

LEMMA DropUntouched ==
    ASSUME SizeInv, UNCHANGED file, NEW d, DropDocument(d)
    PROVE  \A v \in VerIds : Untouched(v)
BY DEF SizeInv, Untouched, DropDocument, NoVersion

LEMMA NextUnsized ==
    ASSUME TypeInv, HistoryInv, SizeInv
    PROVE  \A v \in VerIds : v >= nextVer => ~ver[v].sized
BY DEF HistoryInv, Unused, SizeInv

\* A version inserted without a size.
LEMMA InsertFilled ==
    ASSUME TypeInv, HistoryInv, SizeInv, UNCHANGED file, nextVer \in VerIds,
           NEW row, ~row.sized, ver' = [ver EXCEPT ![nextVer] = row]
    PROVE  /\ \A v \in VerIds : Untouched(v) \/ Filled(v)
           /\ ~ver'[nextVer].sized
<1>1. ver'[nextVer] = row /\ \A v \in VerIds \ {nextVer} : ver'[v] = ver[v]
  BY DEF TypeInv, StoreType
<1>2. ~ver[nextVer].sized
  BY NextUnsized DEF TypeInv, StoreType
<1>3. Filled(nextVer)
  BY <1>1, <1>2 DEF Filled
<1>4. \A v \in VerIds \ {nextVer} : Untouched(v)
  BY <1>1 DEF Untouched, SizeInv
<1>5. QED
  BY <1>1, <1>3, <1>4

LEMMA CreateFilled ==
    ASSUME TypeInv, HistoryInv, SizeInv, UNCHANGED file, NEW d, CreateDocument(d)
    PROVE  \A v \in VerIds : Untouched(v) \/ Filled(v)
<1> DEFINE row == [NoVersion EXCEPT !.doc = d, !.number = 1]
<1>1. nextVer \in VerIds /\ ver' = [ver EXCEPT ![nextVer] = row] /\ ~row.sized
  BY DEF CreateDocument, NoVersion
<1> HIDE DEF row
<1>2. QED
  BY <1>1, InsertFilled

LEMMA SizeBegin ==
    ASSUME TypeInv, HistoryInv, SizeInv, NEW r \in Reqs, Solo(r), Begin(r)
    PROVE  SizeInv' /\ SizedKept
<1>1. CASE ~Create(r) /\ ~BeginUpload(r)
  BY <1>1, BeginPc, SameUntouched, SizeQuiet DEF store
<1>2. CASE Create(r)
  <2>1. req'[r].pc = "done"
    BY <1>2, NoRequestType DEF Create, TypeInv, Request
  <2>2. QED
    BY <1>2, <2>1, CreateFilled, SizeQuiet DEF Create
<1>3. CASE BeginUpload(r)
  <2>1. UNCHANGED <<ver, file>>
    BY <1>3, BeginUploadEffect
  <2>2. PICK d \in live, v \in VerIds, w \in VerIds \cup {0} :
          /\ req'[r].pc = "upFile" /\ req'[r].new = v /\ req'[r].dnew = w
          /\ v = nextVer \/ v \in Unsized(d)
          /\ w # 0 => w # v /\ (w \in Unsized(d) \/ w >= nextVer)
    BY <1>3, BeginUploadEffect
  <2>3. ~ver[v].sized /\ (w # 0 => ~ver[w].sized)
    BY <2>2, NextUnsized DEF Unsized, TypeInv, StoreType
  <2>4. 0 \notin VerIds
    BY DEF VerIds
  <2>5. Sizing(req[r])'
    BY <2>1, <2>2, <2>3, <2>4 DEF Sizing
  <2>6. QED
    BY <2>1, <2>5, SameUntouched, SizeStep
<1>4. QED
  BY <1>1, <1>2, <1>3

LEMMA SizeInsert ==
    ASSUME TypeInv, HistoryInv, SizeInv, NEW r \in Reqs, Solo(r), SrcInsert(r) \/ DstInsert(r)
    PROVE  SizeInv' /\ SizedKept
<1>1. CASE Raise(r)
  BY <1>1, SizeRaise
<1>2. CASE ~Raise(r)
  <2>1. PICK d, count : BumpInsert(r, d, count)
    BY <1>2 DEF SrcInsert, DstInsert
  <2>2. \/ req'[r].pc = "srcPdf" /\ req'[r].new = nextVer
        \/ req'[r].pc = "dstPdf" /\ req'[r].dnew = nextVer
    BY <1>2 DEF SrcInsert, DstInsert, TypeInv, Request
  <2> DEFINE row == BumpVersion(r, d, count)
  <2>3. nextVer \in VerIds /\ ver' = [ver EXCEPT ![nextVer] = row] /\ ~row.sized /\ UNCHANGED file
    BY <2>1 DEF BumpInsert, BumpVersion
  <2> HIDE DEF row
  <2>4. ~ver'[nextVer].sized /\ \A v \in VerIds : Untouched(v) \/ Filled(v)
    BY <2>3, InsertFilled
  <2>5. Sizing(req[r])'
    BY <2>2, <2>4 DEF Sizing
  <2>6. QED
    BY <2>4, <2>5, SizeStep
<1>3. QED
  BY <1>1, <1>2

LEMMA SizePdf ==
    ASSUME TypeInv, HistoryInv, SizeInv, NEW r \in Reqs, Solo(r), SrcPdf(r) \/ DstPdf(r)
    PROVE  SizeInv' /\ SizedKept
<1>1. CASE Raise(r)
  BY <1>1, SizeRaise
<1>2. CASE ~Raise(r)
  <2>1. PICK w, f : /\ file' = [file EXCEPT ![w] = f] /\ ~ver[w].sized /\ UNCHANGED ver
                    /\ req'[r].pc \in {"error", "srcText", "purge", "dstNotify"}
    <3>1. CASE SrcPdf(r)
      <4>1. PICK pc \in {"error", "srcText"} : Goto(r, pc)
        BY <1>2, <3>1 DEF SrcPdf
      <4>2. /\ \E f : file' = [file EXCEPT ![req[r].new] = f]
            /\ ~ver[req[r].new].sized /\ UNCHANGED ver
        BY <1>2, <3>1 DEF SrcPdf, At, SizeInv, Sizing, store
      <4>3. QED
        BY <4>1, <4>2, PcChanged
    <3>2. CASE DstPdf(r)
      BY <1>2, <3>2, DstPdfEffect DEF DstPdf, At, SizeInv, Sizing, store
    <3>3. QED
      BY <3>1, <3>2
  <2>2. \A v \in VerIds \ {w} : Untouched(v)
    BY <2>1 DEF Untouched, SizeInv, TypeInv, StoreType
  <2>3. \A v \in {w} : Filled(v)
    BY <2>1 DEF Filled
  <2>4. QED
    BY <2>1, <2>2, <2>3, SizeQuiet
<1>3. QED
  BY <1>1, <1>2

LEMMA SizeExtPages ==
    ASSUME TypeInv, HistoryInv, SizeInv, NEW r \in Reqs, Solo(r), ExtPages(r)
    PROVE  SizeInv' /\ SizedKept
<1>1. CASE Raise(r)
  BY <1>1, SizeRaise
<1>2. CASE ~Raise(r)
  <2> DEFINE d == req[r].cur
  <2>1. PICK v, s : v \in FillTarget(d) /\ FillVersion(d, v, s)
    BY <1>2, ExtPagesEffect
  <2>2. d # NoDoc /\ req'[r].pc \in {"error", "extText"}
    BY <1>2, ExtPagesEffect, TargetType DEF ExtPages, At
  <2>3. v \in VerIds /\ ~ver[v].sized
    BY <2>1, NextUnsized DEF FillTarget, Highest, Unsized, VersionsOf, TypeInv, StoreType
  <2>4. /\ \A w \in VerIds \ {v} : ver'[w] = ver[w] /\ file'[w] = file[w]
        /\ file'[v] = Pdf(s) /\ ver'[v].doc = d /\ ver'[v].count = Len(s)
    BY <2>1, <2>3 DEF FillVersion, TypeInv, StoreType
  <2>5. Filled(v)
    BY <2>2, <2>3, <2>4 DEF Filled, Pdf
  <2>6. \A w \in VerIds \ {v} : Untouched(w)
    BY <2>4 DEF Untouched, SizeInv
  <2>7. QED
    BY <2>2, <2>5, <2>6, SizeQuiet
<1>3. QED
  BY <1>1, <1>2

LEMMA SizeUpFile ==
    ASSUME TypeInv, HistoryInv, SizeInv, NEW r \in Reqs, Solo(r), UpFile(r)
    PROVE  SizeInv' /\ SizedKept
<1>1. PICK q : q = req[r]
  OBVIOUS
<1>2. /\ q.pc = "upFile" /\ UNCHANGED ver /\ Goto(r, "upCommit")
      /\ file' = IF q.dnew = 0 THEN [file EXCEPT ![q.new] = Pdf(q.up)]
                 ELSE [file EXCEPT ![q.new] = [kind |-> "image", pages |-> <<>>],
                                   ![q.dnew] = Pdf(q.up)]
  BY <1>1 DEF UpFile, At, store
<1>3. /\ q.new \in VerIds /\ ~ver[q.new].sized
      /\ q.dnew \in VerIds \cup {0} /\ 0 \notin VerIds
      /\ q.dnew \in VerIds => ~ver[q.dnew].sized /\ q.dnew # q.new
  BY <1>1, <1>2 DEF SizeInv, Sizing, VerIds
<1>4. req'[r].pc = "upCommit" /\ req'[r].new = q.new /\ req'[r].dnew = q.dnew /\ req'[r].up = q.up
  BY <1>1, <1>2 DEF Goto, TypeInv, Request
<1>5. /\ \A v \in VerIds \ {q.new, q.dnew} : file'[v] = file[v]
      /\ q.dnew = 0 => file'[q.new] = Pdf(q.up)
      /\ q.dnew # 0 => file'[q.new].kind = "image" /\ file'[q.dnew] = Pdf(q.up)
  BY <1>2, <1>3 DEF TypeInv, StoreType
<1>6. \A v \in VerIds \ {q.new, q.dnew} : Untouched(v)
  BY <1>2, <1>5 DEF Untouched, SizeInv
<1>7. \A v \in {q.new, q.dnew} \cap VerIds : Filled(v)
  BY <1>2, <1>3 DEF Filled
<1>8. Sizing(req[r])'
  BY <1>2, <1>3, <1>4, <1>5 DEF Sizing
<1>9. QED
  BY <1>6, <1>7, <1>8, SizeStep

LEMMA SizeUpCommit ==
    ASSUME TypeInv, HistoryInv, SizeInv, NEW r \in Reqs, Solo(r), UpCommit(r)
    PROVE  SizeInv' /\ SizedKept
<1>1. CASE Raise(r)
  BY <1>1, SizeRaise
<1>2. CASE ~Raise(r)
  <2>1. PICK q : q = req[r]
    OBVIOUS
  <2>2. /\ q.pc = "upCommit" /\ q.doc \in live /\ UNCHANGED file /\ Goto(r, "upNotify")
        /\ ver' = [v \in VerIds |-> IF v \in {q.new, q.dnew} THEN UploadedVersion(r, v) ELSE ver[v]]
    BY <1>2, <2>1 DEF UpCommit, At
  <2>3. q.doc # NoDoc
    BY <2>2, DocsAssumption DEF TypeInv, StoreType
  <2>4. /\ q.new \in VerIds /\ ~ver[q.new].sized /\ q.dnew \in VerIds \cup {0}
        /\ q.dnew \in VerIds => ~ver[q.dnew].sized /\ q.dnew # q.new
        /\ q.dnew \notin VerIds => file[q.new] = Pdf(q.up)
        /\ q.dnew \in VerIds => file[q.new].kind = "image" /\ file[q.dnew] = Pdf(q.up)
    BY <2>1, <2>2 DEF SizeInv, Sizing
  <2>5. ASSUME NEW v \in {q.new, q.dnew} \cap VerIds
        PROVE  Filled(v)
    <3>1. ver'[v] = UploadedVersion(r, v) /\ ver[v] \in Version
      BY <2>2 DEF TypeInv, StoreType
    <3>2. UploadedVersion(r, v).doc # NoDoc /\ UploadedVersion(r, v).count = Len(q.up)
      BY <2>1, <2>3, <3>1 DEF UploadedVersion, Version
    <3>3. file[v].kind # "none" /\ (file[v].kind = "pdf" => file[v].pages = q.up)
      BY <2>4 DEF Pdf
    <3>4. QED
      BY <2>2, <2>4, <3>1, <3>2, <3>3 DEF Filled
  <2>6. \A v \in VerIds \ {q.new, q.dnew} : Untouched(v)
    BY <2>2 DEF Untouched, SizeInv
  <2>7. QED
    BY <2>2, <2>5, <2>6, SizeGoto
<1>3. QED
  BY <1>1, <1>2

LEMMA SizeGoesOn ==
    ASSUME TypeInv, HistoryInv, SizeInv, NEW r \in Reqs, Solo(r),
           \/ SrcRead(r) \/ SrcText(r) \/ SrcNotify(r) \/ DstRead(r) \/ DstNotify(r) \/ Purge(r)
           \/ ExtRead(r) \/ ExtDoc(r) \/ ExtText(r) \/ ExtNotify(r)
           \/ UpNotify(r) \/ DelCommit(r) \/ DelNotify(r) \/ Crash(r)
    PROVE  SizeInv' /\ SizedKept
<1>1. CASE Raise(r)
  BY <1>1, SizeRaise
<1>2. CASE SrcRead(r) /\ ~Raise(r)
  BY <1>2, BumpReadEffect, SameUntouched, SizeQuiet DEF SrcRead, store
<1>3. CASE DstRead(r) /\ ~Raise(r)
  BY <1>3, BumpReadEffect, SameUntouched, SizeQuiet DEF DstRead, store
<1>4. CASE \/ SrcNotify(r) \/ DstNotify(r) \/ ExtRead(r) \/ ExtNotify(r) \/ DelNotify(r)
           \/ Crash(r) \/ (UpNotify(r) /\ ~Raise(r))
  <2>1. UNCHANGED <<store, file>>
    BY <1>4 DEF SrcNotify, DstNotify, ExtRead, ExtNotify, DelNotify, Crash, UpNotify
  <2>2. PICK pc \in Stopped \cup {"dstRead", "extRead", "extDoc", "extNotify", "purge"} : Goto(r, pc)
    BY <1>4 DEF SrcNotify, DstNotify, ExtRead, ExtNotify, DelNotify, Crash, UpNotify, Stopped
  <2>3. QED
    BY <2>1, <2>2, SameUntouched, SizeGoto DEF store, Stopped
<1>5. CASE SrcText(r)
  BY <1>5, CopyOnly, SameUntouched, SizeGoto DEF SrcText
<1>6. CASE ExtText(r)
  <2>1. OnlyPages \/ UNCHANGED ver
    BY <1>6, CopyOnly DEF ExtText, store
  <2>2. QED
    BY <1>6, <2>1, ExtTextEffect, SameUntouched, SizeQuiet
<1>7. CASE ExtDoc(r)
  BY <1>7, ExtDocEffect, CreateFilled, SizeQuiet
<1>8. CASE Purge(r) \/ DelCommit(r)
  BY <1>8, DropUntouched, SizeGoto DEF Purge, DelCommit
<1>9. QED
  BY <1>1, <1>2, <1>3, <1>4, <1>5, <1>6, <1>7, <1>8

LEMMA SizeNext ==
    ASSUME Sequential, TypeInv, HistoryInv, Alone, SizeInv, [Next]_vars
    PROVE  SizeInv' /\ SizedKept
<1>1. ASSUME NEW r \in Reqs, Begin(r) \/ Step(r) \/ Crash(r) PROVE SizeInv' /\ SizedKept
  BY <1>1, SoloStep, SizeBegin, SizeInsert, SizePdf, SizeExtPages, SizeUpFile, SizeUpCommit,
     SizeGoesOn DEF Step
<1>2. CASE UNCHANGED <<req, file>> /\ (OnlyPages \/ UNCHANGED ver)
  <2>1. \A v \in VerIds : Untouched(v)
    BY <1>2, SameUntouched
  <2>2. SizedDescribesFile' /\ SizedKept /\ \A v \in VerIds : ver'[v].sized => ver'[v].doc # NoDoc
    BY <2>1 DEF SizeInv, SizedDescribesFile, SizedKept, Untouched
  <2>3. \A v \in VerIds : ver'[v].sized => ver[v].sized
    BY <2>1 DEF Untouched
  <2>4. ASSUME NEW r \in Reqs PROVE Sizing(req[r])'
    <3>1. req'[r] = req[r] /\ UNCHANGED file /\ Sizing(req[r])
      BY <1>2 DEF SizeInv
    <3>2. LocalsAt(req[r].pc, req[r])
      BY LocalsOf
    <3>3. /\ req[r].pc = "srcPdf" => req[r].new \in VerIds
          /\ req[r].pc = "dstPdf" => req[r].dnew \in VerIds
      BY <3>2 DEF LocalsAt
    <3>4. QED
      BY <2>3, <3>1, <3>3 DEF Sizing
  <2>5. QED
    BY <2>2, <2>4 DEF SizeInv
<1>3. QED
  BY <1>1, <1>2, OcrOnly DEF Next, vars

LEMMA InitialType ==
    /\ DOMAIN Initial = 1..Len(Initial) /\ Len(Initial) \in Nat
    /\ \A i \in DOMAIN Initial : Initial[i].doc \in Docs /\ Initial[i].pages \in Seq(Content)
<1>1. DOMAIN Initial = 1..Len(Initial) /\ Len(Initial) \in Nat
  BY InitialAssumption, LenProperties
<1>2. ASSUME NEW i \in DOMAIN Initial
      PROVE  Initial[i].doc \in Docs /\ Initial[i].pages \in Seq(Content)
  <2>1. Initial[i] \in [doc : Docs, pages : Seq(Content)]
    BY <1>1, InitialAssumption, ElementOfSeq
  <2>2. QED
    BY <2>1
<1>3. QED
  BY <1>1, <1>2

LEMMA SizeInit == Init => SizeInv
<1> SUFFICES ASSUME Init PROVE SizeInv
  OBVIOUS
<1>1. \A r \in Reqs : Sizing(req[r])
  BY NoRequestType DEF Init, Sizing
<1>2. \A v \in VerIds : ver[v].sized => v \in DOMAIN Initial
  BY DEF Init, NoVersion
<1>3. \A v \in VerIds \cap DOMAIN Initial :
        /\ ver[v].doc = Initial[v].doc /\ ver[v].count = Len(Initial[v].pages)
        /\ file[v] = Pdf(Initial[v].pages)
  BY DEF Init
<1>4. \A v \in DOMAIN Initial : Initial[v].doc # NoDoc
  BY InitialType, DocsAssumption
<1>5. ASSUME NEW v \in VerIds, ver[v].sized
      PROVE  /\ ver[v].doc # NoDoc /\ file[v].kind # "none"
             /\ file[v].kind = "pdf" => ver[v].count = Len(file[v].pages)
  <2>1. v \in VerIds \cap DOMAIN Initial
    BY <1>2, <1>5
  <2>2. ver[v].doc # NoDoc /\ ver[v].count = Len(Initial[v].pages)
    BY <1>3, <1>4, <2>1
  <2>3. file[v].kind = "pdf" /\ file[v].pages = Initial[v].pages
    <3>1. file[v] = Pdf(Initial[v].pages)
      BY <1>3, <2>1
    <3>2. QED
      BY <3>1 DEF Pdf
  <2>4. QED
    BY <2>2, <2>3
<1>6. QED
  BY <1>1, <1>5 DEF SizeInv, SizedDescribesFile

\* As long as a client waits for each answer, a version that records a size has its
\* file, and its page_count counts the pages of that file: uploads of PDFs and
\* images, page operations and crashes inside any of them included.
THEOREM SizesTrue ==
    ASSUME Sequential
    PROVE  Spec => []SizedDescribesFile
<1>1. SizeInv => SizedDescribesFile
  BY DEF SizeInv
<1>2. TypeInv /\ HistoryInv /\ Alone /\ SizeInv /\ [Next]_vars => Alone' /\ SizeInv'
  BY AloneNext, SizeNext
<1>3. TypeInv /\ HistoryInv /\ [Next]_vars /\ TypeInv' => HistoryInv'
  BY HistoryNext
<1>4. QED
  BY <1>1, <1>2, <1>3, HistoryInit, AloneInit, SizeInit, TypeInvariant, PTL DEF Spec

\* Under the same assumption no step changes the file or the page_count of a version
\* that records a size: uploads and extractions fill only versions of size 0.
THEOREM SizedAreFinal ==
    ASSUME Sequential
    PROVE  Spec => SizedImmutable
<1>1. TypeInv /\ HistoryInv /\ Alone /\ SizeInv /\ [Next]_vars => Alone' /\ SizeInv' /\ [SizedKept]_vars
  BY AloneNext, SizeNext
<1>2. TypeInv /\ HistoryInv /\ [Next]_vars /\ TypeInv' => HistoryInv'
  BY HistoryNext
<1>3. Spec => [][SizedKept]_vars
  BY <1>1, <1>2, HistoryInit, AloneInit, SizeInit, TypeInvariant, PTL DEF Spec
<1>4. QED
  BY <1>3 DEF SizedImmutable, SizedKept

=============================================================================
