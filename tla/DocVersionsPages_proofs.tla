---------------------- MODULE DocVersionsPages_proofs ----------------------
(***************************************************************************)
(* Theorems about DocVersions that follow the pages themselves: which rows  *)
(* a version has, which pages its file holds and where a page goes when it  *)
(* is moved or extracted.  Then what a reader sees: the last version of a   *)
(* document is whole when no handler is at work; the recognised texts,      *)
(* which stay with the pages they were recognised on; and, for one careful  *)
(* user, that no page is lost.                                              *)
(***************************************************************************)
EXTENDS DocVersionsSequential_proofs

-----------------------------------------------------------------------------
(* Sequences without repetition *)

LEMMA DistinctRange ==
    ASSUME NEW S, NEW s \in Seq(S), IsInjective(s)
    PROVE  IsFiniteSet(Range(s)) /\ Cardinality(Range(s)) = Len(s)
<1>1. DOMAIN s = 1..Len(s) /\ Len(s) \in Nat /\ s \in [1..Len(s) -> S]
  BY LenProperties
<1>2. IsFiniteSet(1..Len(s)) /\ Cardinality(1..Len(s)) = Len(s)
  <2>1. Cardinality(1..Len(s)) = IF 1 > Len(s) THEN 0 ELSE Len(s) - 1 + 1
    BY <1>1, FS_Interval
  <2>2. QED
    BY <1>1, <2>1, FS_Interval, SMTT(20)
<1>3. s \in [1..Len(s) -> Range(s)]
  BY <1>1 DEF Range
<1>4. s \in Surjection(1..Len(s), Range(s)) /\ s \in Injection(1..Len(s), Range(s))
  BY <1>1, <1>3 DEF Surjection, Injection, IsInjective, Range
<1>5. QED
  BY <1>2, <1>4, FS_Surjection

LEMMA IntervalSize ==
    ASSUME NEW n \in Nat
    PROVE  IsFiniteSet(1..n) /\ Cardinality(1..n) = n
<1>1. Cardinality(1..n) = IF 1 > n THEN 0 ELSE n - 1 + 1
  BY FS_Interval
<1>2. QED
  BY <1>1, FS_Interval

\* As many different positions as there are: all of them.
LEMMA AllPositions ==
    ASSUME NEW n \in Nat, NEW s \in Seq(1..n), IsInjective(s), Len(s) = n
    PROVE  Range(s) = 1..n
<1>1. Range(s) \in SUBSET (1..n)
  BY RangeOfSeq
<1>2. Cardinality(Range(s)) = n
  BY DistinctRange
<1>3. QED
  BY <1>1, <1>2, IntervalSize, FS_Subset

\* The positions that are left when some are taken out.
LEMMA PositionsLeft ==
    ASSUME NEW n \in Nat, NEW S, NEW s \in Seq(S), IsInjective(s), Range(s) \subseteq 1..n
    PROVE  Cardinality((1..n) \ Range(s)) = n - Len(s)
<1>1. IsFiniteSet(1..n) /\ Cardinality(1..n) = n
  BY IntervalSize
<1>2. Cardinality(Range(s)) = Len(s) /\ IsFiniteSet(Range(s)) /\ Len(s) \in Nat
  BY DistinctRange, LenProperties
<1>3. (1..n) \cap Range(s) = Range(s)
  OBVIOUS
<1>4. Cardinality((1..n) \ Range(s)) = Cardinality(1..n) - Cardinality((1..n) \cap Range(s))
  BY <1>1, FS_Difference
<1>5. QED
  BY <1>1, <1>2, <1>3, <1>4

LEMMA InOrderDistinct ==
    ASSUME NEW n \in Nat, NEW S \in SUBSET (1..n), NEW s \in InOrder(S)
    PROVE  IsInjective(s)
<1>1. PICK m \in Nat : m = Cardinality(S)
  BY SetOfPositions
<1>2. s \in [1..m -> S] /\ \A j, k \in DOMAIN s : j < k => s[j] < s[k]
  BY <1>1 DEF InOrder
<1>3. DOMAIN s = 1..m /\ \A j \in 1..m : s[j] \in S
  BY <1>2
<1>4. \A j \in 1..m : s[j] \in Int
  <2>1. \A i \in 1..n : i \in Int
    OBVIOUS
  <2>2. QED
    BY <1>3, <2>1
<1>5. ASSUME NEW j \in 1..m, NEW k \in 1..m, s[j] = s[k] PROVE j = k
  <2>1. ~(j < k) /\ ~(k < j)
    BY <1>2, <1>3, <1>4, <1>5
  <2>2. QED
    BY <2>1
<1>6. QED
  BY <1>3, <1>5 DEF IsInjective

LEMMA ByNumberDistinct ==
    ASSUME NEW rows \in Seq(PageRow), NEW S \in SUBSET DOMAIN rows, NEW s \in ByNumber(rows, S)
    PROVE  IsInjective(s)
<1>1. Cardinality(S) \in Nat
  BY SetOfPositions, LenProperties
<1>2. DOMAIN s = 1..Cardinality(S) /\ \A j, k \in DOMAIN s : j < k => s[j] # s[k]
  BY DEF ByNumber
<1>3. QED
  BY <1>1, <1>2 DEF IsInjective

-----------------------------------------------------------------------------
(* Rows of pages *)

\* The rows of a version are numbered from 1 on, in the order they are in.
Listed(rows) == \A i \in DOMAIN rows : rows[i].number = i

LEMMA FreshRowsListed ==
    ASSUME NEW n \in Nat
    PROVE  Listed(FreshRows(n)) /\ FreshRows(n) \in Seq(PageRow) /\ Len(FreshRows(n)) = n
BY FreshRowsType DEF Listed, FreshRows

\* A version has rows only for a document, and as many as its file has pages.
Rowed(v) ==
    /\ Listed(ver[v].pages)
    /\ ver[v].doc = NoDoc => Len(ver[v].pages) = 0
    /\ ver[v].doc # NoDoc /\ file[v].kind = "pdf" => Len(file[v].pages) <= Len(ver[v].pages)

\* What a step may not take back: a file, the rows of a version, the document of a
\* version as long as there is one.
Persists ==
    /\ Frozen
    /\ \A v \in VerIds :
        /\ Len(ver[v].pages) # 0 /\ ver'[v].doc # NoDoc =>
              Len(ver'[v].pages) = Len(ver[v].pages)
        /\ ver[v].doc # NoDoc => ver'[v].doc \in {ver[v].doc, NoDoc}
        /\ ver[v].doc # NoDoc /\ ver[v].doc \in live' => ver'[v].doc = ver[v].doc
        /\ ver[v].doc = NoDoc /\ v < nextVer => ver'[v].doc = NoDoc
    /\ live' \subseteq live \cup unborn

\* Rows are written to a new version, or to one that has none.
RowsGrow ==
    \A v \in VerIds :
        \/ RowKept(v)
        \/ v = nextVer
        \/ Len(ver[v].pages) = 0 /\ ver[v].doc # NoDoc /\ ver'[v].doc = ver[v].doc

LEMMA GrowPersists ==
    ASSUME TypeInv, HistoryInv, \A v \in VerIds : Rowed(v), Frozen, StoreEvolves, RowsGrow
    PROVE  Persists
<1>1. ASSUME NEW v \in VerIds
      PROVE  /\ Len(ver[v].pages) # 0 /\ ver'[v].doc # NoDoc =>
                    Len(ver'[v].pages) = Len(ver[v].pages)
             /\ ver[v].doc # NoDoc => ver'[v].doc \in {ver[v].doc, NoDoc}
             /\ ver[v].doc # NoDoc /\ ver[v].doc \in live' => ver'[v].doc = ver[v].doc
             /\ ver[v].doc = NoDoc /\ v < nextVer => ver'[v].doc = NoDoc
  <2>1. v \in Int /\ nextVer \in Int
    BY DEF VerIds, TypeInv, StoreType
  <2>2. v = nextVer => ver[v].doc = NoDoc /\ Len(ver[v].pages) = 0
    BY <2>1 DEF HistoryInv, Unused, Rowed
  <2>3. ver[v].doc # NoDoc /\ ver[v].doc \in live' => ver'[v].doc = ver[v].doc
    BY DEF StoreEvolves, VersionsEvolve
  <2>4. RowKept(v) \/ v = nextVer
        \/ (Len(ver[v].pages) = 0 /\ ver[v].doc # NoDoc /\ ver'[v].doc = ver[v].doc)
    BY DEF RowsGrow
  <2>5. QED
    BY <2>1, <2>2, <2>3, <2>4 DEF RowKept
<1>2. live' \subseteq live \cup unborn
  BY DEF StoreEvolves
<1>3. QED
  BY <1>1, <1>2 DEF Persists

LEMMA SameGrow ==
    ASSUME TypeInv, HistoryInv, UNCHANGED store
    PROVE  StoreEvolves /\ RowsGrow
BY UnchangedEvolves, SameRows DEF store, RowsGrow

LEMMA CreateGrow ==
    ASSUME TypeInv, HistoryInv, NEW r \in Reqs, NEW d, CreateDocument(d), UNCHANGED file
    PROVE  StoreEvolves /\ RowsGrow
BY CreateEvolves, FreshCreated DEF RowsGrow

LEMMA DropGrow ==
    ASSUME TypeInv, HistoryInv, NEW d, DropDocument(d)
    PROVE  StoreEvolves /\ RowsGrow
BY DropEvolves, DropKeepsRows DEF RowsGrow

LEMMA BumpGrow ==
    ASSUME TypeInv, HistoryInv, NEW r \in Reqs, NEW d \in live, NEW count,
           BumpInsert(r, d, count)
    PROVE  StoreEvolves /\ RowsGrow
<1>1. StoreEvolves /\ \A v \in VerIds \ {nextVer} : ver'[v] = ver[v]
  BY BumpEvolves
<1>2. QED
  BY <1>1 DEF RowsGrow, RowKept

LEMMA TextGrow ==
    ASSUME TypeInv, TypeInv', HistoryInv, NEW v, NEW rows, NEW S, CopyText(rows, S, v),
           UNCHANGED <<live, unborn, nextVer>>
    PROVE  StoreEvolves /\ RowsGrow
BY WriteTextEvolves, TextsKeepRows DEF CopyText, RowsGrow

LEMMA FillGrow ==
    ASSUME TypeInv, HistoryInv, FreshInv, NEW r \in Reqs, ExtPages(r), ~Raise(r)
    PROVE  StoreEvolves /\ RowsGrow
<1>1. req[r].pc = "extPages" /\ req[r].cur \in live /\ req[r].cur # NoDoc
  BY Zenon, ExtPagesEffect, TargetType DEF ExtPages, At
<1>2. PICK v, s : v \in FillTarget(req[r].cur) /\ FillVersion(req[r].cur, v, s)
  BY ExtPagesEffect
<1>3. v \in VerIds /\ (v = nextVer \/ v \in VersionsOf(req[r].cur))
  BY <1>2 DEF FillTarget, Highest, Unsized, VersionsOf
<1>4. v \in VersionsOf(req[r].cur) => Len(ver[v].pages) = 0 /\ ver[v].doc = req[r].cur
  BY <1>1 DEF FreshInv, Filling, VersionsOf
<1>5. ver'[v].doc = req[r].cur /\ \A w \in VerIds \ {v} : ver'[w] = ver[w]
  BY <1>2, <1>3 DEF FillVersion, TypeInv, StoreType
<1>6. StoreEvolves
  BY <1>1, <1>2, FillEvolves
<1>7. QED
  BY Zenon, <1>1, <1>3, <1>4, <1>5, <1>6 DEF RowsGrow, RowKept

LEMMA GrowStep ==
    ASSUME TypeInv, TypeInv', HistoryInv, FreshInv, NEW r \in Reqs, Step(r)
    PROVE  StoreEvolves /\ RowsGrow
<1>1. CASE Raise(r)
  BY <1>1, SameGrow DEF Raise
<1>2. CASE ~Raise(r) /\ (SrcRead(r) \/ DstRead(r))
  BY <1>2, BumpReadEffect, SameGrow DEF SrcRead, DstRead
<1>3. CASE SrcInsert(r) /\ ~Raise(r)
  BY <1>3, BumpGrow DEF SrcInsert
<1>4. CASE DstInsert(r) /\ ~Raise(r)
  BY <1>4, BumpGrow DEF DstInsert
<1>5. CASE /\ \/ SrcPdf(r) \/ SrcNotify(r) \/ DstPdf(r) \/ DstNotify(r) \/ ExtRead(r)
              \/ ExtNotify(r) \/ DelNotify(r)
           /\ ~Raise(r)
  <2>1. UNCHANGED store
    BY <1>5 DEF SrcPdf, SrcNotify, DstPdf, DstNotify, ExtRead, ExtNotify, DelNotify
  <2>2. QED
    BY <2>1, SameGrow
<1>6. CASE SrcText(r)
  BY <1>6, TextGrow DEF SrcText
<1>7. CASE ExtText(r)
  <2>1. UNCHANGED store \/ \E v : CopyText(req[r].rows, Range(Batch(r)), v)
    BY <1>7 DEF ExtText
  <2>2. QED
    BY <1>7, <2>1, ExtTextEffect, TextGrow, SameGrow
<1>8. CASE Purge(r) \/ DelCommit(r)
  BY <1>8, DropGrow DEF Purge, DelCommit
<1>9. CASE ExtDoc(r)
  BY <1>9, ExtDocEffect, CreateGrow
<1>10. CASE ExtPages(r) /\ ~Raise(r)
  BY <1>10, FillGrow
<1>11. ~(UpFile(r) \/ UpCommit(r) \/ UpNotify(r))
  BY DEF FreshInv, UpPcs, UpFile, UpCommit, UpNotify, At
<1>12. QED
  BY <1>1, <1>2, <1>3, <1>4, <1>5, <1>6, <1>7, <1>8, <1>9, <1>10, <1>11 DEF Step

LEMMA PersistsNext ==
    ASSUME UploadOps \cap Ops = {}, TypeInv, TypeInv', HistoryInv, FreshInv,
           \A v \in VerIds : Rowed(v), [Next]_vars
    PROVE  Persists
<1>1. Frozen
  BY FreshNext
<1>2. StoreEvolves /\ RowsGrow
  <2>1. ASSUME NEW r \in Reqs, Begin(r) PROVE StoreEvolves /\ RowsGrow
    <3>1. ~BeginUpload(r)
      BY DEF BeginUpload, MayBegin
    <3>2. CASE Create(r)
      BY <3>2, CreateGrow DEF Create
    <3>3. CASE ~Create(r)
      BY <2>1, <3>1, <3>3, BeginPc, SameGrow DEF store
    <3>4. QED
      BY <3>2, <3>3
  <2>2. ASSUME NEW r \in Reqs, Step(r) PROVE StoreEvolves /\ RowsGrow
    BY <2>2, GrowStep
  <2>3. ASSUME NEW r \in Reqs, Crash(r) PROVE StoreEvolves /\ RowsGrow
    BY <2>3, SameGrow DEF Crash
  <2>4. ASSUME NEW v \in VerIds, OcrDone(v) PROVE StoreEvolves /\ RowsGrow
    <3> DEFINE rows == ver[v].pages
               texts == file[v].pages
               f == [i \in DOMAIN rows |->
                       IF rows[i].text = NULL /\ rows[i].number \in DOMAIN texts
                       THEN [rows[i] EXCEPT !.text = texts[rows[i].number]] ELSE rows[i]]
    <3>1. ver' = [ver EXCEPT ![v].pages = f] /\ DOMAIN f = DOMAIN ver[v].pages
      BY <2>4 DEF OcrDone
    <3> HIDE DEF f
    <3>2. \A w \in VerIds : RowKept(w)
      BY <3>1, PagesKeepRows
    <3>3. SameVersions
      BY <2>4, OcrOnly DEF OnlyPages, SameVersions
    <3>4. QED
      BY <3>2, <3>3, SameEvolves DEF RowsGrow
  <2>5. CASE UNCHANGED vars
    BY <2>5, SameGrow DEF vars, store
  <2>6. QED
    BY <2>1, <2>2, <2>3, <2>4, <2>5 DEF Next
<1>3. QED
  BY <1>1, <1>2, GrowPersists

-----------------------------------------------------------------------------
(* What the handlers of page operations know *)

OutPages(q) == UNION {Range(file[v].pages) : v \in q.out}

\* The page of row j of the source is in a file the handler has written.
Copied(q, j) ==
    /\ file[q.old].kind = "pdf" /\ j \in DOMAIN file[q.old].pages
    /\ file[q.old].pages[j] \in OutPages(q)

\* The chosen rows are different rows of the source, which is as it was read.
Choice(q) ==
    /\ q.old \in VerIds /\ q.items # <<>> /\ q.doc # NoDoc
    /\ Listed(q.rows) /\ IsInjective(q.items)
    /\ q.doc \in live => ver[q.old].doc = q.doc /\ Len(ver[q.old].pages) = Len(q.rows)

\* The version of the target page, and how many rows it had.
Destination(q) ==
    /\ q.into # NoDoc
    /\ q.into \in live =>
          /\ ver[q.dst].doc = q.into /\ Len(ver[q.dst].pages) # 0
          /\ q.pc \in {"dstInsert", "dstPdf"} => q.dlen = Len(ver[q.dst].pages)

\* Version v, which request q made for document d, has at least n rows.
HasRows(v, d, n) ==
    ver[v].doc \in {d, NoDoc} /\ (ver[v].doc # NoDoc => n <= Len(ver[v].pages))

\* The rows of an extraction that are not copied yet.
Remaining(q) ==
    CASE q.pc \in {"extDoc", "extPages"} -> Range(q.todo)
      [] q.pc = "extText" /\ q.op = "extract_one" -> Range(Tail(q.todo))
      [] OTHER -> {}

\* Nothing is left behind: an extraction has copied the rows that do not remain, a
\* handler that is about to delete the source has copied all its pages.
Progress(q) ==
    /\ \A v \in q.out : v \in VerIds /\ file[v].kind # "none"
    /\ q.pc \in {"extDoc", "extPages", "extText", "extNotify"} /\ q.doc \in live =>
          \A j \in Range(q.items) : j \in Remaining(q) \/ Copied(q, j)
    /\ q.pc = "purge" /\ q.doc \in live =>
          file[q.old].kind = "pdf" /\ Range(file[q.old].pages) \subseteq OutPages(q)

Copying == {"srcInsert", "srcPdf", "srcText", "srcNotify", "dstRead", "dstInsert", "dstPdf", "extRead"}

Knows(q) ==
    /\ q.pc \in SrcPcs \cup DstPcs \cup ExtPcs \cup {"purge"} => Choice(q) /\ Progress(q)
    /\ q.pc \in SrcPcs \cup DstPcs /\ q.op \in MoveOps => Destination(q)
    /\ q.pc = "srcPdf" =>
          HasRows(q.new, q.doc, IF q.op = "apply" THEN Len(q.items) ELSE Len(q.rows) - Len(q.items))
    /\ q.pc = "dstPdf" =>
          HasRows(q.dnew, q.into, IF q.op = "mix" THEN q.dlen + Len(q.items) ELSE Len(q.items))
    /\ q.pc \in Copying => q.todo = q.items \/ (q.todo = <<>> /\ q.doc \notin live)

RowsInv ==
    /\ \A v \in VerIds : Rowed(v)
    /\ \A r \in Reqs : Knows(req[r])

LEMMA ChoiceKept ==
    ASSUME TypeInv, TypeInv', Persists, NEW q \in Request, q.doc \notin unborn,
           q.items \in Seq(DOMAIN q.rows), Choice(q)
    PROVE  Choice(q)'
<1>1. q.items # <<>> /\ q.doc # NoDoc /\ q.rows \in Seq(PageRow)
  BY DEF Choice, Request
<1>2. Len(q.rows) # 0
  <2>1. DOMAIN q.rows = 1..Len(q.rows) /\ DOMAIN q.items = 1..Len(q.items) /\ Len(q.items) \in Nat \ {0}
    BY <1>1, LenProperties, EmptySeq
  <2>2. q.items[1] \in DOMAIN q.rows
    BY <2>1, ElementOfSeq
  <2>3. QED
    BY <2>1, <2>2
<1>3. q.doc \in live' => q.doc \in live
  BY DEF Persists
<1>4. ASSUME q.doc \in live'
      PROVE  ver'[q.old].doc = q.doc /\ Len(ver'[q.old].pages) = Len(q.rows)
  BY <1>1, <1>2, <1>3, <1>4 DEF Persists, Choice
<1>5. QED
  BY <1>4 DEF Choice

LEMMA DestinationKept ==
    ASSUME TypeInv, TypeInv', Persists, NEW q \in Request, q.into \notin unborn,
           q.dst \in VerIds, Destination(q)
    PROVE  Destination(q)'
<1>1. q.into \in live' => q.into \in live
  BY DEF Persists
<1>2. QED
  BY <1>1 DEF Persists, Destination

LEMMA HasRowsKept ==
    ASSUME TypeInv, TypeInv', Persists, NEW v \in VerIds, v < nextVer, NEW d, NEW n \in Int,
           HasRows(v, d, n)
    PROVE  HasRows(v, d, n)'
<1>1. Len(ver[v].pages) \in Nat /\ Len(ver'[v].pages) \in Nat
  BY LenProperties DEF TypeInv, StoreType, Version
<1>2. QED
  BY <1>1 DEF Persists, HasRows

LEMMA ProgressKept ==
    ASSUME TypeInv, TypeInv', Persists, NEW q \in Request, q.doc \notin unborn,
           q.old \in VerIds, Progress(q)
    PROVE  Progress(q)'
<1>1. \A v \in q.out : v \in VerIds /\ file[v].kind # "none" /\ file'[v] = file[v]
  BY DEF Persists, Progress, Frozen
<1>2. OutPages(q)' = OutPages(q)
  BY <1>1 DEF OutPages
<1>3. file[q.old].kind = "pdf" => file'[q.old] = file[q.old]
  BY DEF Persists, Frozen
<1>4. q.doc \in live' => q.doc \in live
  BY DEF Persists
<1>5. \A j : Copied(q, j) => Copied(q, j)'
  BY <1>2, <1>3 DEF Copied
<1>6. Remaining(q)' = Remaining(q)
  BY DEF Remaining
<1>7. QED
  BY <1>1, <1>2, <1>3, <1>4, <1>5, <1>6 DEF Progress

LEMMA KnowsKept ==
    ASSUME TypeInv, TypeInv', HistoryInv, FreshInv, Persists, NEW r \in Reqs, NEW q, q = req[r], Knows(q)
    PROVE  Knows(q)'
<1>1. /\ q \in Request /\ LocalsAt(q.pc, q) /\ q.doc \notin unborn /\ q.into \notin unborn
      /\ \A v \in Target(q) : v \in VerIds /\ v < nextVer
  BY LocalsOf, TargetType DEF HistoryInv, History, FreshInv
<1>2. q.items \in Seq(DOMAIN q.rows) /\ Len(q.items) \in Nat /\ Len(q.rows) \in Nat /\ q.dlen \in Nat
  BY <1>1, LenProperties DEF LocalsAt, Request
<1>3. q.pc \in SrcPcs \cup DstPcs \cup ExtPcs \cup {"purge"} => Choice(q)' /\ Progress(q)'
  <2> SUFFICES ASSUME q.pc \in SrcPcs \cup DstPcs \cup ExtPcs \cup {"purge"}
               PROVE  Choice(q)' /\ Progress(q)'
    OBVIOUS
  <2>1. Choice(q) /\ Progress(q)
    BY DEF Knows
  <2>2. q.old \in VerIds
    BY <2>1 DEF Choice
  <2>3. QED
    BY <1>1, <1>2, <2>1, <2>2, ChoiceKept, ProgressKept
<1>4. q.pc \in SrcPcs \cup DstPcs /\ q.op \in MoveOps => Destination(q)'
  <2> SUFFICES ASSUME q.pc \in SrcPcs \cup DstPcs, q.op \in MoveOps
               PROVE  Destination(q)'
    OBVIOUS
  <2>1. Destination(q) /\ q.dst \in VerIds
    BY <1>1 DEF Knows, LocalsAt
  <2>2. QED
    BY <1>1, <2>1, DestinationKept
<1>5. q.pc = "srcPdf" =>
        HasRows(q.new, q.doc, IF q.op = "apply" THEN Len(q.items) ELSE Len(q.rows) - Len(q.items))'
  <2> DEFINE n == IF q.op = "apply" THEN Len(q.items) ELSE Len(q.rows) - Len(q.items)
  <2> SUFFICES ASSUME q.pc = "srcPdf" PROVE HasRows(q.new, q.doc, n)'
    OBVIOUS
  <2>0. n \in Int
    BY <1>2
  <2> HIDE DEF n
  <2>1. HasRows(q.new, q.doc, n) /\ q.new \in VerIds /\ q.new < nextVer
    BY <1>1 DEF Knows, Target, n
  <2>2. QED
    BY <2>0, <2>1, HasRowsKept
<1>6. q.pc = "dstPdf" =>
        HasRows(q.dnew, q.into, IF q.op = "mix" THEN q.dlen + Len(q.items) ELSE Len(q.items))'
  <2> DEFINE n == IF q.op = "mix" THEN q.dlen + Len(q.items) ELSE Len(q.items)
  <2> SUFFICES ASSUME q.pc = "dstPdf" PROVE HasRows(q.dnew, q.into, n)'
    OBVIOUS
  <2>0. n \in Int
    BY <1>2
  <2> HIDE DEF n
  <2>1. HasRows(q.dnew, q.into, n) /\ q.dnew \in VerIds /\ q.dnew < nextVer
    BY <1>1 DEF Knows, Target, n
  <2>2. QED
    BY <2>0, <2>1, HasRowsKept
<1>7. q.pc \in Copying => q.todo = q.items \/ (q.todo = <<>> /\ q.doc \notin live')
  BY <1>1 DEF Knows, Persists
<1>8. QED
  BY <1>3, <1>4, <1>5, <1>6, <1>7 DEF Knows

-----------------------------------------------------------------------------
(* The steps of a handler, as far as the pages go *)

\* A version keeps its rows, but for their texts, or goes with its document.
RowsStay(v) ==
    \/ ver'[v] = NoVersion
    \/ /\ ver'[v].doc = ver[v].doc /\ DOMAIN ver'[v].pages = DOMAIN ver[v].pages
       /\ \A i \in DOMAIN ver[v].pages : ver'[v].pages[i].number = ver[v].pages[i].number

LEMMA RowedKept ==
    ASSUME TypeInv, TypeInv', NEW v \in VerIds, Rowed(v), RowsStay(v), file'[v] = file[v]
    PROVE  Rowed(v)'
<1>1. CASE ver'[v] = NoVersion
  BY <1>1, EmptySeqType, EmptySeq DEF Rowed, Listed, NoVersion
<1>2. CASE ver'[v] # NoVersion
  <2>1. ver[v].pages \in Seq(PageRow) /\ ver'[v].pages \in Seq(PageRow)
    BY DEF TypeInv, StoreType, Version
  <2>2. DOMAIN ver'[v].pages = DOMAIN ver[v].pages /\ ver'[v].doc = ver[v].doc
    BY <1>2 DEF RowsStay
  <2>3. Len(ver'[v].pages) = Len(ver[v].pages)
    BY <2>1, <2>2, SameLength
  <2>4. QED
    BY <1>2, <2>2, <2>3 DEF Rowed, Listed, RowsStay
<1>3. QED
  BY <1>1, <1>2

LEMMA StoreStays == UNCHANGED ver => \A v \in VerIds : RowsStay(v)
BY DEF RowsStay

LEMMA DropStays ==
    ASSUME NEW d, DropDocument(d)
    PROVE  \A v \in VerIds : RowsStay(v)
BY DEF DropDocument, RowsStay

LEMMA TextStays ==
    ASSUME TypeInv, NEW v, NEW rows, NEW S, CopyText(rows, S, v)
    PROVE  \A w \in VerIds : RowsStay(w)
<1>1. PICK texts : WriteText(v, texts)
  BY DEF CopyText
<1>2. PICK rank \in Ranking(ver[v].pages) :
        ver' = [ver EXCEPT ![v].pages =
                [i \in DOMAIN ver[v].pages |->
                    IF ver[v].pages[i].text = NULL /\ rank[i] \in DOMAIN texts
                    THEN [ver[v].pages[i] EXCEPT !.text = texts[rank[i]]]
                    ELSE ver[v].pages[i]]]
  BY <1>1 DEF WriteText
<1>3. ASSUME NEW w \in VerIds PROVE RowsStay(w)
  <2>1. CASE w # v
    BY <1>2, <2>1 DEF RowsStay, TypeInv, StoreType
  <2>2. CASE w = v
    <3>1. ver[v].pages \in Seq(PageRow)
      BY <2>2 DEF TypeInv, StoreType, Version
    <3>2. \A i \in DOMAIN ver[v].pages : ver[v].pages[i] \in PageRow
      BY <3>1, ElementOfSeq, LenProperties
    <3>3. /\ ver'[v].doc = ver[v].doc
          /\ ver'[v].pages = [i \in DOMAIN ver[v].pages |->
                    IF ver[v].pages[i].text = NULL /\ rank[i] \in DOMAIN texts
                    THEN [ver[v].pages[i] EXCEPT !.text = texts[rank[i]]]
                    ELSE ver[v].pages[i]]
      BY <1>2, <2>2 DEF TypeInv, StoreType, Version
    <3>4. QED
      BY <2>2, <3>2, <3>3 DEF RowsStay, PageRow
  <2>3. QED
    BY <2>1, <2>2
<1>4. QED
  BY <1>3

LEMMA OcrStays ==
    ASSUME TypeInv, NEW v \in VerIds, OcrDone(v)
    PROVE  \A w \in VerIds : RowsStay(w)
<1>1. ver[v].pages \in Seq(PageRow)
  BY DEF TypeInv, StoreType, Version
<1>2. \A i \in DOMAIN ver[v].pages : ver[v].pages[i] \in PageRow
  BY <1>1, ElementOfSeq, LenProperties
<1>3. ver' = [ver EXCEPT ![v].pages = [i \in DOMAIN ver[v].pages |->
                     IF ver[v].pages[i].text = NULL /\ ver[v].pages[i].number \in DOMAIN file[v].pages
                     THEN [ver[v].pages[i] EXCEPT !.text = file[v].pages[ver[v].pages[i].number]]
                     ELSE ver[v].pages[i]]]
  BY DEF OcrDone
<1>4. ASSUME NEW w \in VerIds PROVE RowsStay(w)
  <2>1. CASE w # v
    BY <1>3, <2>1 DEF RowsStay, TypeInv, StoreType
  <2>2. CASE w = v
    BY <1>2, <1>3, <2>2 DEF RowsStay, PageRow, TypeInv, StoreType, Version
  <2>3. QED
    BY <2>1, <2>2
<1>5. QED
  BY <1>4

\* The step of one handler keeps the invariant, if what it knows is true.
LEMMA RowsStep ==
    ASSUME TypeInv, TypeInv', HistoryInv, FreshInv, RowsInv, Persists, NEW r \in Reqs, Others(r),
           \A v \in VerIds : Rowed(v)', Knows(req[r])'
    PROVE  RowsInv'
<1>1. ASSUME NEW p \in Reqs \ {r} PROVE Knows(req[p])'
  <2>1. PICK q : q = req[p]
    OBVIOUS
  <2>2. Knows(q)'
    BY <2>1, KnowsKept DEF RowsInv
  <2>3. req'[p] = q
    BY <2>1 DEF Others
  <2>4. QED
    BY <2>2, <2>3
<1>2. QED
  BY <1>1 DEF RowsInv

\* A step to a point where nothing needs to be known.
LEMMA RowsQuiet ==
    ASSUME TypeInv, TypeInv', HistoryInv, FreshInv, RowsInv, Persists, NEW r \in Reqs, Others(r),
           \A v \in VerIds : Rowed(v)', req'[r].pc \in Stopped \cup DelPcs
    PROVE  RowsInv'
<1>1. Knows(req[r])'
  BY DEF Knows, Stopped, DelPcs, SrcPcs, DstPcs, ExtPcs, Copying
<1>2. QED
  BY <1>1, RowsStep

LEMMA RowsRaise ==
    ASSUME TypeInv, TypeInv', HistoryInv, FreshInv, RowsInv, Persists, NEW r \in Reqs, Raise(r)
    PROVE  RowsInv'
<1>1. UNCHANGED <<ver, file>> /\ Goto(r, "error")
  BY DEF Raise, store
<1>2. Others(r) /\ req'[r].pc = "error"
  BY <1>1, PcChanged
<1>3. \A v \in VerIds : Rowed(v)'
  BY <1>1, StoreStays, RowedKept DEF RowsInv
<1>4. QED
  BY <1>2, <1>3, RowsQuiet DEF Stopped

\* The records of a handler before and after a step are about the same choice.
SameChoice(p, q) ==
    /\ p.op = q.op /\ p.doc = q.doc /\ p.into = q.into /\ p.old = q.old /\ p.dst = q.dst
    /\ p.rows = q.rows /\ p.items = q.items

LEMMA GotoEffect ==
    ASSUME TypeInv, NEW r \in Reqs, NEW pc, Goto(r, pc)
    PROVE  /\ Others(r) /\ req'[r] = [req[r] EXCEPT !.pc = pc] /\ req'[r].pc = pc
           /\ SameChoice(req'[r], req[r]) /\ req'[r].todo = req[r].todo
           /\ req'[r].out = req[r].out /\ req'[r].dlen = req[r].dlen /\ req'[r].cur = req[r].cur
<1>1. req' = [req EXCEPT ![r] = [req[r] EXCEPT !.pc = pc]]
  BY DEF Goto
<1>2. Others(r) /\ req'[r] = [req[r] EXCEPT !.pc = pc]
  BY <1>1, OneChanged
<1>3. req[r] \in Request
  BY LocalsOf
<1>4. QED
  BY <1>2, <1>3 DEF SameChoice, Request

LEMMA ChoiceSame ==
    ASSUME NEW p, NEW q, SameChoice(p, q), Choice(q)'
    PROVE  Choice(p)'
BY DEF SameChoice, Choice

\* At a point where the handler knows it, the choice is still good after the step.
LEMMA StillChosen ==
    ASSUME TypeInv, TypeInv', HistoryInv, FreshInv, RowsInv, Persists, NEW r \in Reqs,
           req[r].pc \in SrcPcs \cup DstPcs \cup ExtPcs \cup {"purge"}, NEW q, q = req[r]
    PROVE  Knows(q)' /\ Choice(q)' /\ Progress(q)'
           /\ (q.pc \in SrcPcs \cup DstPcs /\ q.op \in MoveOps => Destination(q)')
<1>1. Knows(q)'
  BY KnowsKept DEF RowsInv
<1>2. QED
  BY <1>1 DEF Knows

LEMMA DestinationSame ==
    ASSUME NEW p, NEW q, SameChoice(p, q), Destination(q)',
           p.pc \notin {"dstInsert", "dstPdf"}
    PROVE  Destination(p)'
BY DEF SameChoice, Destination

\* As long as nothing was extracted.
LEMMA NothingYet ==
    ASSUME NEW p, NEW q, p.out = q.out, Progress(q)',
           p.pc \notin {"extDoc", "extPages", "extText", "extNotify", "purge"}
    PROVE  Progress(p)'
BY DEF Progress

\* A version that is inserted has a list of rows, and no file yet.
LEMMA RowsInserted ==
    ASSUME TypeInv, TypeInv', HistoryInv, FreshInv, RowsInv, UNCHANGED file,
           nextVer \in VerIds, NEW row, ver' = [ver EXCEPT ![nextVer] = row],
           row.doc # NoDoc, Listed(row.pages)
    PROVE  \A v \in VerIds : Rowed(v)'
<1>0. PICK n \in VerIds : n = nextVer
  OBVIOUS
<1>1. ver'[n] = row /\ \A v \in VerIds \ {n} : ver'[v] = ver[v]
  BY <1>0 DEF TypeInv, StoreType
<1>2. file'[n].kind = "none"
  BY <1>0 DEF FreshInv, TypeInv, StoreType
<1>3. Rowed(n)'
  BY <1>1, <1>2 DEF Rowed
<1>4. \A v \in VerIds \ {n} : Rowed(v)'
  BY <1>1, RowedKept DEF RowsInv, RowsStay
<1>5. QED
  BY <1>3, <1>4

LEMMA RowsCreate ==
    ASSUME TypeInv, TypeInv', HistoryInv, FreshInv, RowsInv, UNCHANGED file,
           NEW d, CreateDocument(d)
    PROVE  \A v \in VerIds : Rowed(v)'
<1>1. PICK row : row = [NoVersion EXCEPT !.doc = d, !.number = 1]
  OBVIOUS
<1>2. row.doc = d /\ row.pages = <<>> /\ d # NoDoc
  BY <1>1, DocsAssumption DEF NoVersion, CreateDocument, TypeInv, StoreType
<1>3. Listed(row.pages)
  BY <1>2, EmptySeq, EmptySeqType DEF Listed
<1>4. nextVer \in VerIds /\ ver' = [ver EXCEPT ![nextVer] = row]
  BY <1>1 DEF CreateDocument
<1>5. QED
  BY <1>2, <1>3, <1>4, RowsInserted

LEMMA ChosenKnows ==
    ASSUME TypeInv, HistoryInv, RowsInv, UNCHANGED <<store, file>>,
           NEW v \in Choosable, NEW S \in Chosenable(v), NEW items \in [1..Cardinality(S) -> S],
           IsInjective(items),
           NEW q, q.pc = "srcRead", q.old = v, q.doc = ver[v].doc, q.rows = ver[v].pages,
           q.items = items, q.out = {},
           q.op \in MoveOps => \E w \in Choosable : q.dst = w /\ q.into = ver[w].doc
    PROVE  Knows(q)'
<1>1. v \in VerIds /\ ver[v].doc # NoDoc /\ ver' = ver /\ live' = live
  BY ChosenVersion DEF store
<1>2. S \in SUBSET DOMAIN ver[v].pages /\ S # {} /\ ver[v].pages \in Seq(PageRow)
  BY <1>1 DEF Chosenable, TypeInv, StoreType, Version
<1>3. q.items # <<>>
  BY <1>2, ItemsType
<1>4. Choice(q)'
  BY <1>1, <1>3 DEF Choice, RowsInv, Rowed
<1>5. Progress(q)'
  BY DEF Progress
<1>6. q.op \in MoveOps => Destination(q)'
  <2> SUFFICES ASSUME q.op \in MoveOps PROVE Destination(q)'
    OBVIOUS
  <2>1. PICK w \in Choosable : q.dst = w /\ q.into = ver[w].doc
    OBVIOUS
  <2>2. w \in VerIds /\ ver[w].doc # NoDoc /\ Len(ver[w].pages) # 0
    BY ChosenVersion DEF Choosable
  <2>3. QED
    BY <1>1, <2>1, <2>2 DEF Destination
<1>7. QED
  BY <1>4, <1>5, <1>6 DEF Knows, Copying

LEMMA RowsBegin ==
    ASSUME UploadOps \cap Ops = {}, TypeInv, TypeInv', HistoryInv, FreshInv, RowsInv, Persists,
           NEW r \in Reqs, Begin(r)
    PROVE  RowsInv'
<1>1. Others(r)
  BY OthersBegin
<1>2. CASE BeginApply(r)
  <2>0. PICK v \in Choosable : \E S \in Chosenable(v) :
          \E items \in IF Reorder THEN Bijection(1..Cardinality(S), S) ELSE InOrder(S) :
              req' = [req EXCEPT ![r] = Selected("apply", v, items)]
    BY <1>2 DEF BeginApply
  <2>1. PICK S \in Chosenable(v) :
          \E items \in IF Reorder THEN Bijection(1..Cardinality(S), S) ELSE InOrder(S) :
              req' = [req EXCEPT ![r] = Selected("apply", v, items)]
    BY <2>0
  <2>2. PICK items \in IF Reorder THEN Bijection(1..Cardinality(S), S) ELSE InOrder(S) :
          req' = [req EXCEPT ![r] = Selected("apply", v, items)]
    BY <2>1
  <2>3. items \in [1..Cardinality(S) -> S]
    BY DEF InOrder, Bijection, Injection
  <2>4. IsInjective(items)
    <3>1. CASE Reorder
      BY <3>1 DEF Bijection, Injection
    <3>2. CASE ~Reorder
      <4>1. S \in SUBSET (1..Len(ver[v].pages)) /\ Len(ver[v].pages) \in Nat
        BY ChosenVersion, LenProperties DEF Chosenable, TypeInv, StoreType, Version
      <4>2. QED
        BY <3>2, <4>1, InOrderDistinct
    <3>3. QED
      BY <3>1, <3>2
  <2>5. req'[r] = Selected("apply", v, items)
    BY <2>2, OneChanged
  <2>6. UNCHANGED <<store, file>>
    BY <1>2 DEF BeginApply
  <2>7. Knows(req[r])'
    <3>1. PICK q : q = Selected("apply", v, items)
      OBVIOUS
    <3>2. /\ q.pc = "srcRead" /\ q.old = v /\ q.doc = ver[v].doc /\ q.rows = ver[v].pages
          /\ q.items = items /\ q.out = {} /\ q.op \notin MoveOps
      BY <3>1 DEF Selected, NoRequest, MoveOps
    <3>3. Knows(q)'
      BY <2>3, <2>4, <2>6, <3>2, ChosenKnows
    <3>4. QED
      BY <2>5, <3>1, <3>3
  <2>8. \A w \in VerIds : Rowed(w)'
    BY <2>6, StoreStays, RowedKept DEF RowsInv, store
  <2>9. QED
    BY <1>1, <2>7, <2>8, RowsStep
<1>3. CASE BeginExtract(r)
  <2>0. PICK op \in ExtractOps, v \in Choosable :
          \E S \in Chosenable(v) : \E items \in ByNumber(ver[v].pages, S) :
              req' = [req EXCEPT ![r] = Selected(op, v, items)]
    BY <1>3 DEF BeginExtract
  <2>1. PICK S \in Chosenable(v) : \E items \in ByNumber(ver[v].pages, S) :
              req' = [req EXCEPT ![r] = Selected(op, v, items)]
    BY <2>0
  <2>2. PICK items \in ByNumber(ver[v].pages, S) :
          req' = [req EXCEPT ![r] = Selected(op, v, items)]
    BY <2>1
  <2>3. items \in [1..Cardinality(S) -> S]
    BY DEF ByNumber
  <2>4. IsInjective(items)
    BY ChosenVersion, ByNumberDistinct DEF Chosenable, TypeInv, StoreType, Version
  <2>5. req'[r] = Selected(op, v, items)
    BY <2>2, OneChanged
  <2>6. UNCHANGED <<store, file>>
    BY <1>3 DEF BeginExtract
  <2>7. Knows(req[r])'
    <3>1. PICK q : q = Selected(op, v, items)
      OBVIOUS
    <3>2. /\ q.pc = "srcRead" /\ q.old = v /\ q.doc = ver[v].doc /\ q.rows = ver[v].pages
          /\ q.items = items /\ q.out = {} /\ q.op \notin MoveOps
      BY <3>1 DEF Selected, NoRequest, MoveOps, ExtractOps
    <3>3. Knows(q)'
      BY <2>3, <2>4, <2>6, <3>2, ChosenKnows
    <3>4. QED
      BY <2>5, <3>1, <3>3
  <2>8. \A w \in VerIds : Rowed(w)'
    BY <2>6, StoreStays, RowedKept DEF RowsInv, store
  <2>9. QED
    BY <1>1, <2>7, <2>8, RowsStep
<1>4. CASE BeginMove(r)
  <2>a. PICK op \in MoveOps :
          \E v, w \in Choosable :
          \E S \in Chosenable(v), i \in DOMAIN ver[w].pages :
          \E items \in ByNumber(ver[v].pages, S) :
              /\ SameDocMove \/ ver[v].doc # ver[w].doc
              /\ req' = [req EXCEPT ![r] = Targeted(Selected(op, v, items), w, i)]
    BY <1>4 DEF BeginMove
  <2>b. PICK v \in Choosable, w \in Choosable :
          \E S \in Chosenable(v), i \in DOMAIN ver[w].pages :
          \E items \in ByNumber(ver[v].pages, S) :
              /\ SameDocMove \/ ver[v].doc # ver[w].doc
              /\ req' = [req EXCEPT ![r] = Targeted(Selected(op, v, items), w, i)]
    BY <2>a
  <2>1. PICK S \in Chosenable(v), i \in DOMAIN ver[w].pages :
          \E items \in ByNumber(ver[v].pages, S) :
              /\ SameDocMove \/ ver[v].doc # ver[w].doc
              /\ req' = [req EXCEPT ![r] = Targeted(Selected(op, v, items), w, i)]
    BY <2>b
  <2>2. PICK items \in ByNumber(ver[v].pages, S) :
          req' = [req EXCEPT ![r] = Targeted(Selected(op, v, items), w, i)]
    BY <2>1
  <2>3. items \in [1..Cardinality(S) -> S]
    BY DEF ByNumber
  <2>4. IsInjective(items)
    BY ChosenVersion, ByNumberDistinct DEF Chosenable, TypeInv, StoreType, Version
  <2>5. req'[r] = Targeted(Selected(op, v, items), w, i)
    BY <2>2, OneChanged
  <2>6. UNCHANGED <<store, file>>
    BY <1>4 DEF BeginMove
  <2>7. Knows(req[r])'
    <3>1. PICK q : q = Targeted(Selected(op, v, items), w, i)
      OBVIOUS
    <3>2. /\ q.pc = "srcRead" /\ q.old = v /\ q.doc = ver[v].doc /\ q.rows = ver[v].pages
          /\ q.items = items /\ q.out = {} /\ q.dst = w /\ q.into = ver[w].doc
      BY <3>1 DEF Targeted, Selected, NoRequest
    <3>3. Knows(q)'
      BY <2>3, <2>4, <2>6, <3>2, ChosenKnows
    <3>4. QED
      BY <2>5, <3>1, <3>3
  <2>8. \A u \in VerIds : Rowed(u)'
    BY <2>6, StoreStays, RowedKept DEF RowsInv, store
  <2>9. QED
    BY <1>1, <2>7, <2>8, RowsStep
<1>5. CASE Create(r)
  <2>1. req'[r].pc = "done" /\ UNCHANGED file
    <3>1. PICK q : q = [NoRequest EXCEPT !.op = "create", !.pc = "done"]
      OBVIOUS
    <3>2. q.pc = "done" /\ req' = [req EXCEPT ![r] = q] /\ UNCHANGED file
      BY <1>5, <3>1 DEF Create, NoRequest
    <3>3. QED
      BY <3>2, OneChanged
  <2>2. PICK d : CreateDocument(d)
    BY <1>5 DEF Create
  <2>3. \A v \in VerIds : Rowed(v)'
    BY <2>1, <2>2, RowsCreate
  <2>4. QED
    BY <1>1, <2>1, <2>3, RowsQuiet DEF Stopped
<1>6. CASE BeginDelete(r)
  <2>1. req'[r].pc = "delCommit" /\ UNCHANGED <<file, store>>
    <3>1. PICK d : req' = [req EXCEPT ![r] = [NoRequest EXCEPT
                    !.op = "delete", !.pc = "delCommit", !.doc = d,
                    !.gone = {v \in VersionsOf(d) : ver[v].pages # <<>>}]]
      BY <1>6 DEF BeginDelete
    <3>2. PICK q : q = [NoRequest EXCEPT
                    !.op = "delete", !.pc = "delCommit", !.doc = d,
                    !.gone = {v \in VersionsOf(d) : ver[v].pages # <<>>}]
      OBVIOUS
    <3>3. q.pc = "delCommit" /\ req' = [req EXCEPT ![r] = q]
      BY <3>1, <3>2 DEF NoRequest
    <3>4. QED
      BY ZenonT(40), <1>6, <3>3, OneChanged DEF BeginDelete
  <2>2. \A w \in VerIds : Rowed(w)'
    BY <2>1, StoreStays, RowedKept DEF RowsInv, store
  <2>3. QED
    BY <1>1, <2>1, <2>2, RowsQuiet DEF DelPcs
<1>7. ~BeginUpload(r)
  BY DEF BeginUpload, MayBegin
<1>8. QED
  BY <1>2, <1>3, <1>4, <1>5, <1>6, <1>7 DEF Begin

-----------------------------------------------------------------------------
(* Rows and pages: the source and the target side *)

LEMMA BumpReadRows ==
    ASSUME TypeInv, NEW r \in Reqs, NEW d, NEW next, BumpRead(r, d, next), ~Raise(r)
    PROVE  /\ Others(r) /\ UNCHANGED <<store, file>> /\ SameChoice(req'[r], req[r])
           /\ req'[r].pc = next /\ req'[r].out = req[r].out
           /\ req'[r].dlen = IF req[r].dst = 0 THEN 0 ELSE Len(ver[req[r].dst].pages)
           /\ req'[r].todo = IF ver[req[r].old].doc = NoDoc THEN <<>> ELSE req[r].items
<1>1. PICK v \in LastVersions(d) :
        req' = [req EXCEPT ![r].pc = next,
                           ![r].lnum = ver[v].number, ![r].lcount = ver[v].count,
                           ![r].dlen = IF req[r].dst = 0 THEN 0
                                       ELSE Len(ver[req[r].dst].pages),
                           ![r].todo = IF ver[req[r].old].doc = NoDoc THEN <<>>
                                       ELSE req[r].items]
  BY Zenon DEF BumpRead
<1>2. PICK q : q = [req[r] EXCEPT !.pc = next, !.lnum = ver[v].number, !.lcount = ver[v].count,
                        !.dlen = IF req[r].dst = 0 THEN 0 ELSE Len(ver[req[r].dst].pages),
                        !.todo = IF ver[req[r].old].doc = NoDoc THEN <<>> ELSE req[r].items]
  OBVIOUS
<1>3. req[r] \in Request
  BY LocalsOf
<1>4. req' = [req EXCEPT ![r] = q]
  BY <1>1, <1>2 DEF TypeInv
<1>5. Others(r) /\ req'[r] = q
  BY <1>4, OneChanged
<1>6. /\ SameChoice(q, req[r]) /\ q.pc = next /\ q.out = req[r].out
      /\ q.dlen = IF req[r].dst = 0 THEN 0 ELSE Len(ver[req[r].dst].pages)
      /\ q.todo = IF ver[req[r].old].doc = NoDoc THEN <<>> ELSE req[r].items
  BY Zenon, <1>2, <1>3 DEF Request, SameChoice
<1>7. UNCHANGED <<store, file>>
  BY DEF BumpRead
<1>8. QED
  BY Zenon, <1>5, <1>6, <1>7

\* The chosen pages are there as long as their document is.
LEMMA ChosenThere ==
    ASSUME NEW q, Choice(q), q.doc \in live
    PROVE  ver[q.old].doc # NoDoc
BY DEF Choice

LEMMA RowsRead ==
    ASSUME TypeInv, TypeInv', HistoryInv, FreshInv, RowsInv, Persists, NEW r \in Reqs,
           SrcRead(r) \/ DstRead(r)
    PROVE  RowsInv'
<1>1. CASE Raise(r)
  BY <1>1, RowsRaise
<1>2. CASE ~Raise(r)
  <2>1. PICK d, next : /\ BumpRead(r, d, next)
                       /\ \/ req[r].pc = "srcRead" /\ next = "srcInsert"
                          \/ req[r].pc = "dstRead" /\ next = "dstInsert"
    BY <1>2 DEF SrcRead, DstRead, At
  <2>2. PICK p, q : p = req'[r] /\ q = req[r]
    OBVIOUS
  <2>3. /\ Others(r) /\ UNCHANGED <<store, file>> /\ SameChoice(p, q)
        /\ p.pc = next /\ p.out = q.out
        /\ p.dlen = IF q.dst = 0 THEN 0 ELSE Len(ver[q.dst].pages)
        /\ p.todo = IF ver[q.old].doc = NoDoc THEN <<>> ELSE q.items
    BY <1>2, <2>1, <2>2, BumpReadRows
  <2>4. q.pc \in SrcPcs \cup DstPcs
    BY <2>1, <2>2 DEF SrcPcs, DstPcs
  <2>5. Choice(q)' /\ Progress(q)' /\ (q.op \in MoveOps => Destination(q)')
    BY <2>2, <2>4, StillChosen
  <2>6. Choice(p)' /\ Progress(p)'
    BY <2>1, <2>3, <2>5, ChoiceSame, NothingYet
  <2>7. p.op \in MoveOps => Destination(p)'
    <3> SUFFICES ASSUME p.op \in MoveOps PROVE Destination(p)'
      OBVIOUS
    <3>1. q.op \in MoveOps /\ Destination(q)'
      BY <2>3, <2>5 DEF SameChoice
    <3>2. CASE p.pc = "srcInsert"
      BY <2>3, <3>1, <3>2, DestinationSame
    <3>3. CASE p.pc = "dstInsert"
      <4>1. q.dst \in VerIds
        BY <2>2, <2>4, <3>1, LocalsOf DEF LocalsAt
      <4>2. q.dst # 0 /\ p.dlen = Len(ver'[q.dst].pages)
        BY <2>3, <4>1 DEF VerIds, store
      <4>3. QED
        BY <2>3, <3>1, <4>2 DEF SameChoice, Destination
    <3>4. QED
      BY <2>1, <2>3, <3>2, <3>3
  <2>8. p.todo = p.items \/ (p.todo = <<>> /\ p.doc \notin live')
    <3>1. q.items = p.items /\ q.doc = p.doc /\ live' = live /\ ver' = ver
      BY <2>3 DEF SameChoice, store
    <3>2. q.doc \in live => ver[q.old].doc # NoDoc
      BY <2>5, <3>1 DEF Choice
    <3>3. QED
      BY <2>3, <3>1, <3>2
  <2>9. Knows(p)'
    BY <2>1, <2>3, <2>6, <2>7, <2>8 DEF Knows
  <2>10. \A v \in VerIds : Rowed(v)'
    BY <2>3, StoreStays, RowedKept DEF RowsInv, store
  <2>11. QED
    BY <2>2, <2>3, <2>9, <2>10, RowsStep
<1>3. QED
  BY <1>1, <1>2

LEMMA BumpRowsListed ==
    ASSUME TypeInv, NEW r \in Reqs, NEW count \in Nat
    PROVE  Listed(BumpRows(r, count)) /\ count <= Len(BumpRows(r, count))
<1>1. req[r].lcount \in Nat
  BY LocalsOf DEF Request
<1>2. PICK n \in Nat : n = (IF count = 0 THEN req[r].lcount ELSE count) /\ count <= n
  BY <1>1
<1>3. BumpRows(r, count) = FreshRows(n)
  BY <1>2 DEF BumpRows
<1>4. QED
  BY <1>2, <1>3, FreshRowsListed

LEMMA RowsBump ==
    ASSUME TypeInv, TypeInv', HistoryInv, FreshInv, RowsInv, NEW r \in Reqs,
           NEW d \in live, NEW count \in Nat, BumpInsert(r, d, count), NEW n, n = nextVer
    PROVE  /\ \A v \in VerIds : Rowed(v)'
           /\ HasRows(n, d, count)'
<1>1. PICK row : row = BumpVersion(r, d, count)
  OBVIOUS
<1>2. row.doc = d /\ row.pages = BumpRows(r, count) /\ d # NoDoc
  BY <1>1, DocsAssumption DEF BumpVersion, TypeInv, StoreType
<1>3. n \in VerIds /\ ver' = [ver EXCEPT ![n] = row] /\ UNCHANGED file
  BY <1>1 DEF BumpInsert
<1>4. \A v \in VerIds : Rowed(v)'
  BY <1>2, <1>3, BumpRowsListed, RowsInserted
<1>5. ver'[n] = row
  BY <1>3 DEF TypeInv, StoreType
<1>6. HasRows(n, d, count)'
  BY <1>2, <1>5, BumpRowsListed DEF HasRows
<1>7. QED
  BY <1>4, <1>6

LEMMA RowsSrcInsert ==
    ASSUME TypeInv, TypeInv', HistoryInv, FreshInv, RowsInv, Persists, NEW r \in Reqs,
           SrcInsert(r)
    PROVE  RowsInv'
<1>1. CASE Raise(r)
  BY <1>1, RowsRaise
<1>2. CASE ~Raise(r)
  <2>1. PICK n, q : n = nextVer /\ q = req[r]
    OBVIOUS
  <2>2. /\ q.pc = "srcInsert" /\ q.doc \in live /\ BumpInsert(r, q.doc, SrcCount(r))
        /\ req' = [req EXCEPT ![r].pc = "srcPdf", ![r].new = n]
    BY <1>2, <2>1 DEF SrcInsert, At
  <2>3. q \in Request /\ LocalsAt(q.pc, q)
    BY <2>1, LocalsOf
  <2>4. PICK p : p = [q EXCEPT !.pc = "srcPdf", !.new = n]
    OBVIOUS
  <2>5. req' = [req EXCEPT ![r] = p]
    BY <2>1, <2>2, <2>4 DEF TypeInv
  <2>6. Others(r) /\ req'[r] = p
    BY <2>5, OneChanged
  <2>7. /\ p.pc = "srcPdf" /\ p.new = n /\ p.out = q.out /\ p.todo = q.todo
        /\ SameChoice(p, q)
    BY <2>3, <2>4 DEF Request, SameChoice
  <2>8. q.pc \in SrcPcs \cup DstPcs
    BY <2>2 DEF SrcPcs
  <2>9. Knows(q)' /\ Choice(q)' /\ Progress(q)' /\ (q.op \in MoveOps => Destination(q)')
    BY <2>1, <2>8, StillChosen
  <2>10. SrcCount(r) \in Nat /\ SrcCount(r) = IF q.op = "apply" THEN Len(q.items)
                                               ELSE Len(q.rows) - Len(q.items)
    <3>1. Len(q.items) \in Nat /\ Len(q.rows) \in Nat /\ Len(q.items) <= Len(q.rows)
      BY <2>3, LenProperties DEF LocalsAt, Request
    <3>2. QED
      BY <2>1, <3>1 DEF SrcCount
  <2>11. \A v \in VerIds : Rowed(v)'
    BY <2>1, <2>2, <2>10, RowsBump
  <2>12. PICK c : c = SrcCount(r)
    OBVIOUS
  <2>13. HasRows(n, q.doc, c)'
    BY <2>1, <2>2, <2>10, <2>12, RowsBump
  <2>14. HasRows(p.new, p.doc, IF p.op = "apply" THEN Len(p.items) ELSE Len(p.rows) - Len(p.items))'
    BY <2>7, <2>10, <2>12, <2>13 DEF SameChoice
  <2>15. p.todo = p.items \/ (p.todo = <<>> /\ p.doc \notin live')
    BY <2>2, <2>7, <2>9 DEF Knows, Copying, SameChoice
  <2>16. Choice(p)' /\ Progress(p)' /\ (p.op \in MoveOps => Destination(p)')
    <3>1. p.op = q.op
      BY <2>7 DEF SameChoice
    <3>2. QED
      BY <2>7, <2>9, <3>1, ChoiceSame, NothingYet, DestinationSame
  <2>17. Knows(p)'
    BY <2>7, <2>14, <2>15, <2>16 DEF Knows
  <2>18. QED
    BY <2>6, <2>11, <2>17, RowsStep
<1>3. QED
  BY <1>1, <1>2

LEMMA RowsDstInsert ==
    ASSUME TypeInv, TypeInv', HistoryInv, FreshInv, RowsInv, Persists, NEW r \in Reqs,
           DstInsert(r)
    PROVE  RowsInv'
<1>1. CASE Raise(r)
  BY <1>1, RowsRaise
<1>2. CASE ~Raise(r)
  <2>1. PICK n, q : n = nextVer /\ q = req[r]
    OBVIOUS
  <2>2. /\ q.pc = "dstInsert" /\ q.into \in live /\ BumpInsert(r, q.into, DstCount(r))
        /\ req' = [req EXCEPT ![r].pc = "dstPdf", ![r].dnew = n]
    BY <1>2, <2>1 DEF DstInsert, At
  <2>3. q \in Request /\ LocalsAt(q.pc, q)
    BY <2>1, LocalsOf
  <2>4. PICK p : p = [q EXCEPT !.pc = "dstPdf", !.dnew = n]
    OBVIOUS
  <2>5. req' = [req EXCEPT ![r] = p]
    BY <2>1, <2>2, <2>4 DEF TypeInv
  <2>6. Others(r) /\ req'[r] = p
    BY <2>5, OneChanged
  <2>7. /\ p.pc = "dstPdf" /\ p.dnew = n /\ p.out = q.out /\ p.todo = q.todo
        /\ p.dlen = q.dlen /\ SameChoice(p, q)
    BY <2>3, <2>4 DEF Request, SameChoice
  <2>8. q.pc \in SrcPcs \cup DstPcs
    BY <2>2 DEF DstPcs
  <2>9. Knows(q)' /\ Choice(q)' /\ Progress(q)' /\ (q.op \in MoveOps => Destination(q)')
    BY <2>1, <2>8, StillChosen
  <2>10. DstCount(r) \in Nat /\ DstCount(r) = IF q.op = "mix" THEN q.dlen + Len(q.items)
                                               ELSE Len(q.items)
    <3>1. Len(q.items) \in Nat /\ q.dlen \in Nat
      BY <2>3, LenProperties DEF LocalsAt, Request
    <3>2. QED
      BY <2>1, <3>1 DEF DstCount
  <2>11. \A v \in VerIds : Rowed(v)'
    BY <2>1, <2>2, <2>10, RowsBump
  <2>12. PICK c : c = DstCount(r)
    OBVIOUS
  <2>13. HasRows(n, q.into, c)'
    BY <2>1, <2>2, <2>10, <2>12, RowsBump
  <2>14. HasRows(p.dnew, p.into, IF p.op = "mix" THEN p.dlen + Len(p.items) ELSE Len(p.items))'
    BY <2>7, <2>10, <2>12, <2>13 DEF SameChoice
  <2>15. p.todo = p.items \/ (p.todo = <<>> /\ p.doc \notin live')
    BY <2>2, <2>7, <2>9 DEF Knows, Copying, SameChoice
  <2>16. Choice(p)' /\ Progress(p)'
    BY <2>7, <2>9, ChoiceSame, NothingYet
  <2>17. p.op \in MoveOps => Destination(p)'
    BY <2>2, <2>7, <2>9 DEF SameChoice, Destination
  <2>18. Knows(p)'
    BY <2>7, <2>14, <2>15, <2>16, <2>17 DEF Knows
  <2>19. QED
    BY <2>6, <2>11, <2>18, RowsStep
<1>3. QED
  BY <1>1, <1>2

\* A file written to a version that has rows enough.
LEMMA RowsWritten ==
    ASSUME TypeInv, TypeInv', RowsInv, UNCHANGED ver, NEW n \in VerIds, NEW f,
           file' = [file EXCEPT ![n] = f],
           ver[n].doc # NoDoc => Len(f.pages) <= Len(ver[n].pages)
    PROVE  \A v \in VerIds : Rowed(v)'
<1>1. file'[n] = f /\ \A v \in VerIds \ {n} : file'[v] = file[v]
  BY DEF TypeInv, StoreType
<1>2. Rowed(n)'
  BY <1>1 DEF Rowed, RowsInv
<1>3. \A v \in VerIds \ {n} : Rowed(v)'
  BY <1>1, StoreStays, RowedKept DEF RowsInv
<1>4. QED
  BY <1>2, <1>3

\* The numbers of the chosen rows are their positions.
LEMMA NumbersAreItems ==
    ASSUME TypeInv, NEW r \in Reqs, Choice(req[r])
    PROVE  Numbers(r) = req[r].items
<1>1. req[r] \in Request /\ req[r].items \in Seq(DOMAIN req[r].rows)
  BY LocalsOf DEF LocalsAt
<1>2. DOMAIN req[r].items = 1..Len(req[r].items)
      /\ req[r].items \in [DOMAIN req[r].items -> DOMAIN req[r].rows]
  BY <1>1, LenProperties
<1>3. \A k \in DOMAIN req[r].items : req[r].rows[req[r].items[k]].number = req[r].items[k]
  BY <1>2 DEF Choice, Listed
<1>4. QED
  BY <1>2, <1>3 DEF Numbers

\* The source file has no more pages than there were rows when they were read.
LEMMA SourceLength ==
    ASSUME TypeInv, RowsInv, NEW q, Choice(q), q.doc \in live, file[q.old].kind = "pdf"
    PROVE  Len(file[q.old].pages) <= Len(q.rows)
BY DEF Choice, RowsInv, Rowed

LEMMA SrcPagesLength ==
    ASSUME TypeInv, RowsInv, NEW r \in Reqs, Choice(req[r]), req[r].doc \in live,
           req[r].old \in VerIds, Readable(req[r].old, Range(Numbers(r))), NEW s \in SrcPages(r),
           NEW n, n = (IF req[r].op = "apply" THEN Len(req[r].items)
                       ELSE Len(req[r].rows) - Len(req[r].items))
    PROVE  /\ s \in Seq(Content) /\ Len(s) <= n
           /\ Len(file[req[r].old].pages) = Len(req[r].rows) => Len(s) = n
<1>1. PICK q : q = req[r]
  OBVIOUS
<1>2. PICK f : f = file[q.old].pages
  OBVIOUS
<1>3. /\ f \in Seq(Content) /\ DOMAIN f = 1..Len(f) /\ Len(f) \in Nat
      /\ Range(q.items) \subseteq 1..Len(f) /\ Numbers(r) = q.items
      /\ q.items \in Seq(DOMAIN q.rows) /\ Len(q.items) \in Nat /\ q.rows \in Seq(PageRow)
      /\ Len(q.rows) \in Nat /\ DOMAIN q.items = 1..Len(q.items) /\ IsInjective(q.items)
  BY ZenonT(40), <1>1, <1>2, NumbersAreItems, LocalsOf, LenProperties
     DEF Readable, LocalsAt, Request, TypeInv, StoreType, File, Choice
<1>4. Len(f) <= Len(q.rows)
  BY <1>1, <1>2, SourceLength DEF Readable
<1>5. CASE q.op = "apply"
  <2>1. s = [k \in DOMAIN q.items |-> f[q.items[k]]]
    BY <1>1, <1>2, <1>3, <1>5 DEF SrcPages
  <2>2. \A k \in 1..Len(q.items) : f[q.items[k]] \in Content
    BY <1>3, ElementOfSeq DEF Range
  <2>3. s \in [1..Len(q.items) -> Content]
    BY <1>3, <2>1, <2>2
  <2>4. Len(s) = Len(q.items)
    BY <1>3, <2>3, SeqOfFcn
  <2>5. s \in Seq(Content)
    BY <1>3, <2>3, SeqOfFcn
  <2>6. QED
    BY <1>1, <1>3, <1>5, <2>4, <2>5
<1>6. CASE q.op # "apply"
  <2>1. PICK t \in InOrder(DOMAIN f \ Range(q.items)) : s = [k \in DOMAIN t |-> f[t[k]]]
    BY <1>1, <1>2, <1>3, <1>6 DEF SrcPages
  <2>2. PICK S \in SUBSET (1..Len(f)) : S = (1..Len(f)) \ Range(q.items)
    OBVIOUS
  <2>3. t \in Seq(S) /\ Len(t) = Cardinality(S) /\ Len(t) \in Nat
    BY <1>3, <2>1, <2>2, InOrderType
  <2>4. Cardinality(S) = Len(f) - Len(q.items)
    BY <1>3, <2>2, PositionsLeft
  <2>5. DOMAIN t = 1..Len(t) /\ \A k \in 1..Len(t) : t[k] \in S
    BY <2>3, LenProperties, ElementOfSeq
  <2>6. \A k \in 1..Len(t) : f[t[k]] \in Content
    BY <1>3, <2>2, <2>5, ElementOfSeq
  <2>7. s \in [1..Len(t) -> Content]
    BY <2>1, <2>5, <2>6
  <2>8. Len(s) = Len(t)
    BY <2>3, <2>7, SeqOfFcn
  <2>9. \A a, b, c, d \in Nat : a = b - c /\ b <= d => a <= d - c
    OBVIOUS
  <2>10. Len(s) \in Nat /\ Len(s) = Len(f) - Len(q.items)
    BY Zenon, <2>3, <2>4, <2>8
  <2>11. Len(s) <= Len(q.rows) - Len(q.items)
    BY Zenon, <1>3, <1>4, <2>9, <2>10
  <2>12. s \in Seq(Content)
    BY <2>3, <2>7, SeqOfFcn
  <2>13. n = Len(q.rows) - Len(q.items)
    BY <1>1, <1>6
  <2>14. Len(f) = Len(q.rows) => Len(s) = n
    BY <2>10, <2>13
  <2>15. QED
    BY <1>1, <1>2, <2>11, <2>12, <2>13, <2>14
<1>7. QED
  BY <1>5, <1>6

LEMMA RowsSrcPdf ==
    ASSUME TypeInv, TypeInv', HistoryInv, FreshInv, RowsInv, Persists, NEW r \in Reqs,
           SrcPdf(r)
    PROVE  RowsInv'
<1>1. CASE Raise(r)
  BY <1>1, RowsRaise
<1>2. CASE ~Raise(r)
  <2>1. PICK q : q = req[r]
    OBVIOUS
  <2>2. q.pc = "srcPdf" /\ Readable(q.old, Range(Numbers(r))) /\ UNCHANGED store
    BY <1>2, <2>1 DEF SrcPdf, At
  <2>3. PICK s \in SrcPages(r) : file' = [file EXCEPT ![q.new] = Pdf(s)]
    BY <1>2, <2>1 DEF SrcPdf
  <2>4. PICK pc : Goto(r, pc) /\ pc \in {"error", "srcText"}
    BY <1>2 DEF SrcPdf
  <2>5. q \in Request /\ LocalsAt(q.pc, q) /\ q.new \in VerIds /\ q.old \in VerIds
    BY <2>1, <2>2, LocalsOf DEF LocalsAt, SrcPcs
  <2>6. q.pc \in SrcPcs \cup DstPcs
    BY <2>2 DEF SrcPcs
  <2>7. /\ Choice(q) /\ HasRows(q.new, q.doc, IF q.op = "apply" THEN Len(q.items)
                                              ELSE Len(q.rows) - Len(q.items))
    BY <2>1, <2>2, <2>6 DEF RowsInv, Knows
  <2>8. ver[q.new].doc # NoDoc => Len(s) <= Len(ver[q.new].pages)
    <3> SUFFICES ASSUME ver[q.new].doc # NoDoc PROVE Len(s) <= Len(ver[q.new].pages)
      OBVIOUS
    <3>1. ver[q.new].doc = q.doc /\ q.doc \in live
      BY <2>5, <2>7 DEF HasRows, HistoryInv, Cascaded
    <3>2. PICK m : m = IF q.op = "apply" THEN Len(q.items) ELSE Len(q.rows) - Len(q.items)
      OBVIOUS
    <3>3. Len(s) <= m
      BY <2>1, <2>2, <2>5, <2>7, <3>1, <3>2, SrcPagesLength
    <3>4. m <= Len(ver[q.new].pages)
      BY <2>7, <3>1, <3>2 DEF HasRows
    <3>5. m \in Int /\ Len(ver[q.new].pages) \in Nat
      BY <2>5, <3>2, LenProperties DEF Request, TypeInv, StoreType, Version
    <3>6. Len(s) \in Nat
      BY <2>1, <2>2, <2>5, SrcPagesType, LenProperties
    <3>7. QED
      BY <3>3, <3>4, <3>5, <3>6
  <2>9. \A v \in VerIds : Rowed(v)'
    <3>1. PICK f : f = Pdf(s)
      OBVIOUS
    <3>2. f.pages = s
      BY <3>1 DEF Pdf
    <3>3. QED
      BY <2>2, <2>3, <2>5, <2>8, <3>1, <3>2, RowsWritten DEF store
  <2>10. PICK p : p = req'[r]
    OBVIOUS
  <2>11. /\ Others(r) /\ p.pc = pc /\ SameChoice(p, q) /\ p.todo = q.todo
         /\ p.out = q.out
    BY <2>1, <2>4, <2>10, GotoEffect
  <2>12. CASE pc = "error"
    BY <2>9, <2>10, <2>11, <2>12, RowsQuiet DEF Stopped
  <2>13. CASE pc = "srcText"
    <3>1. Knows(q)' /\ Choice(q)' /\ Progress(q)' /\ (q.op \in MoveOps => Destination(q)')
      BY <2>1, <2>6, StillChosen
    <3>2. Choice(p)' /\ Progress(p)' /\ (p.op \in MoveOps => Destination(p)')
      <4>1. p.op = q.op
        BY <2>11 DEF SameChoice
      <4>2. QED
        BY <2>11, <2>13, <3>1, <4>1, ChoiceSame, NothingYet, DestinationSame
    <3>3. p.todo = p.items \/ (p.todo = <<>> /\ p.doc \notin live')
      BY <2>2, <2>11, <3>1 DEF Knows, Copying, SameChoice
    <3>4. Knows(p)'
      BY <2>11, <2>13, <3>2, <3>3 DEF Knows
    <3>5. QED
      BY <2>9, <2>10, <2>11, <3>4, RowsStep
  <2>14. QED
    BY <2>4, <2>12, <2>13
<1>3. QED
  BY <1>1, <1>2

\* List m put into list t before position n.
Spliced(t, m, n) == SubSeq(t, 1, n - 1) \o m \o SubSeq(t, n, Len(t))

\* What that gives, for lists of S.
SplicedWell(S, t, m, n) ==
    /\ Spliced(t, m, n) \in Seq(S) /\ Len(Spliced(t, m, n)) = Len(t) + Len(m)
    /\ \A i \in 1..(n - 1) : Spliced(t, m, n)[i] = t[i]
    /\ \A i \in 1..Len(m) : Spliced(t, m, n)[n - 1 + i] = m[i]
    /\ \A i \in n..Len(t) : Spliced(t, m, n)[i + Len(m)] = t[i]

LEMMA Inserted ==
    ASSUME NEW S, NEW t \in Seq(S), NEW m \in Seq(S), NEW n \in Nat, 1 <= n, n <= Len(t) + 1
    PROVE  SplicedWell(S, t, m, n)
<1>0. PICK x : x = Spliced(t, m, n)
  OBVIOUS
<1>1. Len(t) \in Nat /\ Len(m) \in Nat /\ n \in Nat \ {0}
  BY LenProperties
<1>2. PICK a : a = SubSeq(t, 1, n - 1)
  OBVIOUS
<1>3. PICK c : c = SubSeq(t, n, Len(t))
  OBVIOUS
<1>4. \A i \in 1..Len(t) : t[i] \in S
  BY ElementOfSeq
<1>5. a \in Seq(S) /\ Len(a) = n - 1 /\ \A i \in 1..(n - 1) : a[i] = t[i]
  <2>1. \A i \in 1..(n - 1) : t[i] \in S
    BY <1>1, <1>4
  <2>2. /\ a \in Seq(S) /\ Len(a) = IF 1 <= n - 1 THEN n - 1 - 1 + 1 ELSE 0
        /\ \A i \in 1..(n - 1 - 1 + 1) : a[i] = t[1 + i - 1]
    BY <1>1, <1>2, <2>1, SubSeqProperties
  <2>3. QED
    BY <1>1, <2>2
<1>6. c \in Seq(S) /\ Len(c) = Len(t) - n + 1 /\ \A i \in 1..(Len(t) - n + 1) : c[i] = t[n + i - 1]
  <2>1. \A i \in n..Len(t) : t[i] \in S
    BY <1>1, <1>4
  <2>2. /\ c \in Seq(S) /\ Len(c) = IF n <= Len(t) THEN Len(t) - n + 1 ELSE 0
        /\ \A i \in 1..(Len(t) - n + 1) : c[i] = t[n + i - 1]
    BY <1>1, <1>3, <2>1, SubSeqProperties
  <2>3. PICK k \in Nat : k = Len(t)
    BY <1>1
  <2>4. n \in Nat /\ 1 <= n /\ n <= k + 1
    BY <2>3
  <2>5. (IF n <= k THEN k - n + 1 ELSE 0) = k - n + 1
    BY <2>3, <2>4
  <2>6. QED
    BY <2>2, <2>3, <2>5
<1>7. PICK b : b = a \o m
  OBVIOUS
<1>8. /\ b \in Seq(S) /\ Len(b) = Len(a) + Len(m)
      /\ \A i \in 1..(Len(a) + Len(m)) : b[i] = IF i <= Len(a) THEN a[i] ELSE m[i - Len(a)]
  BY <1>5, <1>7, ConcatProperties
<1>9. x = b \o c
  BY <1>0, <1>2, <1>3, <1>7 DEF Spliced
<1>10. /\ x \in Seq(S) /\ Len(x) = Len(b) + Len(c)
       /\ \A i \in 1..(Len(b) + Len(c)) : x[i] = IF i <= Len(b) THEN b[i] ELSE c[i - Len(b)]
  <2>1. b \in Seq(S) /\ c \in Seq(S)
    BY <1>6, <1>8
  <2>2. QED
    BY <1>9, <2>1, ConcatProperties
<1>11. PICK k, l \in Nat : k = Len(t) /\ l = Len(m)
  BY <1>1
<1>12. /\ Len(a) = n - 1 /\ Len(b) = n - 1 + l /\ Len(c) = k - n + 1 /\ n \in 1..(k + 1)
       /\ Len(x) = k + l
  <2>1. Len(a) = n - 1 /\ Len(c) = k - n + 1 /\ n \in 1..(k + 1)
    BY <1>5, <1>6, <1>11
  <2>2. Len(b) = n - 1 + l
    BY <1>8, <1>11, <2>1
  <2>3. Len(x) = (n - 1 + l) + (k - n + 1)
    BY <1>10, <2>1, <2>2
  <2>4. n \in Int /\ (n - 1 + l) + (k - n + 1) = k + l
    BY <2>1
  <2>5. QED
    BY <2>1, <2>2, <2>3, <2>4
<1>13. /\ \A i \in 1..(n - 1 + l) : b[i] = IF i <= n - 1 THEN a[i] ELSE m[i - (n - 1)]
       /\ \A i \in 1..(k + l) : x[i] = IF i <= n - 1 + l THEN b[i] ELSE c[i - (n - 1 + l)]
  <2>1. \A i \in 1..(n - 1 + l) : b[i] = IF i <= n - 1 THEN a[i] ELSE m[i - (n - 1)]
    BY <1>8, <1>11, <1>12
  <2>2. Len(b) + Len(c) = k + l
    BY <1>12
  <2>3. QED
    BY <1>10, <1>12, <2>1, <2>2
<1>14. ASSUME NEW i \in 1..(n - 1) PROVE x[i] = t[i]
  <2>1. i \in 1..(n - 1 + l) /\ i \in 1..(k + l) /\ i <= n - 1 /\ i <= n - 1 + l
    BY <1>12
  <2>2. QED
    BY <1>5, <1>13, <2>1
<1>15. ASSUME NEW i \in 1..l PROVE x[n - 1 + i] = m[i]
  <2>1. PICK j \in Int : j = n - 1 + i
    BY <1>12
  <2>2. /\ j \in 1..(n - 1 + l) /\ j \in 1..(k + l)
        /\ ~(j <= n - 1) /\ j <= n - 1 + l /\ j - (n - 1) = i
    BY <1>12, <2>1
  <2>3. x[j] = b[j] /\ b[j] = m[j - (n - 1)]
    BY <1>13, <2>2
  <2>4. QED
    BY <2>1, <2>2, <2>3
<1>16. ASSUME NEW i \in n..k PROVE x[i + l] = t[i]
  <2>1. PICK j, h \in Int : j = i + l /\ h = i - n + 1
    BY <1>12
  <2>2. /\ j \in 1..(k + l) /\ ~(j <= n - 1 + l) /\ j - (n - 1 + l) = h
        /\ h \in 1..(k - n + 1) /\ n + h - 1 = i
    BY <1>12, <2>1
  <2>3. c[h] = t[n + h - 1]
    BY <1>6, <1>11, <2>2
  <2>4. x[j] = c[j - (n - 1 + l)]
    BY <1>13, <2>2
  <2>5. QED
    BY <2>1, <2>2, <2>3, <2>4
<1>17. QED
  BY <1>0, <1>10, <1>11, <1>12, <1>14, <1>15, <1>16 DEF SplicedWell

\* The moved pages: one for each row that is left to move.
LEMMA MovedPagesAre ==
    ASSUME TypeInv, NEW r \in Reqs, NEW q, q = req[r], Choice(q),
           Readable(q.old, Range(Moved(r)))
    PROVE  /\ MovedPages(r) \in Seq(Content) /\ Len(MovedPages(r)) = Len(q.todo)
           /\ q.todo \in Seq(DOMAIN q.rows) /\ Moved(r) = q.todo
           /\ MovedPages(r) = [k \in DOMAIN q.todo |-> file[q.old].pages[q.todo[k]]]
<1>1. q \in Request /\ q.todo \in Seq(DOMAIN q.rows)
  BY LocalsOf DEF LocalsAt
<1>2. DOMAIN q.todo = 1..Len(q.todo) /\ Len(q.todo) \in Nat
      /\ q.todo \in [DOMAIN q.todo -> DOMAIN q.rows]
  BY <1>1, LenProperties
<1>3. \A k \in DOMAIN q.todo : q.rows[q.todo[k]].number = q.todo[k]
  BY <1>2 DEF Choice, Listed
<1>4. Moved(r) = q.todo
  BY <1>2, <1>3 DEF Moved
<1>5. MovedPages(r) = [k \in DOMAIN q.todo |-> file[q.old].pages[q.todo[k]]]
  BY <1>4 DEF MovedPages
<1>6. Range(q.todo) \subseteq 1..Len(file[q.old].pages) /\ file[q.old].pages \in Seq(Content)
  BY <1>4 DEF Readable, Choice, TypeInv, StoreType, File
<1>7. \A k \in 1..Len(q.todo) : file[q.old].pages[q.todo[k]] \in Content
  BY <1>2, <1>6, ElementOfSeq DEF Range
<1>8. MovedPages(r) \in [1..Len(q.todo) -> Content]
  BY <1>2, <1>5, <1>7
<1>9. QED
  BY <1>1, <1>2, <1>4, <1>5, <1>8, SeqOfFcn

LEMMA DstPagesAre ==
    ASSUME TypeInv, RowsInv, NEW r \in Reqs, NEW q, q = req[r], q.pc = "dstPdf", Knows(q),
           DstReadable(r), NEW s, s = DstPages(r)
    PROVE  /\ s \in Seq(Content)
           /\ q.into \in live => Len(s) <= IF q.op = "mix" THEN q.dlen + Len(q.items)
                                                          ELSE Len(q.items)
           /\ \A j \in Range(q.todo) : file[q.old].pages[j] \in Range(s)
           /\ q.todo = q.items /\ (q.op = "mix" => Len(file[q.dst].pages) = q.dlen) =>
                 Len(s) = IF q.op = "mix" THEN q.dlen + Len(q.items) ELSE Len(q.items)
<1>1. /\ q \in Request /\ q.op \in {"mix", "replace"} /\ q.old \in VerIds /\ q.dst \in VerIds
      /\ q.at # 0 /\ q.items \in Seq(DOMAIN q.rows)
  BY LocalsOf DEF LocalsAt, DstPcs, MoveOps
<1>2. Choice(q) /\ Destination(q) /\ (q.todo = q.items \/ q.todo = <<>>)
  BY <1>1 DEF Knows, DstPcs, MoveOps, Copying
<1>3. PICK m : m = MovedPages(r)
  OBVIOUS
<1>4. /\ m \in Seq(Content) /\ Len(m) = Len(q.todo) /\ q.todo \in Seq(DOMAIN q.rows)
      /\ m = [k \in DOMAIN q.todo |-> file[q.old].pages[q.todo[k]]]
  BY <1>2, <1>3, MovedPagesAre DEF DstReadable
<1>5. Len(q.todo) <= Len(q.items) /\ Len(q.items) \in Nat /\ Len(q.todo) \in Nat
  <2>1. Len(q.items) \in Nat /\ Len(q.todo) \in Nat
    BY <1>1, <1>4, LenProperties
  <2>2. q.todo = <<>> => Len(q.todo) = 0
    BY EmptySeq
  <2>3. QED
    BY SMTT(30), <1>2, <2>1, <2>2
<1>6. \A j \in Range(q.todo) : file[q.old].pages[j] \in Range(m)
  BY ZenonT(40), <1>4 DEF Range
<1>7. CASE q.op = "replace"
  <2>1. s = m
    BY <1>3, <1>7 DEF DstPages
  <2>2. QED
    BY Zenon, <1>4, <1>5, <1>6, <1>7, <2>1
<1>8. CASE q.op = "mix"
  <2>1. PICK t, n : t = file[q.dst].pages /\ n = q.at
    OBVIOUS
  <2>2. t \in Seq(Content) /\ Len(t) \in Nat /\ n \in 1..(Len(t) + 1) /\ file[q.dst].kind = "pdf"
    BY SMTT(30), <1>1, <1>8, <2>1, LenProperties DEF Request, DstReadable, TypeInv, StoreType, File
  <2>3. s = Spliced(t, m, n)
    BY Zenon, <1>3, <1>8, <2>1 DEF DstPages, Spliced
  <2>4. /\ s \in Seq(Content) /\ Len(s) = Len(t) + Len(m)
        /\ \A i \in 1..Len(m) : s[n - 1 + i] = m[i]
    <3>1. t \in Seq(Content) /\ m \in Seq(Content) /\ n \in Nat /\ 1 <= n /\ n <= Len(t) + 1
      BY <1>4, <2>2, SMTT(20)
    <3>2. SplicedWell(Content, t, m, n)
      BY <3>1, Inserted
    <3>3. QED
      BY SMTT(30), <2>3, <3>2 DEF SplicedWell
  <2>5. Range(m) \subseteq Range(s)
    <3>1. DOMAIN m = 1..Len(m) /\ DOMAIN s = 1..Len(s) /\ Len(m) \in Nat
      BY Zenon, <1>4, <2>4, LenProperties
    <3>2. \A i \in 1..Len(m) : n - 1 + i \in 1..Len(s)
      BY <2>2, <2>4, <3>1
    <3>3. QED
      BY Zenon, <2>4, <3>1, <3>2 DEF Range
  <2>6. ASSUME q.into \in live PROVE Len(t) <= q.dlen
    <3>1. ver[q.dst].doc = q.into /\ q.dlen = Len(ver[q.dst].pages) /\ q.into # NoDoc
      BY <1>2, <2>6 DEF Destination
    <3>2. QED
      BY <1>1, <2>1, <2>2, <3>1 DEF RowsInv, Rowed
  <2>7. ASSUME q.into \in live PROVE Len(s) <= q.dlen + Len(q.items)
    <3>1. \A a, b, c, d \in Nat : a <= c /\ b <= d => a + b <= c + d
      OBVIOUS
    <3>2. Len(t) <= q.dlen /\ Len(m) <= Len(q.items) /\ q.dlen \in Nat /\ Len(m) \in Nat
      BY Zenon, <1>1, <1>4, <1>5, <2>6, <2>7 DEF Request
    <3>3. QED
      BY SMTT(30), <1>5, <2>2, <2>4, <3>1, <3>2
  <2>8. q.todo = q.items /\ Len(t) = q.dlen => Len(s) = q.dlen + Len(q.items)
    BY Zenon, <1>4, <2>4
  <2>9. QED
    BY <1>6, <1>8, <2>1, <2>4, <2>5, <2>7, <2>8
<1>9. QED
  BY <1>1, <1>7, <1>8

LEMMA DstPdfRows ==
    ASSUME TypeInv, NEW r \in Reqs, DstPdf(r), ~Raise(r)
    PROVE  /\ DstReadable(r) /\ req[r].pc = "dstPdf" /\ UNCHANGED store
           /\ file' = [file EXCEPT ![req[r].dnew] = Pdf(DstPages(r))]
           /\ Others(r) /\ SameChoice(req'[r], req[r]) /\ req'[r].out = {req[r].dnew}
           /\ req'[r].pc \in {"error", "purge", "dstNotify"}
           /\ req'[r].pc = "purge" => AllChosen(r)
           /\ req'[r].pc = "dstNotify" => ~AllChosen(r)
<1>1. PICK pc : pc = CASE \/ ReuseOcrRaises(req[r].old, Range(req[r].todo))
                          \/ req[r].op = "mix" /\ ReuseOcrRaises(req[r].dst, {req[r].at})
                             -> "error"
                       [] OTHER -> IF AllChosen(r) THEN "purge" ELSE "dstNotify"
  OBVIOUS
<1>2. /\ DstReadable(r) /\ req[r].pc = "dstPdf" /\ UNCHANGED store
      /\ file' = [file EXCEPT ![req[r].dnew] = Pdf(DstPages(r))]
      /\ req' = [req EXCEPT ![r].out = {req[r].dnew}, ![r].pc = pc]
  BY <1>1 DEF DstPdf, At
<1>3. /\ pc \in {"error", "purge", "dstNotify"}
      /\ pc = "purge" => AllChosen(r)
      /\ pc = "dstNotify" => ~AllChosen(r)
  <2>1. CASE \/ ReuseOcrRaises(req[r].old, Range(req[r].todo))
             \/ req[r].op = "mix" /\ ReuseOcrRaises(req[r].dst, {req[r].at})
    BY <1>1, <2>1
  <2>2. CASE ~(\/ ReuseOcrRaises(req[r].old, Range(req[r].todo))
               \/ req[r].op = "mix" /\ ReuseOcrRaises(req[r].dst, {req[r].at}))
    BY <1>1, <2>2
  <2>3. QED
    BY <2>1, <2>2
<1>4. PICK p : p = [req[r] EXCEPT !.out = {req[r].dnew}, !.pc = pc]
  OBVIOUS
<1>5. req' = [req EXCEPT ![r] = p]
  BY <1>2, <1>4 DEF TypeInv
<1>6. Others(r) /\ req'[r] = p
  BY <1>5, OneChanged
<1>7. SameChoice(p, req[r]) /\ p.out = {req[r].dnew} /\ p.pc = pc
  BY <1>4, LocalsOf DEF Request, SameChoice
<1>8. QED
  BY <1>2, <1>3, <1>6, <1>7

\* All rows are chosen: every page of the source file belongs to a chosen row.
LEMMA AllRowsChosen ==
    ASSUME TypeInv, RowsInv, NEW q \in Request, q.items \in Seq(DOMAIN q.rows), Choice(q),
           q.doc \in live, file[q.old].kind = "pdf", Len(q.rows) = Len(q.items)
    PROVE  DOMAIN file[q.old].pages \subseteq Range(q.items)
<1>1. Len(q.rows) \in Nat /\ DOMAIN q.rows = 1..Len(q.rows) /\ q.old \in VerIds
  BY LenProperties DEF Request, Choice
<1>2. Range(q.items) = 1..Len(q.rows)
  BY <1>1, AllPositions DEF Choice
<1>3. Len(file[q.old].pages) <= Len(q.rows)
  BY SourceLength
<1>4. DOMAIN file[q.old].pages = 1..Len(file[q.old].pages) /\ Len(file[q.old].pages) \in Nat
  BY <1>1, LenProperties DEF TypeInv, StoreType, File
<1>5. QED
  BY <1>1, <1>2, <1>3, <1>4

LEMMA RowsDstPdf ==
    ASSUME TypeInv, TypeInv', HistoryInv, FreshInv, RowsInv, Persists, NEW r \in Reqs,
           DstPdf(r)
    PROVE  RowsInv'
<1>1. CASE Raise(r)
  BY <1>1, RowsRaise
<1>2. CASE ~Raise(r)
  <2>1. PICK p, q, s : p = req'[r] /\ q = req[r] /\ s = DstPages(r)
    OBVIOUS
  <2>2. /\ DstReadable(r) /\ q.pc = "dstPdf" /\ UNCHANGED store
        /\ file' = [file EXCEPT ![q.dnew] = Pdf(s)]
        /\ Others(r) /\ SameChoice(p, q) /\ p.out = {q.dnew}
        /\ p.pc \in {"error", "purge", "dstNotify"}
        /\ p.pc = "purge" => AllChosen(r)
    BY <1>2, <2>1, DstPdfRows
  <2>3. /\ q \in Request /\ LocalsAt(q.pc, q) /\ q.dnew \in VerIds /\ q.old \in VerIds
        /\ q.op \in MoveOps
    BY <2>1, <2>2, LocalsOf DEF LocalsAt, DstPcs
  <2>4. q.pc \in SrcPcs \cup DstPcs
    BY <2>2 DEF DstPcs
  <2>5. /\ Knows(q) /\ Choice(q)
        /\ HasRows(q.dnew, q.into, IF q.op = "mix" THEN q.dlen + Len(q.items) ELSE Len(q.items))
    BY <2>1, <2>2, <2>4 DEF RowsInv, Knows
  <2>6. /\ s \in Seq(Content)
        /\ q.into \in live => Len(s) <= IF q.op = "mix" THEN q.dlen + Len(q.items) ELSE Len(q.items)
        /\ \A j \in Range(q.todo) : file[q.old].pages[j] \in Range(s)
    BY <2>1, <2>2, <2>5, DstPagesAre
  <2>7. ver[q.dnew].doc # NoDoc => Len(s) <= Len(ver[q.dnew].pages)
    <3> SUFFICES ASSUME ver[q.dnew].doc # NoDoc PROVE Len(s) <= Len(ver[q.dnew].pages)
      OBVIOUS
    <3>1. ver[q.dnew].doc = q.into /\ q.into \in live
      BY <2>3, <2>5 DEF HasRows, HistoryInv, Cascaded
    <3>2. PICK m : m = IF q.op = "mix" THEN q.dlen + Len(q.items) ELSE Len(q.items)
      OBVIOUS
    <3>3. Len(s) <= m /\ m <= Len(ver[q.dnew].pages)
      BY <2>5, <2>6, <3>1, <3>2 DEF HasRows
    <3>4. m \in Int /\ Len(ver[q.dnew].pages) \in Nat /\ Len(s) \in Nat
      <4>1. Len(q.items) \in Nat /\ q.dlen \in Nat
        BY <2>3, LenProperties DEF Request
      <4>2. Len(ver[q.dnew].pages) \in Nat /\ Len(s) \in Nat
        BY <2>3, <2>6, LenProperties DEF TypeInv, StoreType, Version
      <4>3. QED
        BY <3>2, <4>1, <4>2
    <3>5. QED
      BY <3>3, <3>4
  <2>8. \A v \in VerIds : Rowed(v)'
    <3>1. PICK f : f = Pdf(s)
      OBVIOUS
    <3>2. f.pages = s
      BY <3>1 DEF Pdf
    <3>3. QED
      BY <2>2, <2>3, <2>7, <3>1, <3>2, RowsWritten DEF store
  <2>9. CASE p.pc = "error"
    BY <2>1, <2>2, <2>8, <2>9, RowsQuiet DEF Stopped
  <2>10. CASE p.pc # "error"
    <3>1. Choice(q)' /\ Destination(q)'
      BY <2>1, <2>3, <2>4, StillChosen
    <3>2. Choice(p)' /\ (p.pc = "dstNotify" => Destination(p)')
      BY <2>2, <3>1, ChoiceSame, DestinationSame
    <3>3. file'[q.dnew] = Pdf(s) /\ \A v \in VerIds \ {q.dnew} : file'[v] = file[v]
      BY <2>2, <2>3 DEF TypeInv, StoreType
    <3>4. file'[q.dnew].kind # "none" /\ file'[q.dnew].pages = s
      BY <3>3 DEF Pdf
    <3>5. OutPages(p)' = Range(s)
      BY <2>2, <3>4 DEF OutPages
    <3>6. ASSUME p.pc = "purge", p.doc \in live'
          PROVE  file'[p.old].kind = "pdf" /\ Range(file'[p.old].pages) \subseteq Range(s)
      <4>1. AllChosen(r) /\ Len(q.rows) = Len(q.items) /\ p.old = q.old /\ q.doc \in live
        BY <2>1, <2>2, <3>6 DEF AllChosen, SameChoice, store
      <4>2. q.todo = q.items
        BY <2>2, <2>5, <4>1 DEF Knows, Copying
      <4>3. file[q.old].kind = "pdf"
        BY <2>1, <2>2 DEF DstReadable, Readable
      <4>4. DOMAIN file[q.old].pages \subseteq Range(q.items)
        BY <2>3, <2>5, <4>1, <4>3, AllRowsChosen DEF LocalsAt
      <4>5. Range(file[q.old].pages) \subseteq Range(s)
        BY <2>6, <4>2, <4>4 DEF Range
      <4>6. file'[q.old] = file[q.old]
        BY <2>3, <4>3 DEF Persists, Frozen
      <4>7. QED
        BY <4>1, <4>3, <4>5, <4>6
    <3>7. Progress(p)'
      <4>1. \A v \in p.out : v \in VerIds /\ file'[v].kind # "none"
        BY <2>2, <2>3, <3>4
      <4>2. QED
        BY <2>2, <3>5, <3>6, <4>1 DEF Progress
    <3>8. Knows(p)'
      BY <2>2, <2>10, <3>2, <3>7 DEF Knows, Copying, SrcPcs, DstPcs, ExtPcs
    <3>9. QED
      BY <2>1, <2>2, <2>8, <3>8, RowsStep
  <2>11. QED
    BY <2>9, <2>10
<1>3. QED
  BY <1>1, <1>2

-----------------------------------------------------------------------------
(* Rows and pages: texts, notifications, deletions *)

\* A step to the next point of the source or the target side.
LEMMA RowsAdvance ==
    ASSUME TypeInv, TypeInv', HistoryInv, FreshInv, RowsInv, Persists, NEW r \in Reqs, NEW pc,
           Goto(r, pc), UNCHANGED file, \A v \in VerIds : RowsStay(v),
           \/ req[r].pc = "srcText" /\ pc = "srcNotify"
           \/ req[r].pc = "srcNotify" /\ pc \in {"dstRead", "extRead"}
    PROVE  RowsInv'
<1>1. PICK p, q : p = req'[r] /\ q = req[r]
  OBVIOUS
<1>2. /\ Others(r) /\ p.pc = pc /\ SameChoice(p, q) /\ p.todo = q.todo /\ p.out = q.out
  BY <1>1, GotoEffect
<1>3. q.pc \in SrcPcs \cup DstPcs /\ q.pc \in Copying
  BY <1>1 DEF SrcPcs, Copying
<1>4. Knows(q)' /\ Choice(q)' /\ Progress(q)' /\ (q.op \in MoveOps => Destination(q)')
  BY <1>1, <1>3, StillChosen
<1>5. p.op = q.op /\ p.items = q.items /\ p.doc = q.doc
  BY <1>2 DEF SameChoice
<1>6. Choice(p)' /\ Progress(p)' /\ (p.op \in MoveOps => Destination(p)')
  BY <1>2, <1>4, <1>5, ChoiceSame, NothingYet, DestinationSame
<1>7. p.todo = p.items \/ (p.todo = <<>> /\ p.doc \notin live')
  BY <1>2, <1>3, <1>4, <1>5 DEF Knows
<1>8. Knows(p)'
  BY <1>2, <1>6, <1>7 DEF Knows
<1>9. \A v \in VerIds : Rowed(v)'
  BY RowedKept DEF RowsInv
<1>10. QED
  BY <1>1, <1>2, <1>8, <1>9, RowsStep

LEMMA RowsStop ==
    ASSUME TypeInv, TypeInv', HistoryInv, FreshInv, RowsInv, Persists, NEW r \in Reqs, NEW pc,
           Goto(r, pc), pc \in Stopped \cup DelPcs, UNCHANGED file, \A v \in VerIds : RowsStay(v)
    PROVE  RowsInv'
<1>1. Others(r) /\ req'[r].pc = pc
  BY PcChanged
<1>2. \A v \in VerIds : Rowed(v)'
  BY RowedKept DEF RowsInv
<1>3. QED
  BY <1>1, <1>2, RowsQuiet

LEMMA RowsGoesOn ==
    ASSUME TypeInv, TypeInv', HistoryInv, FreshInv, RowsInv, Persists, NEW r \in Reqs,
           \/ SrcText(r) \/ SrcNotify(r) \/ DstNotify(r) \/ Purge(r)
           \/ DelCommit(r) \/ DelNotify(r) \/ Crash(r)
    PROVE  RowsInv'
<1>1. CASE SrcText(r)
  BY <1>1, TextStays, RowsAdvance DEF SrcText, At
<1>2. CASE SrcNotify(r)
  <2>1. PICK pc : Goto(r, pc) /\ pc \in {"done", "dstRead", "extRead"}
    BY <1>2 DEF SrcNotify
  <2>2. req[r].pc = "srcNotify" /\ UNCHANGED <<ver, file>>
    BY <1>2 DEF SrcNotify, At, store
  <2>3. \A v \in VerIds : RowsStay(v)
    BY <2>2, StoreStays
  <2>4. CASE pc = "done"
    BY <2>1, <2>2, <2>3, <2>4, RowsStop DEF Stopped
  <2>5. CASE pc # "done"
    BY <2>1, <2>2, <2>3, <2>5, RowsAdvance
  <2>6. QED
    BY <2>4, <2>5
<1>3. CASE DstNotify(r) \/ DelNotify(r) \/ Crash(r)
  <2>1. PICK pc : Goto(r, pc) /\ pc \in Stopped
    BY <1>3 DEF DstNotify, DelNotify, Crash, Stopped
  <2>2. UNCHANGED <<ver, file>>
    BY <1>3 DEF DstNotify, DelNotify, Crash, store
  <2>3. QED
    BY <2>1, <2>2, StoreStays, RowsStop
<1>4. CASE Purge(r) \/ DelCommit(r)
  <2>1. PICK pc, d : Goto(r, pc) /\ pc \in Stopped \cup DelPcs /\ DropDocument(d)
    BY <1>4 DEF Purge, DelCommit, Stopped, DelPcs
  <2>2. UNCHANGED file
    BY <1>4 DEF Purge, DelCommit
  <2>3. QED
    BY <2>1, <2>2, DropStays, RowsStop
<1>5. QED
  BY <1>1, <1>2, <1>3, <1>4

\* No request steps: the OCR worker writes texts, or nothing happens.
LEMMA RowsSame ==
    ASSUME TypeInv, TypeInv', HistoryInv, FreshInv, RowsInv, Persists, UNCHANGED <<req, file>>,
           \A v \in VerIds : RowsStay(v)
    PROVE  RowsInv'
<1>1. \A v \in VerIds : Rowed(v)'
  BY RowedKept DEF RowsInv
<1>2. ASSUME NEW p \in Reqs PROVE Knows(req[p])'
  <2>1. PICK q : q = req[p]
    OBVIOUS
  <2>2. Knows(q)'
    BY <2>1, KnowsKept DEF RowsInv
  <2>3. QED
    BY <2>1, <2>2
<1>3. QED
  BY <1>1, <1>2 DEF RowsInv

-----------------------------------------------------------------------------
(* Rows and pages: extraction *)

LEMMA RowsExtRead ==
    ASSUME TypeInv, TypeInv', HistoryInv, FreshInv, RowsInv, Persists, NEW r \in Reqs, ExtRead(r)
    PROVE  RowsInv'
<1>1. PICK p, q : p = req'[r] /\ q = req[r]
  OBVIOUS
<1>2. PICK pc : /\ Goto(r, pc) /\ pc \in {"extDoc", "extNotify", "error"}
                /\ pc = "extNotify" => ver[q.old].doc = NoDoc
  BY <1>1 DEF ExtRead
<1>3. q.pc = "extRead" /\ UNCHANGED <<store, file>>
  BY <1>1 DEF ExtRead, At
<1>4. \A v \in VerIds : RowsStay(v)
  BY <1>3, StoreStays DEF store
<1>5. CASE pc = "error"
  BY <1>2, <1>3, <1>4, <1>5, RowsStop DEF Stopped
<1>6. CASE pc # "error"
  <2>1. /\ Others(r) /\ p.pc = pc /\ SameChoice(p, q) /\ p.todo = q.todo /\ p.out = q.out
    BY <1>1, <1>2, GotoEffect
  <2>2. q.pc \in ExtPcs /\ q.pc \in Copying
    BY <1>3 DEF ExtPcs, Copying
  <2>3. Knows(q)' /\ Choice(q)' /\ Progress(q)'
    BY <1>1, <2>2, StillChosen
  <2>4. p.items = q.items /\ p.doc = q.doc /\ p.old = q.old
    BY <2>1 DEF SameChoice
  <2>5. Choice(p)'
    BY <2>1, <2>3, ChoiceSame
  <2>6. Progress(p)'
    <3>1. \A v \in p.out : v \in VerIds /\ file'[v].kind # "none"
      BY <2>1, <2>3 DEF Progress
    <3>2. CASE pc = "extDoc"
      <4>1. p.doc \in live' => p.todo = p.items
        BY <2>1, <2>2, <2>3, <2>4 DEF Knows
      <4>2. Remaining(p) = Range(p.todo)
        BY <2>1, <3>2 DEF Remaining
      <4>3. QED
        BY <2>1, <3>1, <3>2, <4>1, <4>2 DEF Progress
    <3>3. CASE pc = "extNotify"
      <4>1. p.doc \notin live'
        BY <1>2, <1>3, <2>3, <2>4, <3>3 DEF Choice, store
      <4>2. QED
        BY <3>1, <4>1 DEF Progress
    <3>4. QED
      BY <1>2, <1>6, <3>2, <3>3
  <2>7. Knows(p)'
    BY <1>2, <1>6, <2>1, <2>5, <2>6 DEF Knows, Copying, SrcPcs, DstPcs, ExtPcs
  <2>8. \A v \in VerIds : Rowed(v)'
    BY <1>3, <1>4, RowedKept DEF RowsInv
  <2>9. QED
    BY <1>1, <2>1, <2>7, <2>8, RowsStep
<1>7. QED
  BY <1>5, <1>6

LEMMA ExtDocRows ==
    ASSUME TypeInv, NEW r \in Reqs, ExtDoc(r)
    PROVE  /\ \E d : CreateDocument(d)
           /\ Others(r) /\ UNCHANGED file /\ SameChoice(req'[r], req[r])
           /\ req'[r].pc = "extPages" /\ req'[r].out = req[r].out
           /\ req'[r].todo = IF req[r].todo = <<>> THEN req[r].items ELSE req[r].todo
<1>1. PICK d : /\ CreateDocument(d)
               /\ req' = [req EXCEPT ![r].pc = "extPages", ![r].cur = d,
                              ![r].made = @ \cup {d},
                              ![r].todo = IF @ = <<>> THEN req[r].items ELSE @]
  BY DEF ExtDoc
<1>2. PICK p : p = [req[r] EXCEPT !.pc = "extPages", !.cur = d, !.made = @ \cup {d},
                                  !.todo = IF @ = <<>> THEN req[r].items ELSE @]
  OBVIOUS
<1>3. req' = [req EXCEPT ![r] = p]
  BY <1>1, <1>2 DEF TypeInv
<1>4. Others(r) /\ req'[r] = p
  BY <1>3, OneChanged
<1>5. /\ SameChoice(p, req[r]) /\ p.pc = "extPages" /\ p.out = req[r].out
      /\ p.todo = IF req[r].todo = <<>> THEN req[r].items ELSE req[r].todo
  BY <1>2, LocalsOf DEF Request, SameChoice
<1>6. UNCHANGED file
  BY DEF ExtDoc
<1>7. QED
  BY <1>1, <1>4, <1>5, <1>6

LEMMA RowsExtDoc ==
    ASSUME TypeInv, TypeInv', HistoryInv, FreshInv, RowsInv, Persists, NEW r \in Reqs, ExtDoc(r)
    PROVE  RowsInv'
<1>1. PICK p, q : p = req'[r] /\ q = req[r]
  OBVIOUS
<1>2. /\ \E d : CreateDocument(d)
      /\ Others(r) /\ UNCHANGED file /\ SameChoice(p, q)
      /\ p.pc = "extPages" /\ p.out = q.out
      /\ p.todo = IF q.todo = <<>> THEN q.items ELSE q.todo
  BY <1>1, ExtDocRows
<1>3. q.pc = "extDoc" /\ q.pc \in ExtPcs
  BY <1>1 DEF ExtDoc, At, ExtPcs
<1>4. Choice(q)' /\ Progress(q)'
  BY <1>1, <1>3, StillChosen
<1>5. Choice(p)'
  BY <1>2, <1>4, ChoiceSame
<1>6. Progress(p)'
  <2>1. p.items = q.items /\ p.doc = q.doc /\ p.old = q.old
    BY <1>2 DEF SameChoice
  <2>2. OutPages(p)' = OutPages(q)'
    BY <1>2 DEF OutPages
  <2>3. \A j : Copied(q, j)' => Copied(p, j)'
    BY <2>1, <2>2 DEF Copied
  <2>4. Remaining(q) = Range(q.todo) /\ Remaining(p) = Range(p.todo)
    BY <1>2, <1>3 DEF Remaining
  <2>5. \A j \in Range(p.items) : j \in Range(q.todo) => j \in Range(p.todo)
    <3>1. CASE q.todo = <<>>
      BY <1>2, <2>1, <3>1
    <3>2. CASE q.todo # <<>>
      BY <1>2, <3>2
    <3>3. QED
      BY <3>1, <3>2
  <2>6. QED
    BY <1>2, <1>3, <1>4, <2>1, <2>3, <2>4, <2>5 DEF Progress
<1>7. Knows(p)'
  BY <1>2, <1>5, <1>6 DEF Knows, Copying, SrcPcs, DstPcs
<1>8. \A v \in VerIds : Rowed(v)'
  BY <1>2, RowsCreate
<1>9. QED
  BY <1>1, <1>2, <1>7, <1>8, RowsStep

\* The numbers of the rows that go into the next document, and the pages they are.
BatchNumbers(r) == [k \in DOMAIN Batch(r) |-> req[r].rows[Batch(r)[k]].number]
BatchPages(r) == [k \in DOMAIN BatchNumbers(r) |-> file[req[r].old].pages[BatchNumbers(r)[k]]]

LEMMA BatchPagesAre ==
    ASSUME TypeInv, NEW r \in Reqs, req[r].pc = "extPages", Choice(req[r]),
           Readable(req[r].old, Range(BatchNumbers(r)))
    PROVE  /\ BatchPages(r) \in Seq(Content)
           /\ \A j \in Range(Batch(r)) :
                 /\ j \in DOMAIN file[req[r].old].pages
                 /\ file[req[r].old].pages[j] \in Range(BatchPages(r))
<1>1. PICK q, b, f : q = req[r] /\ b = Batch(r) /\ f = file[q.old].pages
  OBVIOUS
<1>2. b \in Seq(DOMAIN q.rows) /\ DOMAIN b = 1..Len(b) /\ Len(b) \in Nat
      /\ b \in [DOMAIN b -> DOMAIN q.rows]
  BY <1>1, BatchType, LenProperties
<1>3. \A k \in DOMAIN b : q.rows[b[k]].number = b[k]
  BY <1>1, <1>2 DEF Choice, Listed
<1>4. BatchNumbers(r) = b
  BY <1>1, <1>2, <1>3 DEF BatchNumbers
<1>5. f \in Seq(Content) /\ DOMAIN f = 1..Len(f) /\ Range(b) \subseteq 1..Len(f)
  BY <1>1, <1>4, LenProperties DEF Readable, Choice, TypeInv, StoreType, File
<1>6. BatchPages(r) = [k \in DOMAIN b |-> f[b[k]]]
  BY <1>1, <1>4 DEF BatchPages
<1>7. BatchPages(r) \in [1..Len(b) -> Content]
  BY <1>2, <1>5, <1>6, ElementOfSeq DEF Range
<1>8. BatchPages(r) \in Seq(Content)
  BY <1>2, <1>7, SeqOfFcn
<1>9. \A j \in Range(b) : j \in DOMAIN f /\ f[j] \in Range(BatchPages(r))
  BY <1>5, <1>6 DEF Range
<1>10. QED
  BY <1>1, <1>8, <1>9

LEMMA ExtPagesRows ==
    ASSUME TypeInv, NEW r \in Reqs, ExtPages(r), ~Raise(r)
    PROVE  /\ req[r].pc = "extPages" /\ req[r].cur \in live
           /\ Readable(req[r].old, Range(BatchNumbers(r)))
           /\ Others(r) /\ SameChoice(req'[r], req[r]) /\ req'[r].todo = req[r].todo
           /\ req'[r].pc \in {"error", "extText"}
           /\ \E v \in FillTarget(req[r].cur) :
                 /\ FillVersion(req[r].cur, v, BatchPages(r))
                 /\ req'[r].out = req[r].out \cup {v}
<1>1. /\ req[r].pc = "extPages" /\ req[r].cur \in live
      /\ Readable(req[r].old, Range(BatchNumbers(r)))
      /\ \E v \in FillTarget(req[r].cur) :
            /\ FillVersion(req[r].cur, v, BatchPages(r))
            /\ req' = [req EXCEPT ![r].out = @ \cup {v},
                  ![r].pc = IF req[r].op = "extract_one" /\ req[r].old \in ocr
                            THEN "error" ELSE "extText"]
  BY Zenon DEF ExtPages, BatchPages, BatchNumbers, At
<1>2. PICK v \in FillTarget(req[r].cur) :
            /\ FillVersion(req[r].cur, v, BatchPages(r))
            /\ req' = [req EXCEPT ![r].out = @ \cup {v},
                  ![r].pc = IF req[r].op = "extract_one" /\ req[r].old \in ocr
                            THEN "error" ELSE "extText"]
  BY <1>1
<1>3. PICK pc : pc = IF req[r].op = "extract_one" /\ req[r].old \in ocr
                     THEN "error" ELSE "extText"
  OBVIOUS
<1>4. PICK p : p = [req[r] EXCEPT !.out = req[r].out \cup {v}, !.pc = pc]
  OBVIOUS
<1>5. req' = [req EXCEPT ![r] = p]
  BY <1>2, <1>3, <1>4 DEF TypeInv
<1>6. Others(r) /\ req'[r] = p
  BY <1>5, OneChanged
<1>7. /\ SameChoice(p, req[r]) /\ p.out = req[r].out \cup {v} /\ p.pc = pc
      /\ p.todo = req[r].todo
  BY <1>4, LocalsOf DEF Request, SameChoice
<1>8. pc \in {"error", "extText"}
  BY <1>3
<1>9. QED
  BY <1>1, <1>2, <1>6, <1>7, <1>8

\* The version that is filled had no rows.
LEMMA RowsFilled ==
    ASSUME TypeInv, TypeInv', HistoryInv, FreshInv, RowsInv, NEW r \in Reqs,
           req[r].pc = "extPages", NEW v \in FillTarget(req[r].cur), NEW s \in Seq(Content),
           FillVersion(req[r].cur, v, s)
    PROVE  /\ v \in VerIds /\ file'[v] = Pdf(s)
           /\ ver'[v].doc = req[r].cur /\ ver'[v].count = Len(s) /\ Len(ver'[v].pages) = Len(s)
           /\ \A w \in VerIds \ {v} : ver'[w] = ver[w] /\ file'[w] = file[w]
           /\ \A w \in VerIds : Rowed(w)'
<1>1. PICK d : d = req[r].cur
  OBVIOUS
<1>2. v \in VerIds /\ (v = nextVer \/ v \in VersionsOf(d)) /\ d # NoDoc
  BY <1>1, TargetType DEF FillTarget, Highest, Unsized, VersionsOf
<1>3. Len(ver[v].pages) = 0
  <2>1. CASE v = nextVer
    <3>1. v >= nextVer
      BY <2>1 DEF TypeInv, StoreType
    <3>2. QED
      BY <1>2, <3>1 DEF HistoryInv, Unused, RowsInv, Rowed
  <2>2. CASE v \in VersionsOf(d)
    BY <1>1, <2>2 DEF FreshInv, Filling
  <2>3. QED
    BY <1>2, <2>1, <2>2
<1>4. ver[v].pages = <<>>
  BY <1>2, <1>3, EmptySeq DEF TypeInv, StoreType, Version
<1>5. PICK rows : rows = FreshRows(Len(s))
  OBVIOUS
<1>6. Listed(rows) /\ rows \in Seq(PageRow) /\ Len(rows) = Len(s) /\ Len(s) \in Nat
  BY <1>5, LenProperties, FreshRowsListed
<1>7. ver[v].pages \o rows = rows
  BY <1>4, <1>6, ConcatEmptySeq
<1>8. /\ ver'[v].doc = d /\ ver'[v].pages = rows /\ ver'[v].count = Len(s)
      /\ \A w \in VerIds \ {v} : ver'[w] = ver[w] /\ file'[w] = file[w]
      /\ file'[v] = Pdf(s)
  BY <1>1, <1>2, <1>5, <1>7 DEF FillVersion, TypeInv, StoreType
<1>9. Rowed(v)'
  <2>1. file'[v].pages = s
    BY <1>8 DEF Pdf
  <2>2. QED
    BY <1>2, <1>6, <1>8, <2>1 DEF Rowed
<1>10. \A w \in VerIds \ {v} : Rowed(w)'
  BY <1>8, RowedKept DEF RowsInv, RowsStay
<1>11. QED
  BY <1>1, <1>2, <1>6, <1>8, <1>9, <1>10

LEMMA TailRange ==
    ASSUME NEW S, NEW s \in Seq(S), s # <<>>, NEW j \in Range(s)
    PROVE  j = Head(s) \/ j \in Range(Tail(s))
<1>1. DOMAIN s = 1..Len(s) /\ Len(s) \in Nat \ {0}
  BY LenProperties, EmptySeq
<1>2. PICK k \in 1..Len(s) : s[k] = j
  BY <1>1 DEF Range
<1>3. CASE k = 1
  BY <1>2, <1>3
<1>4. CASE k # 1
  <2>1. Tail(s) \in Seq(S) /\ Len(Tail(s)) = Len(s) - 1
        /\ \A i \in 1..Len(Tail(s)) : Tail(s)[i] = s[i + 1]
    BY HeadTailProperties
  <2>2. PICK i \in Int : i = k - 1
    BY <1>1
  <2>3. i \in 1..Len(Tail(s)) /\ i + 1 = k
    BY <1>1, <1>4, <2>1, <2>2
  <2>4. Tail(s)[i] = j /\ DOMAIN Tail(s) = 1..Len(Tail(s))
    BY <1>2, <2>1, <2>3, LenProperties
  <2>5. QED
    BY <2>3, <2>4 DEF Range
<1>5. QED
  BY <1>3, <1>4

LEMMA RowsExtPages ==
    ASSUME TypeInv, TypeInv', HistoryInv, FreshInv, RowsInv, Persists, NEW r \in Reqs,
           ExtPages(r)
    PROVE  RowsInv'
<1>1. CASE Raise(r)
  BY <1>1, RowsRaise
<1>2. CASE ~Raise(r)
  <2>1. PICK p, q, s, b : p = req'[r] /\ q = req[r] /\ s = BatchPages(r) /\ b = Batch(r)
    OBVIOUS
  <2>2. /\ q.pc = "extPages" /\ Readable(q.old, Range(BatchNumbers(r)))
        /\ Others(r) /\ SameChoice(p, q) /\ p.todo = q.todo
        /\ p.pc \in {"error", "extText"}
        /\ \E v \in FillTarget(q.cur) : FillVersion(q.cur, v, s) /\ p.out = q.out \cup {v}
    BY <1>2, <2>1, ExtPagesRows
  <2>3. PICK v \in FillTarget(q.cur) : FillVersion(q.cur, v, s) /\ p.out = q.out \cup {v}
    BY <2>2
  <2>4. q.pc \in ExtPcs
    BY <2>2 DEF ExtPcs
  <2>5. Choice(q) /\ Choice(q)' /\ Progress(q)'
    BY <2>1, <2>4, StillChosen DEF RowsInv, Knows
  <2>6. /\ s \in Seq(Content)
        /\ \A j \in Range(b) : j \in DOMAIN file[q.old].pages /\ file[q.old].pages[j] \in Range(s)
    BY <2>1, <2>2, <2>5, BatchPagesAre
  <2>7. v \in VerIds /\ file'[v] = Pdf(s) /\ \A w \in VerIds : Rowed(w)'
    BY <2>1, <2>2, <2>3, <2>6, RowsFilled
  <2>8. CASE p.pc = "error"
    BY <2>1, <2>2, <2>7, <2>8, RowsQuiet DEF Stopped
  <2>9. CASE p.pc = "extText"
    <3>1. Choice(p)'
      BY <2>2, <2>5, ChoiceSame
    <3>2. p.items = q.items /\ p.doc = q.doc /\ p.old = q.old /\ p.op = q.op
      BY <2>2 DEF SameChoice
    <3>3. file'[v].kind # "none" /\ file'[v].pages = s
      BY <2>7 DEF Pdf
    <3>4. OutPages(q)' \subseteq OutPages(p)' /\ Range(s) \subseteq OutPages(p)'
      BY <2>3, <3>3 DEF OutPages
    <3>5. \A w \in p.out : w \in VerIds /\ file'[w].kind # "none"
      BY <2>3, <2>5, <2>7, <3>3 DEF Progress
    <3>6. \A j : Copied(q, j)' => Copied(p, j)'
      BY <3>2, <3>4 DEF Copied
    <3>7. file[q.old].kind = "pdf" /\ file'[q.old] = file[q.old]
      BY <2>2, <2>5 DEF Readable, Persists, Frozen, Choice
    <3>8. \A j \in Range(b) : Copied(p, j)'
      BY <2>6, <3>2, <3>4, <3>7 DEF Copied
    <3>9. ASSUME NEW j \in Range(q.todo) PROVE j \in Remaining(p) \/ Copied(p, j)'
      <4>1. q.todo \in Seq(DOMAIN q.rows) /\ q.todo # <<>>
        BY <2>1, <2>2, LocalsOf DEF LocalsAt
      <4>2. CASE q.op = "extract_one"
        <5>1. b = <<Head(q.todo)>> /\ Remaining(p) = Range(Tail(q.todo))
          BY <2>1, <2>2, <2>9, <3>2, <4>2 DEF Batch, Remaining
        <5>2. Head(q.todo) \in Range(b)
          BY <5>1 DEF Range
        <5>3. j = Head(q.todo) \/ j \in Range(Tail(q.todo))
          BY <4>1, TailRange
        <5>4. QED
          BY <3>8, <5>1, <5>2, <5>3
      <4>3. CASE q.op # "extract_one"
        BY <2>1, <3>8, <4>3 DEF Batch
      <4>4. QED
        BY <4>2, <4>3
    <3>10. Remaining(q) = Range(q.todo)
      BY <2>2 DEF Remaining
    <3>11. Progress(p)'
      BY <2>2, <2>5, <2>9, <3>2, <3>5, <3>6, <3>9, <3>10 DEF Progress
    <3>12. Knows(p)'
      BY <2>9, <3>1, <3>11 DEF Knows, Copying, SrcPcs, DstPcs
    <3>13. QED
      BY <2>1, <2>2, <2>7, <3>12, RowsStep
  <2>10. QED
    BY <2>2, <2>8, <2>9
<1>3. QED
  BY <1>1, <1>2

LEMMA ExtTextRows ==
    ASSUME TypeInv, NEW r \in Reqs, ExtText(r)
    PROVE  /\ req[r].pc = "extText" /\ Others(r) /\ UNCHANGED file
           /\ SameChoice(req'[r], req[r]) /\ req'[r].out = req[r].out
           /\ \A v \in VerIds : RowsStay(v)
           /\ \/ req'[r].pc = "error"
              \/ req[r].op # "extract_one" /\ req'[r].pc = "extNotify"
              \/ /\ req[r].op = "extract_one" /\ req'[r].todo = Tail(req[r].todo)
                 /\ req'[r].pc = IF Len(req[r].todo) = 1 THEN "extNotify" ELSE "extDoc"
<1>1. req[r].pc = "extText" /\ UNCHANGED file
  BY DEF ExtText, At
<1>2. CASE Goto(r, "error") /\ UNCHANGED store
  BY <1>1, <1>2, GotoEffect, StoreStays DEF store
<1>3. CASE req[r].op = "extract_all" /\ Goto(r, "extNotify") /\ UNCHANGED store
  BY <1>1, <1>3, GotoEffect, StoreStays DEF store
<1>4. CASE /\ req[r].op = "extract_one"
           /\ \E v \in VersionsOf(req[r].cur) : CopyText(req[r].rows, Range(Batch(r)), v)
           /\ req' = [req EXCEPT ![r].todo = Tail(@),
                        ![r].pc = IF Len(req[r].todo) = 1 THEN "extNotify" ELSE "extDoc"]
  <2>1. PICK pc : pc = IF Len(req[r].todo) = 1 THEN "extNotify" ELSE "extDoc"
    OBVIOUS
  <2>2. PICK p : p = [req[r] EXCEPT !.todo = Tail(req[r].todo), !.pc = pc]
    OBVIOUS
  <2>3. req' = [req EXCEPT ![r] = p]
    BY <1>4, <2>1, <2>2 DEF TypeInv
  <2>4. Others(r) /\ req'[r] = p
    BY <2>3, OneChanged
  <2>5. /\ SameChoice(p, req[r]) /\ p.out = req[r].out /\ p.pc = pc
        /\ p.todo = Tail(req[r].todo)
    BY <2>2, LocalsOf DEF Request, SameChoice
  <2>6. \A v \in VerIds : RowsStay(v)
    BY <1>4, TextStays
  <2>7. QED
    BY <1>1, <1>4, <2>1, <2>4, <2>5, <2>6
<1>5. QED
  BY <1>2, <1>3, <1>4 DEF ExtText

LEMMA RowsExtText ==
    ASSUME TypeInv, TypeInv', HistoryInv, FreshInv, RowsInv, Persists, NEW r \in Reqs,
           ExtText(r)
    PROVE  RowsInv'
<1>1. PICK p, q : p = req'[r] /\ q = req[r]
  OBVIOUS
<1>2. /\ q.pc = "extText" /\ Others(r) /\ UNCHANGED file
      /\ SameChoice(p, q) /\ p.out = q.out
      /\ \A v \in VerIds : RowsStay(v)
      /\ \/ p.pc = "error"
         \/ q.op # "extract_one" /\ p.pc = "extNotify"
         \/ /\ q.op = "extract_one" /\ p.todo = Tail(q.todo)
            /\ p.pc = IF Len(q.todo) = 1 THEN "extNotify" ELSE "extDoc"
  BY <1>1, ExtTextRows
<1>3. \A v \in VerIds : Rowed(v)'
  BY <1>2, RowedKept DEF RowsInv
<1>4. CASE p.pc = "error"
  BY <1>1, <1>2, <1>3, <1>4, RowsQuiet DEF Stopped
<1>5. CASE p.pc \in {"extNotify", "extDoc"}
  <2>1. q.pc \in ExtPcs
    BY <1>2 DEF ExtPcs
  <2>2. Choice(q)' /\ Progress(q)'
    BY <1>1, <2>1, StillChosen
  <2>3. Choice(p)'
    BY <1>2, <2>2, ChoiceSame
  <2>4. p.items = q.items /\ p.doc = q.doc /\ p.old = q.old /\ p.op = q.op
    BY <1>2 DEF SameChoice
  <2>5. OutPages(p)' = OutPages(q)'
    BY <1>2 DEF OutPages
  <2>6. \A j : Copied(q, j)' => Copied(p, j)'
    BY <2>4, <2>5 DEF Copied
  <2>7. Remaining(q) \subseteq Remaining(p)
    <3>1. CASE q.op # "extract_one"
      BY <1>2, <3>1 DEF Remaining
    <3>2. CASE q.op = "extract_one"
      <4>1. Remaining(q) = Range(Tail(q.todo)) /\ p.todo = Tail(q.todo)
        BY <1>2, <1>5, <3>2 DEF Remaining
      <4>2. CASE p.pc = "extDoc"
        BY <4>1, <4>2 DEF Remaining
      <4>3. CASE p.pc = "extNotify"
        <5>1. q.todo \in Seq(DOMAIN q.rows) /\ q.todo # <<>> /\ Len(q.todo) = 1
          BY <1>1, <1>2, <1>5, <3>2, <4>3, LocalsOf DEF LocalsAt
        <5>2. PICK s, S : s = q.todo /\ S = DOMAIN q.rows
          OBVIOUS
        <5>3. Tail(s) \in Seq(S) /\ Len(Tail(s)) = Len(s) - 1
          BY <5>1, <5>2, HeadTailProperties
        <5>4. Tail(s) = <<>>
          <6>1. Len(Tail(s)) = 0
            BY <5>1, <5>2, <5>3
          <6>2. QED
            BY <5>3, <6>1, EmptySeq
        <5>5. Range(Tail(q.todo)) = {}
          BY <5>2, <5>4 DEF Range
        <5>6. QED
          BY <4>1, <5>5
      <4>4. QED
        BY <1>5, <4>2, <4>3
    <3>3. QED
      BY <3>1, <3>2
  <2>8. Progress(p)'
    BY <1>2, <1>5, <2>2, <2>4, <2>6, <2>7 DEF Progress
  <2>9. Knows(p)'
    BY <1>5, <2>3, <2>8 DEF Knows, Copying, SrcPcs, DstPcs
  <2>10. QED
    BY <1>1, <1>2, <1>3, <2>9, RowsStep
<1>6. QED
  BY <1>2, <1>4, <1>5

LEMMA RowsExtNotify ==
    ASSUME TypeInv, TypeInv', HistoryInv, FreshInv, RowsInv, Persists, NEW r \in Reqs,
           ExtNotify(r)
    PROVE  RowsInv'
<1>1. PICK p, q : p = req'[r] /\ q = req[r]
  OBVIOUS
<1>2. PICK pc : /\ Goto(r, pc) /\ pc \in {"error", "done", "purge"}
                /\ pc = "purge" => AllChosen(r)
  BY DEF ExtNotify
<1>3. q.pc = "extNotify" /\ UNCHANGED <<store, file>>
  BY <1>1 DEF ExtNotify, At
<1>4. \A v \in VerIds : RowsStay(v)
  BY <1>3, StoreStays DEF store
<1>5. CASE pc # "purge"
  BY <1>2, <1>3, <1>4, <1>5, RowsStop DEF Stopped
<1>6. CASE pc = "purge"
  <2>1. /\ Others(r) /\ p.pc = pc /\ SameChoice(p, q) /\ p.out = q.out
    BY <1>1, <1>2, GotoEffect
  <2>2. q.pc \in ExtPcs
    BY <1>3 DEF ExtPcs
  <2>3. Choice(q) /\ Progress(q) /\ Choice(q)' /\ Progress(q)'
    BY <1>1, <2>2, StillChosen DEF RowsInv, Knows
  <2>4. p.items = q.items /\ p.doc = q.doc /\ p.old = q.old
    BY <2>1 DEF SameChoice
  <2>5. Choice(p)'
    BY <2>1, <2>3, ChoiceSame
  <2>6. ASSUME q.doc \in live
        PROVE  file[q.old].kind = "pdf" /\ Range(file[q.old].pages) \subseteq OutPages(q)
    <3>1. \A j \in Range(q.items) : Copied(q, j)
      BY <1>3, <2>3, <2>6 DEF Progress, Remaining
    <3>2. q \in Request /\ q.items \in Seq(DOMAIN q.rows) /\ Len(q.rows) = Len(q.items)
      BY <1>1, <1>2, <1>6, LocalsOf DEF LocalsAt, AllChosen
    <3>3. Range(q.items) # {}
      <4>1. DOMAIN q.items = 1..Len(q.items) /\ Len(q.items) \in Nat \ {0}
        BY <2>3, <3>2, LenProperties, EmptySeq DEF Choice
      <4>2. q.items[1] \in Range(q.items)
        BY <4>1 DEF Range
      <4>3. QED
        BY <4>2
    <3>4. file[q.old].kind = "pdf"
      BY <3>1, <3>3 DEF Copied
    <3>5. DOMAIN file[q.old].pages \subseteq Range(q.items)
      BY <2>3, <2>6, <3>2, <3>4, AllRowsChosen
    <3>6. QED
      BY <3>1, <3>4, <3>5 DEF Copied, Range
  <2>7. OutPages(p)' = OutPages(q) /\ live' = live
    BY <1>3, <2>1 DEF OutPages, store
  <2>8. Progress(p)'
    BY <1>3, <1>6, <2>1, <2>3, <2>4, <2>6, <2>7 DEF Progress
  <2>9. Knows(p)'
    BY <1>6, <2>1, <2>5, <2>8 DEF Knows, Copying, SrcPcs, DstPcs
  <2>10. \A v \in VerIds : Rowed(v)'
    BY <1>3, <1>4, RowedKept DEF RowsInv
  <2>11. QED
    BY <1>1, <2>1, <2>9, <2>10, RowsStep
<1>7. QED
  BY <1>5, <1>6

-----------------------------------------------------------------------------
(* PurgeAfterCopy *)

\* What PurgeAfterCopy says of a step.
Purged ==
    \A r \in Reqs : At(r, "purge") /\ req[r].doc \in live \ live' =>
        Range(file[req[r].old].pages) \subseteq UNION {Range(file[v].pages) : v \in req[r].out}

LEMMA RowsNext ==
    ASSUME UploadOps \cap Ops = {}, TypeInv, TypeInv', HistoryInv, FreshInv, RowsInv, [Next]_vars
    PROVE  RowsInv'
<1>1. Persists
  BY PersistsNext DEF RowsInv
<1>2. ASSUME NEW r \in Reqs, Step(r) PROVE RowsInv'
  <2>1. ~(UpFile(r) \/ UpCommit(r) \/ UpNotify(r))
    BY DEF FreshInv, UpPcs, UpFile, UpCommit, UpNotify, At
  <2>2. QED
    BY <1>1, <1>2, <2>1, RowsRead, RowsSrcInsert, RowsSrcPdf, RowsDstInsert, RowsDstPdf,
       RowsGoesOn, RowsExtRead, RowsExtDoc, RowsExtPages, RowsExtText, RowsExtNotify DEF Step
<1>3. ASSUME NEW v \in VerIds, OcrDone(v) PROVE RowsInv'
  <2>1. UNCHANGED <<req, file>>
    BY <1>3 DEF OcrDone
  <2>2. QED
    BY <1>1, <1>3, <2>1, OcrStays, RowsSame
<1>4. CASE UNCHANGED vars
  BY <1>1, <1>4, StoreStays, RowsSame DEF vars
<1>5. QED
  BY <1>1, <1>2, <1>3, <1>4, RowsBegin, RowsGoesOn DEF Next

LEMMA RowsInit == Init => RowsInv
<1> SUFFICES ASSUME Init PROVE RowsInv
  OBVIOUS
<1>1. \A r \in Reqs : req[r] = NoRequest /\ req[r].pc = "idle"
  BY DEF Init, NoRequest
<1>2. \A r \in Reqs : Knows(req[r])
  BY <1>1 DEF Knows, Copying, SrcPcs, DstPcs, ExtPcs
<1>3. ASSUME NEW v \in VerIds PROVE Rowed(v)
  <2>1. CASE v \in DOMAIN Initial
    <3>1. Initial[v].doc \in Docs /\ Initial[v].pages \in Seq(Content)
          /\ Len(Initial[v].pages) \in Nat
      BY <2>1, InitialType, LenProperties
    <3>2. /\ ver[v].pages = FreshRows(Len(Initial[v].pages)) /\ ver[v].doc = Initial[v].doc
          /\ file[v] = Pdf(Initial[v].pages)
      BY <2>1 DEF Init
    <3>3. file[v].pages = Initial[v].pages
      BY <3>2 DEF Pdf
    <3>4. QED
      BY SMTT(30), <3>1, <3>2, <3>3, FreshRowsListed, DocsAssumption DEF Rowed
  <2>2. CASE v \notin DOMAIN Initial
    <3>1. ver[v] = NoVersion
      BY <2>2 DEF Init
    <3>2. ver[v].doc = NoDoc /\ ver[v].pages = <<>>
      BY <3>1 DEF NoVersion
    <3>3. QED
      BY <3>2, EmptySeqType, EmptySeq DEF Rowed, Listed
  <2>3. QED
    BY <2>1, <2>2
<1>4. QED
  BY <1>2, <1>3 DEF RowsInv

LEMMA PurgesCopied == RowsInv => Purged
<1> SUFFICES ASSUME RowsInv PROVE Purged
  OBVIOUS
<1>1. ASSUME NEW r \in Reqs, At(r, "purge"), req[r].doc \in live
      PROVE  Range(file[req[r].old].pages) \subseteq OutPages(req[r])
  BY <1>1 DEF RowsInv, Knows, Progress, At
<1>2. QED
  BY <1>1 DEF Purged, OutPages

\* Without uploads, a handler that moved or extracted all pages of a version deletes
\* the source document only when each page of the source file is in a file it wrote for
\* the target: however many requests overlap, whichever version the pages were chosen
\* from, and wherever other handlers die or documents are deleted meanwhile.
THEOREM PurgesAfterCopy ==
    ASSUME UploadOps \cap Ops = {}
    PROVE  Spec => PurgeAfterCopy
<1>1. TypeInv /\ TypeInv' /\ HistoryInv /\ [Next]_vars => HistoryInv'
  BY HistoryNext
<1>2. TypeInv /\ TypeInv' /\ HistoryInv /\ FreshInv /\ [Next]_vars => FreshInv'
  BY FreshNext
<1>3. TypeInv /\ TypeInv' /\ HistoryInv /\ FreshInv /\ RowsInv /\ [Next]_vars => RowsInv'
  BY RowsNext
<1>4. RowsInv => [Purged]_vars
  BY PurgesCopied
<1>5. Spec => [][Purged]_vars
  BY <1>1, <1>2, <1>3, <1>4, HistoryInit, FreshInit, RowsInit, TypeInvariant, PTL DEF Spec
<1>6. QED
  BY <1>5 DEF PurgeAfterCopy, Purged

-----------------------------------------------------------------------------
(* LastVersionViewable *)

\* Version v has one row per page of its file, and page_count says so.
Whole(v) == Len(ver[v].pages) = Len(file[v].pages) /\ ver[v].count = Len(ver[v].pages)

AtWork == SrcPcs \cup DstPcs \cup ExtPcs \cup {"purge"}

\* Request q takes all pages of its source elsewhere: version_bump gives the version
\* without them the rows of the last one, until the source is deleted.
Emptied(q) == q.pc \in AtWork /\ q.op # "apply" /\ Len(q.rows) = Len(q.items)

\* Version v has its rows already, and request q is going to write its file or to
\* delete its document.
Unfinished(q, v) ==
    \/ q.pc = "srcPdf" /\ v = q.new
    \/ q.pc = "dstPdf" /\ v = q.dnew
    \/ Emptied(q) /\ ver[v].doc = q.doc

SrcSize(q) == IF q.op = "apply" THEN Len(q.items) ELSE Len(q.rows) - Len(q.items)
DstSize(q) == IF q.op = "mix" THEN q.dlen + Len(q.items) ELSE Len(q.items)

\* The versions request q takes pages from, and puts pages into.
Sources(q) ==
    /\ q.pc \in AtWork => ver[q.old].doc = q.doc /\ Whole(q.old)
    /\ q.pc \in SrcPcs \cup DstPcs /\ q.op \in MoveOps =>
          ver[q.dst].doc = q.into /\ Whole(q.dst)

\* Version v was made for n pages.
MadeFor(v, n) == ver[v].count = n /\ Len(ver[v].pages) = n

\* The versions request q makes.
Makes(q) ==
    /\ q.pc = "srcPdf" /\ SrcSize(q) # 0 => MadeFor(q.new, SrcSize(q))
    /\ q.pc = "dstPdf" => MadeFor(q.dnew, DstSize(q))
    /\ q.pc = "dstNotify" => Len(q.rows) # Len(q.items)

Sees(q) == Sources(q) /\ Makes(q)

Shown(q) == \A v \in VerIds : ver[v].doc # NoDoc => Whole(v) \/ Unfinished(q, v)

AllWhole == \A v \in VerIds : ver[v].doc # NoDoc => Whole(v)

\* No request was cut off.
Clean == \A r \in Reqs : req[r].pc \notin {"error", "crashed"}

FilesEmpty == \A v \in VerIds : file[v].kind = "none" => file[v].pages = <<>>

ViewInv ==
    /\ FilesEmpty
    /\ Clean => /\ \A r \in Reqs : Working(req[r]) => Shown(req[r]) /\ Sees(req[r])
                /\ (\A r \in Reqs : ~Working(req[r])) => AllWhole

\* The invariants the steps rely on.
Known ==
    /\ TypeInv /\ TypeInv' /\ HistoryInv /\ FreshInv /\ RowsInv /\ NumInv /\ ViewInv

-----------------------------------------------------------------------------
(* LastVersionViewable: versions that stay as they are *)

\* A step changes nothing of version v but texts.
Intact(v) ==
    /\ file'[v] = file[v] /\ ver'[v].doc = ver[v].doc /\ ver'[v].count = ver[v].count
    /\ Len(ver'[v].pages) = Len(ver[v].pages)

LEMMA IntactWhole ==
    ASSUME NEW v \in VerIds, Intact(v)
    PROVE  Whole(v) <=> Whole(v)'
BY DEF Intact, Whole

LEMMA SameIntact ==
    ASSUME UNCHANGED <<ver, file>>
    PROVE  \A v \in VerIds : Intact(v)
BY DEF Intact

LEMMA WorkingOn ==
    ASSUME ViewInv, Clean', NEW r \in Reqs, Solo(r), Working(req[r])
    PROVE  Shown(req[r]) /\ Sees(req[r])
<1>1. Clean
  BY DEF Clean, Solo, Others, Working, Stopped
<1>2. QED
  BY <1>1 DEF ViewInv

\* A request goes on, or begins.
LEMMA ViewStep ==
    ASSUME FilesEmpty', NEW r \in Reqs, Solo(r), NEW q, q = req'[r], Working(q),
           Clean' => Shown(q)' /\ Sees(q)'
    PROVE  ViewInv'
<1>1. \A p \in Reqs \ {r} : ~Working(req'[p])
  BY DEF Solo, Others
<1>2. Clean' => Shown(req[r])' /\ Sees(req[r])'
  OBVIOUS
<1>3. Working(req'[r])
  OBVIOUS
<1>4. QED
  BY <1>1, <1>2, <1>3 DEF ViewInv, Working

\* A request ends.
LEMMA ViewEnd ==
    ASSUME FilesEmpty', NEW r \in Reqs, Solo(r), req'[r].pc \in Stopped, Clean' => AllWhole'
    PROVE  ViewInv'
<1>1. \A p \in Reqs : ~Working(req'[p])
  BY DEF Solo, Others, Working
<1>2. QED
  BY <1>1 DEF ViewInv, Working

\* A request is cut off.
LEMMA ViewCut ==
    ASSUME FilesEmpty', NEW r \in Reqs, req'[r].pc \in {"error", "crashed"}
    PROVE  ViewInv'
BY DEF ViewInv, Clean

LEMMA ViewStop ==
    ASSUME TypeInv, ViewInv, NEW r \in Reqs, UNCHANGED file, req'[r].pc \in {"error", "crashed"}
    PROVE  ViewInv'
BY ViewCut DEF ViewInv, FilesEmpty

LEMMA IntactEmpty ==
    ASSUME ViewInv, UNCHANGED file
    PROVE  FilesEmpty'
BY DEF ViewInv, FilesEmpty

\* What a request takes pages from has pages, and so a file.
LEMMA SourceFile ==
    ASSUME Known, NEW r \in Reqs, NEW q, q = req[r], q.pc \in AtWork, Sources(q)
    PROVE  /\ Choice(q) /\ q.doc \in live /\ q.old \in VerIds /\ q.old < nextVer
           /\ Len(file[q.old].pages) = Len(q.rows) /\ file[q.old].kind # "none"
           /\ Len(q.items) \in Nat \ {0} /\ Len(q.rows) \in Nat /\ Len(q.items) <= Len(q.rows)
<1>1. Choice(q) /\ q.doc # NoDoc /\ q.old \in VerIds /\ q.items # <<>>
  BY DEF Known, AtWork, RowsInv, Knows, Choice
<1>2. q.doc \in live
  BY <1>1 DEF Known, HistoryInv, Cascaded, Sources
<1>3. Len(file[q.old].pages) = Len(q.rows)
  BY <1>1, <1>2 DEF Choice, Sources, Whole
<1>4. q \in Request /\ LocalsAt(q.pc, q)
  BY LocalsOf DEF Known
<1>5. Len(q.items) \in Nat \ {0} /\ Len(q.rows) \in Nat /\ Len(q.items) <= Len(q.rows)
  BY <1>1, <1>4, LenProperties, EmptySeq DEF LocalsAt, Request
<1>6. file[q.old].kind # "none"
  <2>1. file[q.old].pages # <<>>
    BY <1>3, <1>5, EmptySeq
  <2>2. QED
    BY <1>1, <2>1 DEF Known, ViewInv, FilesEmpty
<1>7. q.old < nextVer
  BY DEF Known, HistoryInv, History
<1>8. QED
  BY <1>1, <1>2, <1>3, <1>5, <1>6, <1>7

LEMMA TargetFile ==
    ASSUME Known, NEW r \in Reqs, NEW q, q = req[r], q.pc \in SrcPcs \cup DstPcs,
           q.op \in MoveOps, Sources(q)
    PROVE  /\ Destination(q) /\ q.into \in live /\ q.dst \in VerIds /\ q.dst < nextVer
           /\ file[q.dst].kind # "none"
<1>1. Destination(q) /\ q.into # NoDoc
  BY DEF Known, RowsInv, Knows, Destination
<1>2. q.dst \in VerIds
  BY LocalsOf DEF Known, LocalsAt
<1>3. q.into \in live
  BY <1>1, <1>2 DEF Known, HistoryInv, Cascaded, Sources
<1>4. Len(file[q.dst].pages) # 0
  BY <1>1, <1>3 DEF Destination, Sources, Whole
<1>5. file[q.dst].kind # "none"
  BY <1>2, <1>4, EmptySeqType DEF Known, ViewInv, FilesEmpty
<1>6. q.dst < nextVer
  BY DEF Known, HistoryInv, History
<1>7. QED
  BY <1>1, <1>2, <1>3, <1>5, <1>6

\* A step that leaves every version alone that has a file.
LEMMA SourcesKept ==
    ASSUME Known, NEW r \in Reqs, NEW p, p = req[r], NEW q, SameChoice(q, p), Sources(p),
           p.pc \in AtWork, q.pc \in SrcPcs \cup DstPcs => p.pc \in SrcPcs \cup DstPcs,
           \A v \in VerIds : file[v].kind # "none" => Intact(v)
    PROVE  Sources(q)'
<1>1. /\ p.old \in VerIds /\ Intact(p.old) /\ Whole(p.old) /\ ver[p.old].doc = p.doc
  BY SourceFile DEF Sources
<1>2. ver'[p.old].doc = p.doc /\ Whole(p.old)'
  BY <1>1, IntactWhole DEF Intact
<1>3. ASSUME q.pc \in SrcPcs \cup DstPcs, q.op \in MoveOps
      PROVE  ver'[p.dst].doc = p.into /\ Whole(p.dst)'
  <2>1. p.op \in MoveOps /\ p.pc \in SrcPcs \cup DstPcs
    BY <1>3 DEF SameChoice
  <2>2. p.dst \in VerIds /\ Intact(p.dst) /\ Whole(p.dst) /\ ver[p.dst].doc = p.into
    BY <2>1, TargetFile DEF Sources
  <2>3. QED
    BY <2>2, IntactWhole DEF Intact
<1>4. q.old = p.old /\ q.doc = p.doc /\ q.dst = p.dst /\ q.into = p.into
  BY DEF SameChoice
<1>5. Whole(q.old)' /\ ver'[q.old].doc = q.doc
  BY <1>2, <1>4
<1>6. QED
  BY <1>3, <1>4, <1>5 DEF Sources

-----------------------------------------------------------------------------
(* LastVersionViewable: the steps of a page operation *)

\* A step of a page operation writes at most to versions W, which have no file yet.
LEMMA ViewGoesOn ==
    ASSUME Known, FilesEmpty', NEW r \in Reqs, Solo(r), NEW p, NEW q, p = req[r], q = req'[r],
           SameChoice(q, p), p.pc \in AtWork, q.pc \in AtWork,
           q.pc \in SrcPcs \cup DstPcs => p.pc \in SrcPcs \cup DstPcs,
           NEW W \in SUBSET VerIds, \A w \in W : file[w].kind = "none",
           \A v \in VerIds \ W : Intact(v),
           p.pc = "srcPdf" => p.new \in W, p.pc = "dstPdf" => p.dnew \in W,
           Clean' => /\ \A w \in W : ver'[w].doc # NoDoc => Whole(w)' \/ Unfinished(q, w)'
                     /\ Makes(q)'
    PROVE  ViewInv'
<1>1. Working(p) /\ Working(q)
  BY DEF Working, AtWork, Stopped, SrcPcs, DstPcs, ExtPcs
<1>2. ASSUME Clean' PROVE Shown(q)' /\ Sees(q)'
  <2>1. Shown(p) /\ Sees(p)
    BY <1>1, <1>2, WorkingOn DEF Known
  <2>2. Sources(q)'
    BY <2>1, SourcesKept DEF Sees
  <2>3. ASSUME NEW v \in VerIds \ W, ver'[v].doc # NoDoc
        PROVE  Whole(v)' \/ Unfinished(q, v)'
    <3>1. Intact(v) /\ ver[v].doc = ver'[v].doc
      BY DEF Intact
    <3>2. CASE Whole(v)
      BY <3>1, <3>2, IntactWhole
    <3>3. CASE Unfinished(p, v)
      <4>1. Emptied(p) /\ ver[v].doc = p.doc
        BY <3>3 DEF Unfinished
      <4>2. QED
        BY <3>1, <4>1 DEF Unfinished, Emptied, SameChoice
    <3>4. QED
      BY <2>1, <2>3, <3>1, <3>2, <3>3 DEF Shown
  <2>4. Shown(q)'
    BY <1>2, <2>3 DEF Shown
  <2>5. QED
    BY <1>2, <2>2, <2>4 DEF Sees
<1>3. QED
  BY <1>1, <1>2, ViewStep

\* A step that writes nothing but texts.
LEMMA ViewMoves ==
    ASSUME Known, NEW r \in Reqs, Solo(r), NEW p, NEW q, p = req[r], q = req'[r],
           SameChoice(q, p), p.pc \in AtWork \ {"srcPdf", "dstPdf"},
           q.pc \in AtWork \ {"srcPdf", "dstPdf", "dstNotify"},
           q.pc \in SrcPcs \cup DstPcs => p.pc \in SrcPcs \cup DstPcs,
           UNCHANGED file, \A v \in VerIds : Intact(v)
    PROVE  ViewInv'
<1>1. FilesEmpty'
  BY IntactEmpty DEF Known
<1>2. Makes(q)'
  BY DEF Makes
<1>3. PICK W \in SUBSET VerIds : W = {}
  OBVIOUS
<1>4. QED
  BY <1>1, <1>2, <1>3, ViewGoesOn

\* The end of a request that has not emptied its source.
LEMMA ViewEnds ==
    ASSUME Known, NEW r \in Reqs, Solo(r), NEW p, p = req[r], Working(p),
           p.pc \notin {"srcPdf", "dstPdf"}, Clean' => ~Emptied(p), req'[r].pc \in Stopped,
           UNCHANGED file, \A v \in VerIds : Intact(v)
    PROVE  ViewInv'
<1>1. FilesEmpty'
  BY IntactEmpty DEF Known
<1>2. ASSUME Clean', NEW v \in VerIds, ver'[v].doc # NoDoc PROVE Whole(v)'
  <2>1. Shown(p) /\ Intact(v) /\ ver[v].doc # NoDoc
    BY <1>2, WorkingOn DEF Known, Intact
  <2>2. Whole(v)
    BY <1>2, <2>1 DEF Shown, Unfinished
  <2>3. QED
    BY <2>1, <2>2, IntactWhole
<1>3. QED
  BY <1>1, <1>2, ViewEnd DEF AllWhole

\* The document of the request is deleted.
LEMMA ViewDrops ==
    ASSUME Known, NEW r \in Reqs, Solo(r), NEW p, NEW q, p = req[r], q = req'[r],
           p.pc \in {"purge", "delCommit"}, q.pc \in {"done", "delNotify"},
           UNCHANGED file, DropDocument(p.doc)
    PROVE  ViewInv'
<1>1. FilesEmpty'
  BY IntactEmpty DEF Known
<1>2. ASSUME Clean', NEW v \in VerIds, ver'[v].doc # NoDoc PROVE Whole(v)'
  <2>1. Shown(p)
    BY <1>2, WorkingOn DEF Known, Working, Stopped
  <2>2. ver'[v] = ver[v] /\ ver[v].doc # p.doc
    BY <1>2 DEF DropDocument, NoVersion
  <2>3. Whole(v) /\ Intact(v)
    BY <1>2, <2>1, <2>2 DEF Shown, Unfinished, Intact
  <2>4. QED
    BY <2>3, IntactWhole
<1>3. CASE q.pc = "done"
  BY <1>1, <1>2, <1>3, ViewEnd DEF AllWhole, Stopped
<1>4. CASE q.pc = "delNotify"
  <2>1. Working(q) /\ Sees(q)'
    BY <1>4 DEF Working, Stopped, Sees, Sources, Makes, AtWork, SrcPcs, DstPcs, ExtPcs
  <2>2. Clean' => Shown(q)'
    BY <1>2 DEF Shown
  <2>3. QED
    BY <1>1, <2>1, <2>2, ViewStep
<1>5. QED
  BY <1>3, <1>4

LEMMA ViewRaise ==
    ASSUME Known, NEW r \in Reqs, Raise(r)
    PROVE  ViewInv'
BY PcChanged, ViewStop DEF Known, Raise

\* Where only texts are written, versions stay as they are.
LEMMA TextsIntact ==
    ASSUME Known, OnlyPages, UNCHANGED file, \A v \in VerIds : RowsStay(v)
    PROVE  \A v \in VerIds : Intact(v)
<1>1. ASSUME NEW v \in VerIds PROVE Len(ver'[v].pages) = Len(ver[v].pages)
  <2>1. CASE ver'[v] = NoVersion
    BY <2>1, EmptySeqType DEF OnlyPages, Known, RowsInv, Rowed, NoVersion
  <2>2. CASE ver'[v] # NoVersion
    <3>1. ver[v].pages \in Seq(PageRow) /\ ver'[v].pages \in Seq(PageRow)
      BY DEF Known, TypeInv, StoreType, Version
    <3>2. DOMAIN ver'[v].pages = DOMAIN ver[v].pages
      BY <2>2 DEF RowsStay
    <3>3. QED
      BY <3>1, <3>2, SameLength
  <2>3. QED
    BY <2>1, <2>2
<1>2. QED
  BY <1>1 DEF Intact, OnlyPages

LEMMA ViewRead ==
    ASSUME Known, NEW r \in Reqs, Solo(r), SrcRead(r) \/ DstRead(r)
    PROVE  ViewInv'
<1>1. CASE Raise(r)
  BY <1>1, ViewRaise
<1>2. CASE ~Raise(r)
  <2>1. PICK d, next : /\ BumpRead(r, d, next)
                       /\ \/ req[r].pc = "srcRead" /\ next = "srcInsert"
                          \/ req[r].pc = "dstRead" /\ next = "dstInsert"
    BY <1>2 DEF SrcRead, DstRead, At
  <2>2. PICK p, q : q = req'[r] /\ p = req[r]
    OBVIOUS
  <2>3. UNCHANGED <<store, file>> /\ SameChoice(q, p) /\ q.pc = next
    BY <1>2, <2>1, <2>2, BumpReadRows DEF Known
  <2>4. p.pc \in AtWork \ {"srcPdf", "dstPdf"} /\ q.pc \in AtWork \ {"srcPdf", "dstPdf", "dstNotify"}
        /\ p.pc \in SrcPcs \cup DstPcs
    BY <2>1, <2>2, <2>3 DEF AtWork, SrcPcs, DstPcs
  <2>5. \A v \in VerIds : Intact(v)
    BY <2>3, SameIntact DEF store
  <2>6. QED
    BY <2>2, <2>3, <2>4, <2>5, ViewMoves
<1>3. QED
  BY <1>1, <1>2

\* A handler goes from one point to the next and writes nothing but texts.
LEMMA ViewGoto ==
    ASSUME Known, NEW r \in Reqs, Solo(r), NEW pc, Goto(r, pc), UNCHANGED file,
           \A v \in VerIds : Intact(v), req[r].pc \in AtWork \ {"srcPdf", "dstPdf"},
           pc \in AtWork \ {"srcPdf", "dstPdf", "dstNotify"},
           pc \in SrcPcs \cup DstPcs => req[r].pc \in SrcPcs \cup DstPcs
    PROVE  ViewInv'
<1>1. PICK p, q : q = req'[r] /\ p = req[r]
  OBVIOUS
<1>2. SameChoice(q, p) /\ q.pc = pc
  BY <1>1, GotoEffect DEF Known
<1>3. QED
  BY <1>1, <1>2, ViewMoves

LEMMA ViewSrcText ==
    ASSUME Known, NEW r \in Reqs, Solo(r), SrcText(r)
    PROVE  ViewInv'
<1>1. PICK S : CopyText(req[r].rows, S, req[r].new)
  BY DEF SrcText
<1>2. req[r].pc = "srcText" /\ Goto(r, "srcNotify") /\ UNCHANGED file
  BY DEF SrcText, At
<1>3. \A v \in VerIds : Intact(v)
  BY <1>1, <1>2, CopyOnly, TextStays, TextsIntact DEF Known
<1>4. req[r].pc \in AtWork /\ "srcNotify" \in AtWork /\ req[r].pc \in SrcPcs
  BY <1>2 DEF AtWork, SrcPcs
<1>5. QED
  BY <1>2, <1>3, <1>4, ViewGoto

LEMMA ViewNotify ==
    ASSUME Known, NEW r \in Reqs, Solo(r), SrcNotify(r) \/ DstNotify(r) \/ DelNotify(r)
    PROVE  ViewInv'
<1>0. UNCHANGED <<ver, file>>
  BY DEF SrcNotify, DstNotify, DelNotify, store
<1>1. \A v \in VerIds : Intact(v)
  BY <1>0, SameIntact
<1>2. CASE SrcNotify(r) /\ req[r].op # "apply"
  <2>1. req[r].pc = "srcNotify" /\ req[r].op \in MoveOps \cup ExtractOps
    BY <1>2, LocalsOf DEF SrcNotify, At, LocalsAt, SrcPcs, Choosers, Known
  <2>2. PICK pc : Goto(r, pc) /\ pc \in {"dstRead", "extRead"}
    BY <1>2 DEF SrcNotify
  <2>3. req[r].pc \in AtWork /\ pc \in AtWork \ {"dstNotify"} /\ req[r].pc \in SrcPcs
    BY <2>1, <2>2 DEF AtWork, SrcPcs, DstPcs, ExtPcs
  <2>4. QED
    BY <1>0, <1>1, <2>1, <2>2, <2>3, ViewGoto
<1>3. CASE (SrcNotify(r) /\ req[r].op = "apply") \/ DstNotify(r) \/ DelNotify(r)
  <2>1. PICK p : p = req[r]
    OBVIOUS
  <2>2. req'[r].pc = "done"
    <3>1. CASE SrcNotify(r) /\ req[r].op = "apply"
      <4>1. Goto(r, "done")
        <5>1. PICK pc : pc = CASE req[r].op = "apply" -> "done"
                               [] req[r].op \in MoveOps -> "dstRead"
                               [] OTHER -> "extRead"
          OBVIOUS
        <5>2. pc = "done"
          BY <3>1, <5>1 DEF MoveOps
        <5>3. QED
          BY <3>1, <5>1, <5>2 DEF SrcNotify
      <4>2. QED
        BY <4>1, PcChanged DEF Known
    <3>2. CASE DstNotify(r) \/ DelNotify(r)
      <4>1. Goto(r, "done")
        BY <3>2 DEF DstNotify, DelNotify
      <4>2. QED
        BY <4>1, PcChanged DEF Known
    <3>3. QED
      BY <1>3, <3>1, <3>2
  <2>3. \/ p.pc = "srcNotify" /\ p.op = "apply"
        \/ p.pc = "dstNotify" \/ p.pc = "delNotify"
    BY <1>3, <2>1 DEF SrcNotify, DstNotify, DelNotify, At
  <2>4. Working(p)
    BY <2>3 DEF Working, Stopped
  <2>5. Clean' => ~Emptied(p)
    <3> SUFFICES ASSUME Clean' PROVE ~Emptied(p)
      OBVIOUS
    <3>1. Makes(p)
      BY <2>1, <2>4, WorkingOn DEF Known, Sees
    <3>2. QED
      BY <2>3, <3>1 DEF Makes, Emptied, AtWork, SrcPcs, DstPcs, ExtPcs
  <2>6. QED
    BY <1>0, <1>1, <2>1, <2>2, <2>3, <2>4, <2>5, ViewEnds DEF Stopped
<1>4. QED
  BY <1>2, <1>3

LEMMA ViewDeletes ==
    ASSUME Known, NEW r \in Reqs, Solo(r), Purge(r) \/ DelCommit(r)
    PROVE  ViewInv'
<1>1. PICK p, q : q = req'[r] /\ p = req[r]
  OBVIOUS
<1>2. /\ p.pc \in {"purge", "delCommit"} /\ q.pc \in {"done", "delNotify"}
      /\ UNCHANGED file /\ DropDocument(p.doc)
  BY <1>1, PcChanged DEF Purge, DelCommit, At, Known
<1>3. QED
  BY <1>1, <1>2, ViewDrops

LEMMA ViewExtRead ==
    ASSUME Known, NEW r \in Reqs, Solo(r), ExtRead(r)
    PROVE  ViewInv'
<1>1. PICK pc : Goto(r, pc) /\ pc \in {"extDoc", "extNotify", "error"}
  BY DEF ExtRead
<1>2. req[r].pc = "extRead" /\ UNCHANGED <<ver, file>>
  BY DEF ExtRead, At, store
<1>3. CASE pc = "error"
  BY <1>1, <1>2, <1>3, PcChanged, ViewStop DEF Known
<1>4. CASE pc # "error"
  <2>1. /\ req[r].pc \in AtWork \ {"srcPdf", "dstPdf"}
        /\ pc \in AtWork \ {"srcPdf", "dstPdf", "dstNotify"} /\ pc \notin SrcPcs \cup DstPcs
    BY <1>1, <1>2, <1>4 DEF AtWork, SrcPcs, DstPcs, ExtPcs
  <2>2. QED
    BY <1>1, <1>2, <2>1, SameIntact, ViewGoto
<1>5. QED
  BY <1>3, <1>4

LEMMA ViewExtText ==
    ASSUME Known, NEW r \in Reqs, Solo(r), ExtText(r)
    PROVE  ViewInv'
<1>1. PICK p, q : q = req'[r] /\ p = req[r]
  OBVIOUS
<1>2. /\ p.pc = "extText" /\ UNCHANGED file /\ SameChoice(q, p) /\ \A v \in VerIds : RowsStay(v)
      /\ q.pc \in {"error", "extNotify", "extDoc"}
  BY <1>1, ExtTextRows, ExtTextEffect DEF Known
<1>3. CASE q.pc = "error"
  BY <1>1, <1>2, <1>3, ViewStop DEF Known
<1>4. CASE q.pc # "error"
  <2>1. OnlyPages
    <3>1. (\E v, S : CopyText(req[r].rows, S, v)) \/ UNCHANGED ver
      BY DEF ExtText, store
    <3>2. QED
      BY <3>1, CopyOnly DEF OnlyPages, Known
  <2>2. \A v \in VerIds : Intact(v)
    BY <1>2, <2>1, TextsIntact
  <2>3. /\ p.pc \in AtWork \ {"srcPdf", "dstPdf"}
        /\ q.pc \in AtWork \ {"srcPdf", "dstPdf", "dstNotify"} /\ q.pc \notin SrcPcs \cup DstPcs
    BY <1>2, <1>4 DEF AtWork, SrcPcs, DstPcs, ExtPcs
  <2>4. QED
    BY <1>1, <1>2, <2>2, <2>3, ViewMoves
<1>5. QED
  BY <1>3, <1>4

LEMMA ViewExtNotify ==
    ASSUME Known, NEW r \in Reqs, Solo(r), ExtNotify(r)
    PROVE  ViewInv'
<1>1. PICK pc : Goto(r, pc) /\ pc = CASE RedisPresent -> "error"
                 [] ~RedisPresent /\ AllChosen(r) -> "purge"
                 [] OTHER -> "done"
  BY DEF ExtNotify
<1>2. req[r].pc = "extNotify" /\ UNCHANGED <<ver, file>> /\ req'[r].pc = pc
  BY <1>1, PcChanged DEF ExtNotify, At, store, Known
<1>3. CASE pc = "error"
  BY <1>2, <1>3, ViewStop DEF Known
<1>4. CASE pc = "purge"
  <2>1. /\ req[r].pc \in AtWork \ {"srcPdf", "dstPdf"}
        /\ pc \in AtWork \ {"srcPdf", "dstPdf", "dstNotify"} /\ pc \notin SrcPcs \cup DstPcs
    BY <1>2, <1>4 DEF AtWork, SrcPcs, DstPcs, ExtPcs
  <2>2. QED
    BY <1>1, <1>2, <2>1, SameIntact, ViewGoto
<1>5. CASE pc \notin {"error", "purge"}
  <2>1. ~RedisPresent /\ ~AllChosen(r) /\ pc = "done"
    BY <1>1, <1>5
  <2>2. PICK p : p = req[r]
    OBVIOUS
  <2>3. ~Emptied(p) /\ Working(p)
    BY <1>2, <2>1, <2>2 DEF AllChosen, Emptied, Working, Stopped
  <2>4. QED
    BY <1>2, <2>1, <2>2, <2>3, SameIntact, ViewEnds DEF Stopped
<1>6. QED
  BY <1>3, <1>4, <1>5

-----------------------------------------------------------------------------
(* LastVersionViewable: the versions a page operation makes *)

\* A row is inserted: no other version changes, and there is no file yet.
LEMMA RowInserted ==
    ASSUME Known, UNCHANGED file, NEW n, n = nextVer, n \in VerIds, NEW row,
           ver' = [ver EXCEPT ![n] = row]
    PROVE  /\ ver'[n] = row /\ file[n].kind = "none" /\ file'[n].pages = <<>>
           /\ \A v \in VerIds \ {n} : Intact(v)
           /\ FilesEmpty'
<1>1. ver'[n] = row /\ \A v \in VerIds \ {n} : ver'[v] = ver[v]
  BY DEF Known, TypeInv, StoreType
<1>2. n >= nextVer
  BY DEF Known, TypeInv, StoreType
<1>3. file[n].kind = "none" /\ file'[n].pages = <<>>
  BY <1>2 DEF Known, FreshInv, ViewInv, FilesEmpty
<1>4. FilesEmpty'
  BY IntactEmpty DEF Known
<1>5. QED
  BY <1>1, <1>3, <1>4 DEF Intact

\* version_bump makes a version for as many pages as it is told, unless it is told 0.
LEMMA BumpMakes ==
    ASSUME Known, NEW r \in Reqs, NEW d, NEW count \in Nat, BumpInsert(r, d, count),
           NEW n, n = nextVer
    PROVE  /\ n \in VerIds /\ UNCHANGED file /\ file[n].kind = "none"
           /\ \A v \in VerIds \ {n} : Intact(v)
           /\ FilesEmpty'
           /\ count # 0 => MadeFor(n, count)'
<1>1. PICK row : row = BumpVersion(r, d, count)
  OBVIOUS
<1>2. n \in VerIds /\ ver' = [ver EXCEPT ![n] = row] /\ UNCHANGED file
  BY <1>1 DEF BumpInsert
<1>3. /\ ver'[n] = row /\ file[n].kind = "none" /\ FilesEmpty'
      /\ \A v \in VerIds \ {n} : Intact(v)
  BY <1>2, RowInserted
<1>4. count # 0 => row.count = count /\ row.pages = FreshRows(count)
  BY <1>1 DEF BumpVersion, BumpRows
<1>5. Len(FreshRows(count)) = count
  BY FreshRowsListed
<1>6. QED
  BY <1>2, <1>3, <1>4, <1>5 DEF MadeFor

LEMMA ViewSrcInsert ==
    ASSUME Known, NEW r \in Reqs, Solo(r), SrcInsert(r)
    PROVE  ViewInv'
<1>1. CASE Raise(r)
  BY <1>1, ViewRaise
<1>2. CASE ~Raise(r)
  <2>1. PICK n, p, c : n = nextVer /\ p = req[r] /\ c = SrcCount(r)
    OBVIOUS
  <2>2. /\ p.pc = "srcInsert" /\ BumpInsert(r, p.doc, c)
        /\ req' = [req EXCEPT ![r].pc = "srcPdf", ![r].new = n]
    BY <1>2, <2>1 DEF SrcInsert, At
  <2>3. p \in Request /\ LocalsAt(p.pc, p)
    BY <2>1, LocalsOf DEF Known
  <2>4. PICK q : q = [p EXCEPT !.pc = "srcPdf", !.new = n]
    OBVIOUS
  <2>5. req' = [req EXCEPT ![r] = q]
    BY <2>1, <2>2, <2>4 DEF Known, TypeInv
  <2>6. req'[r] = q
    BY <2>5, OneChanged DEF Known
  <2>7. q.pc = "srcPdf" /\ q.new = n /\ SameChoice(q, p)
    BY <2>3, <2>4 DEF Request, SameChoice
  <2>8. c \in Nat /\ c = SrcSize(p)
    <3>1. Len(p.items) \in Nat /\ Len(p.rows) \in Nat /\ Len(p.items) <= Len(p.rows)
      BY <2>3, LenProperties DEF LocalsAt, Request
    <3>2. QED
      BY <2>1, <3>1 DEF SrcCount, SrcSize
  <2>9. /\ n \in VerIds /\ UNCHANGED file /\ file[n].kind = "none"
        /\ \A v \in VerIds \ {n} : Intact(v)
        /\ FilesEmpty'
        /\ c # 0 => MadeFor(n, c)'
    BY <2>1, <2>2, <2>8, BumpMakes
  <2>10. SrcSize(q) = c
    BY <2>7, <2>8 DEF SrcSize, SameChoice
  <2>11. Makes(q)'
    BY <2>7, <2>9, <2>10 DEF Makes
  <2>12. Unfinished(q, n)'
    BY <2>7 DEF Unfinished
  <2>13. p.pc \in AtWork /\ q.pc \in AtWork /\ p.pc \in SrcPcs
    BY <2>2, <2>7 DEF AtWork, SrcPcs
  <2>14. PICK W \in SUBSET VerIds : W = {n}
    BY <2>9
  <2>15. QED
    BY <2>1, <2>2, <2>6, <2>7, <2>9, <2>11, <2>12, <2>13, <2>14, ViewGoesOn
<1>3. QED
  BY <1>1, <1>2

LEMMA ViewDstInsert ==
    ASSUME Known, NEW r \in Reqs, Solo(r), DstInsert(r)
    PROVE  ViewInv'
<1>1. CASE Raise(r)
  BY <1>1, ViewRaise
<1>2. CASE ~Raise(r)
  <2>1. PICK n, p, c : n = nextVer /\ p = req[r] /\ c = DstCount(r)
    OBVIOUS
  <2>2. /\ p.pc = "dstInsert" /\ BumpInsert(r, p.into, c)
        /\ req' = [req EXCEPT ![r].pc = "dstPdf", ![r].dnew = n]
    BY <1>2, <2>1 DEF DstInsert, At
  <2>3. p \in Request /\ LocalsAt(p.pc, p) /\ p.items # <<>>
    BY <2>1, <2>2, LocalsOf DEF Known, LocalsAt, DstPcs
  <2>4. PICK q : q = [p EXCEPT !.pc = "dstPdf", !.dnew = n]
    OBVIOUS
  <2>5. req' = [req EXCEPT ![r] = q]
    BY <2>1, <2>2, <2>4 DEF Known, TypeInv
  <2>6. req'[r] = q
    BY <2>5, OneChanged DEF Known
  <2>7. q.pc = "dstPdf" /\ q.dnew = n /\ SameChoice(q, p) /\ q.dlen = p.dlen
    BY <2>3, <2>4 DEF Request, SameChoice
  <2>8. c \in Nat /\ c = DstSize(p) /\ c # 0
    <3>1. Len(p.items) \in Nat \ {0} /\ p.dlen \in Nat
      BY <2>3, LenProperties, EmptySeq DEF LocalsAt, Request
    <3>2. QED
      BY <2>1, <3>1 DEF DstCount, DstSize
  <2>9. /\ n \in VerIds /\ UNCHANGED file /\ file[n].kind = "none"
        /\ \A v \in VerIds \ {n} : Intact(v)
        /\ FilesEmpty'
        /\ MadeFor(n, c)'
    BY <2>1, <2>2, <2>8, BumpMakes
  <2>10. DstSize(q) = c
    BY <2>7, <2>8 DEF DstSize, SameChoice
  <2>11. Makes(q)'
    BY <2>7, <2>9, <2>10 DEF Makes
  <2>12. Unfinished(q, n)'
    BY <2>7 DEF Unfinished
  <2>13. p.pc \in AtWork /\ q.pc \in AtWork /\ p.pc \in DstPcs
    BY <2>2, <2>7 DEF AtWork, DstPcs
  <2>14. PICK W \in SUBSET VerIds : W = {n}
    BY <2>9
  <2>15. QED
    BY <2>1, <2>2, <2>6, <2>7, <2>9, <2>11, <2>12, <2>13, <2>14, ViewGoesOn
<1>3. QED
  BY <1>1, <1>2

-----------------------------------------------------------------------------
(* LastVersionViewable: the files of the versions *)

\* A PDF is written for a version that has no file.
LEMMA FileWritten ==
    ASSUME Known, UNCHANGED ver, NEW n \in VerIds, NEW s, file' = [file EXCEPT ![n] = Pdf(s)]
    PROVE  /\ file'[n].pages = s /\ FilesEmpty' /\ \A v \in VerIds \ {n} : Intact(v)
<1>1. PICK f : f = Pdf(s)
  OBVIOUS
<1>2. file'[n] = f /\ \A v \in VerIds \ {n} : file'[v] = file[v]
  BY <1>1 DEF Known, TypeInv, StoreType
<1>3. f.pages = s /\ f.kind # "none"
  BY <1>1 DEF Pdf
<1>4. FilesEmpty'
  BY <1>2, <1>3 DEF Known, ViewInv, FilesEmpty
<1>5. QED
  BY <1>2, <1>3, <1>4 DEF Intact

LEMMA WrittenWhole ==
    ASSUME UNCHANGED ver, NEW n \in VerIds, NEW m, MadeFor(n, m), Len(file'[n].pages) = m
    PROVE  Whole(n)'
BY DEF MadeFor, Whole

LEMMA ViewSrcPdf ==
    ASSUME Known, NEW r \in Reqs, Solo(r), SrcPdf(r)
    PROVE  ViewInv'
<1>1. CASE Raise(r)
  BY <1>1, ViewRaise
<1>2. CASE ~Raise(r)
  <2>1. PICK p, q : p = req[r] /\ q = req'[r]
    OBVIOUS
  <2>2. p.pc = "srcPdf" /\ Readable(p.old, Range(Numbers(r))) /\ UNCHANGED store
    BY <1>2, <2>1 DEF SrcPdf, At
  <2>3. PICK s \in SrcPages(r) : file' = [file EXCEPT ![p.new] = Pdf(s)]
    BY <1>2, <2>1 DEF SrcPdf
  <2>4. PICK pc : Goto(r, pc) /\ pc \in {"error", "srcText"}
    BY <1>2 DEF SrcPdf
  <2>5. p \in Request /\ LocalsAt(p.pc, p) /\ p.new \in VerIds
    BY <2>1, <2>2, LocalsOf DEF LocalsAt, Known
  <2>6. file[p.new].kind = "none"
    BY <2>1, <2>2 DEF Known, FreshInv, Target
  <2>7. file'[p.new].pages = s /\ FilesEmpty' /\ \A v \in VerIds \ {p.new} : Intact(v)
    BY <2>2, <2>3, <2>5, FileWritten DEF store
  <2>8. q.pc = pc /\ SameChoice(q, p)
    BY <2>1, <2>4, GotoEffect DEF Known
  <2>9. CASE pc = "error"
    BY <2>1, <2>7, <2>8, <2>9, ViewCut
  <2>10. CASE pc = "srcText"
    <3>1. p.pc \in AtWork /\ p.pc \in SrcPcs /\ q.pc \in AtWork
      BY <2>2, <2>8, <2>10 DEF AtWork, SrcPcs
    <3>2. Makes(q)'
      BY <2>8, <2>10 DEF Makes
    <3>3. ASSUME Clean', ver'[p.new].doc # NoDoc
          PROVE  Whole(p.new)' \/ Unfinished(q, p.new)'
      <4>1. Sees(p)
        BY <2>1, <2>2, <3>3, WorkingOn DEF Known, Working, Stopped
      <4>2. /\ Choice(p) /\ p.doc \in live /\ p.old \in VerIds
            /\ Len(file[p.old].pages) = Len(p.rows)
            /\ Len(p.items) \in Nat \ {0} /\ Len(p.rows) \in Nat
        BY <2>1, <3>1, <4>1, SourceFile DEF Sees
      <4>3. PICK m : m = SrcSize(p)
        OBVIOUS
      <4>4. Len(s) = m
        BY <2>1, <2>2, <4>2, <4>3, SrcPagesLength DEF Known, SrcSize
      <4>5. CASE m # 0
        <5>1. MadeFor(p.new, m)
          BY <2>2, <4>1, <4>3, <4>5 DEF Sees, Makes
        <5>2. QED
          BY <2>2, <2>5, <2>7, <4>4, <5>1, WrittenWhole DEF store
      <4>6. CASE m = 0
        <5>1. p.op # "apply" /\ Len(p.rows) = Len(p.items)
          BY <4>2, <4>3, <4>6 DEF SrcSize
        <5>2. Emptied(q)
          BY <2>8, <3>1, <5>1 DEF Emptied, SameChoice
        <5>3. Knows(p)
          BY <2>1 DEF Known, RowsInv
        <5>4. ver[p.new].doc = p.doc
          BY <2>2, <3>3, <5>3 DEF Knows, HasRows, store
        <5>5. ver'[p.new].doc = q.doc
          BY <2>2, <2>8, <5>4 DEF SameChoice, store
        <5>6. QED
          BY <5>2, <5>5 DEF Unfinished, Emptied
      <4>7. QED
        BY <4>5, <4>6
    <3>4. PICK W \in SUBSET VerIds : W = {p.new}
      BY <2>5
    <3>5. QED
      BY <2>1, <2>2, <2>6, <2>7, <2>8, <3>1, <3>2, <3>3, <3>4, ViewGoesOn
  <2>11. QED
    BY <2>4, <2>9, <2>10
<1>3. QED
  BY <1>1, <1>2

LEMMA ViewDstPdf ==
    ASSUME Known, NEW r \in Reqs, Solo(r), DstPdf(r)
    PROVE  ViewInv'
<1>1. CASE Raise(r)
  BY <1>1, ViewRaise
<1>2. CASE ~Raise(r)
  <2>1. PICK p, q, s : p = req[r] /\ q = req'[r] /\ s = DstPages(r)
    OBVIOUS
  <2>2. /\ DstReadable(r) /\ p.pc = "dstPdf" /\ UNCHANGED store
        /\ file' = [file EXCEPT ![p.dnew] = Pdf(s)]
        /\ SameChoice(q, p) /\ q.pc \in {"error", "purge", "dstNotify"}
        /\ q.pc = "dstNotify" => ~AllChosen(r)
    BY <1>2, <2>1, DstPdfRows DEF Known
  <2>3. p \in Request /\ p.dnew \in VerIds /\ p.dst \in VerIds /\ p.op \in MoveOps
    BY <2>1, <2>2, LocalsOf DEF LocalsAt, DstPcs, Known
  <2>4. file[p.dnew].kind = "none"
    BY <2>1, <2>2 DEF Known, FreshInv, Target
  <2>5. file'[p.dnew].pages = s /\ FilesEmpty' /\ \A v \in VerIds \ {p.dnew} : Intact(v)
    BY <2>2, <2>3, FileWritten DEF store
  <2>6. CASE q.pc = "error"
    BY <2>1, <2>5, <2>6, ViewCut
  <2>7. CASE q.pc # "error"
    <3>1. p.pc \in AtWork /\ p.pc \in DstPcs /\ q.pc \in AtWork
      BY <2>2, <2>7 DEF AtWork, DstPcs
    <3>2. Makes(q)'
      <4>1. q.pc = "dstNotify" => Len(q.rows) # Len(q.items)
        BY <2>1, <2>2 DEF AllChosen, SameChoice
      <4>2. QED
        BY <2>2, <4>1 DEF Makes
    <3>3. ASSUME Clean' PROVE Whole(p.dnew)'
      <4>1. Sees(p)
        BY <2>1, <2>2, <3>3, WorkingOn DEF Known, Working, Stopped
      <4>2. p.doc \in live
        BY <2>1, <3>1, <4>1, SourceFile DEF Sees
      <4>3. Destination(p) /\ p.into \in live
        BY <2>1, <2>3, <3>1, <4>1, TargetFile DEF Sees
      <4>4. Knows(p) /\ p.todo = p.items
        BY <2>1, <2>2, <4>2 DEF Known, RowsInv, Knows, Copying
      <4>5. p.dlen = Len(ver[p.dst].pages) /\ Whole(p.dst)
        BY <2>2, <2>3, <3>1, <4>1, <4>3 DEF Destination, Sees, Sources
      <4>6. PICK m : m = DstSize(p)
        OBVIOUS
      <4>7. Len(s) = m
        BY <2>1, <2>2, <4>4, <4>5, <4>6, DstPagesAre DEF Known, DstSize, Whole
      <4>8. MadeFor(p.dnew, m)
        BY <2>2, <4>1, <4>6 DEF Sees, Makes
      <4>9. QED
        BY <2>2, <2>3, <2>5, <4>7, <4>8, WrittenWhole DEF store
    <3>4. PICK W \in SUBSET VerIds : W = {p.dnew}
      BY <2>3
    <3>5. QED
      BY <2>1, <2>2, <2>4, <2>5, <3>1, <3>2, <3>3, <3>4, ViewGoesOn
  <2>8. QED
    BY <2>6, <2>7
<1>3. QED
  BY <1>1, <1>2

-----------------------------------------------------------------------------
(* LastVersionViewable: new documents *)

LEMMA ViewCreated ==
    ASSUME Known, UNCHANGED file, NEW d, CreateDocument(d), NEW n, n = nextVer
    PROVE  /\ n \in VerIds /\ file[n].kind = "none" /\ FilesEmpty' /\ Whole(n)'
           /\ \A v \in VerIds \ {n} : Intact(v)
<1>1. PICK row : row = [NoVersion EXCEPT !.doc = d, !.number = 1]
  OBVIOUS
<1>2. n \in VerIds /\ ver' = [ver EXCEPT ![n] = row]
  BY <1>1 DEF CreateDocument
<1>3. row.pages = <<>> /\ row.count = 0
  BY <1>1 DEF NoVersion
<1>4. /\ ver'[n] = row /\ file[n].kind = "none" /\ file'[n].pages = <<>> /\ FilesEmpty'
      /\ \A v \in VerIds \ {n} : Intact(v)
  BY <1>2, RowInserted
<1>5. Whole(n)'
  BY <1>3, <1>4, EmptySeqType DEF Whole
<1>6. QED
  BY <1>2, <1>4, <1>5

LEMMA ViewExtDoc ==
    ASSUME Known, NEW r \in Reqs, Solo(r), ExtDoc(r)
    PROVE  ViewInv'
<1>1. PICK p, q, n : p = req[r] /\ q = req'[r] /\ n = nextVer
  OBVIOUS
<1>2. (\E d : CreateDocument(d)) /\ UNCHANGED file /\ SameChoice(q, p) /\ q.pc = "extPages"
  BY <1>1, ExtDocRows DEF Known
<1>3. p.pc = "extDoc"
  BY <1>1 DEF ExtDoc, At
<1>4. /\ n \in VerIds /\ file[n].kind = "none" /\ FilesEmpty' /\ Whole(n)'
      /\ \A v \in VerIds \ {n} : Intact(v)
  BY <1>1, <1>2, ViewCreated
<1>5. p.pc \in AtWork /\ q.pc \in AtWork /\ q.pc \notin SrcPcs \cup DstPcs
  BY <1>2, <1>3 DEF AtWork, ExtPcs, SrcPcs, DstPcs
<1>6. Makes(q)'
  BY <1>2 DEF Makes
<1>7. PICK W \in SUBSET VerIds : W = {n}
  BY <1>4
<1>8. QED
  BY <1>1, <1>2, <1>3, <1>4, <1>5, <1>6, <1>7, ViewGoesOn

LEMMA ViewExtPages ==
    ASSUME Known, NEW r \in Reqs, Solo(r), ExtPages(r)
    PROVE  ViewInv'
<1>1. CASE Raise(r)
  BY <1>1, ViewRaise
<1>2. CASE ~Raise(r)
  <2>1. PICK p, q, s : p = req[r] /\ q = req'[r] /\ s = BatchPages(r)
    OBVIOUS
  <2>2. /\ p.pc = "extPages" /\ Readable(p.old, Range(BatchNumbers(r)))
        /\ SameChoice(q, p) /\ q.pc \in {"error", "extText"}
        /\ \E v \in FillTarget(p.cur) : FillVersion(p.cur, v, s)
    BY <1>2, <2>1, ExtPagesRows DEF Known
  <2>3. PICK v \in FillTarget(p.cur) : FillVersion(p.cur, v, s)
    BY <2>2
  <2>4. p.pc \in ExtPcs
    BY <2>2 DEF ExtPcs
  <2>5. s \in Seq(Content)
    BY <2>1, <2>2, <2>4, BatchPagesAre DEF Known, RowsInv, Knows
  <2>6. /\ v \in VerIds /\ file'[v] = Pdf(s)
        /\ ver'[v].count = Len(s) /\ Len(ver'[v].pages) = Len(s)
        /\ \A w \in VerIds \ {v} : ver'[w] = ver[w] /\ file'[w] = file[w]
    BY <2>1, <2>2, <2>3, <2>5, RowsFilled DEF Known
  <2>7. file[v].kind = "none"
    <3>1. Unsized(p.cur) # {}
      BY <2>1, <2>2 DEF Known, NumInv, Counted
    <3>2. v \in VersionsOf(p.cur)
      BY <2>3, <3>1 DEF FillTarget, Highest, Unsized
    <3>3. QED
      BY <2>1, <2>2, <3>2 DEF Known, FreshInv, Filling
  <2>8. \A w \in VerIds \ {v} : Intact(w)
    BY <2>6 DEF Intact
  <2>9. PICK f : f = Pdf(s)
    OBVIOUS
  <2>10. file'[v].pages = s /\ file'[v].kind # "none"
    BY <2>6, <2>9 DEF Pdf
  <2>11. FilesEmpty' /\ Whole(v)'
    BY <2>6, <2>10 DEF Known, ViewInv, FilesEmpty, Whole
  <2>12. CASE q.pc = "error"
    BY <2>1, <2>11, <2>12, ViewCut
  <2>13. CASE q.pc = "extText"
    <3>1. p.pc \in AtWork /\ q.pc \in AtWork /\ q.pc \notin SrcPcs \cup DstPcs
      BY <2>2, <2>13 DEF AtWork, ExtPcs, SrcPcs, DstPcs
    <3>2. Makes(q)'
      BY <2>13 DEF Makes
    <3>3. PICK W \in SUBSET VerIds : W = {v}
      BY <2>6
    <3>4. QED
      BY <2>1, <2>2, <2>7, <2>8, <2>11, <3>1, <3>2, <3>3, ViewGoesOn
  <2>14. QED
    BY <2>2, <2>12, <2>13
<1>3. QED
  BY <1>1, <1>2

-----------------------------------------------------------------------------
(* LastVersionViewable: a request arrives *)

\* As long as no request is at work, nothing is unfinished.
LEMMA NothingUnfinished ==
    ASSUME ViewInv, NEW r \in Reqs, Solo(r), req[r].pc = "idle", Clean'
    PROVE  AllWhole
<1>1. Clean
  BY DEF Clean, Solo, Others
<1>2. \A p \in Reqs : ~Working(req[p])
  BY DEF Solo, Working, Stopped
<1>3. QED
  BY <1>1, <1>2 DEF ViewInv

\* The versions a request begins with have rows that stand for documents.
Begun(q) ==
    /\ q.pc = "srcRead" /\ q.old \in VerIds /\ ver[q.old].doc = q.doc /\ q.doc # NoDoc
    /\ q.op \in MoveOps => q.dst \in VerIds /\ ver[q.dst].doc = q.into /\ q.into # NoDoc

LEMMA BeginSources ==
    ASSUME Known, NEW r \in Reqs, BeginApply(r) \/ BeginExtract(r) \/ BeginMove(r)
    PROVE  Begun(req'[r])
<1>1. CASE BeginApply(r) \/ BeginExtract(r)
  <2>1. PICK op, v, items : /\ op \notin MoveOps /\ v \in Choosable
                            /\ req' = [req EXCEPT ![r] = Selected(op, v, items)]
    <3>1. CASE BeginApply(r)
      BY <3>1 DEF BeginApply, MoveOps
    <3>2. CASE BeginExtract(r)
      BY <3>2 DEF BeginExtract, MoveOps, ExtractOps
    <3>3. QED
      BY <1>1, <3>1, <3>2
  <2>2. PICK q : q = Selected(op, v, items)
    OBVIOUS
  <2>3. q.pc = "srcRead" /\ q.old = v /\ q.doc = ver[v].doc /\ q.op = op
    BY <2>2 DEF Selected, NoRequest
  <2>4. Begun(q)
    BY <2>1, <2>3, ChosenVersion DEF Begun, Known
  <2>5. req'[r] = q
    BY <2>1, <2>2, OneChanged DEF Known
  <2>6. QED
    BY <2>4, <2>5
<1>2. CASE BeginMove(r)
  <2>a. PICK op \in MoveOps :
          \E v, w \in Choosable :
          \E S \in Chosenable(v), i \in DOMAIN ver[w].pages :
          \E items \in ByNumber(ver[v].pages, S) :
              /\ SameDocMove \/ ver[v].doc # ver[w].doc
              /\ req' = [req EXCEPT ![r] = Targeted(Selected(op, v, items), w, i)]
    BY <1>2 DEF BeginMove
  <2>b. PICK v \in Choosable, w \in Choosable :
          \E S \in Chosenable(v), i \in DOMAIN ver[w].pages :
          \E items \in ByNumber(ver[v].pages, S) :
              req' = [req EXCEPT ![r] = Targeted(Selected(op, v, items), w, i)]
    BY <2>a
  <2>c. PICK S \in Chosenable(v), i \in DOMAIN ver[w].pages :
          \E items \in ByNumber(ver[v].pages, S) :
              req' = [req EXCEPT ![r] = Targeted(Selected(op, v, items), w, i)]
    BY <2>b
  <2>1. PICK items : req' = [req EXCEPT ![r] = Targeted(Selected(op, v, items), w, i)]
    BY <2>c
  <2>2. PICK q : q = Targeted(Selected(op, v, items), w, i)
    OBVIOUS
  <2>3. /\ q.pc = "srcRead" /\ q.old = v /\ q.doc = ver[v].doc
        /\ q.dst = w /\ q.into = ver[w].doc
    BY <2>2 DEF Targeted, Selected, NoRequest
  <2>4. Begun(q)
    BY <2>1, <2>3, ChosenVersion DEF Begun, Known
  <2>5. req'[r] = q
    BY <2>1, <2>2, OneChanged DEF Known
  <2>6. QED
    BY <2>4, <2>5
<1>3. QED
  BY <1>1, <1>2

LEMMA ViewBegin ==
    ASSUME UploadOps \cap Ops = {}, Known, NEW r \in Reqs, Solo(r), Begin(r)
    PROVE  ViewInv'
<1>1. req[r].pc = "idle" /\ ~BeginUpload(r)
  BY DEF Begin, BeginApply, BeginMove, BeginExtract, Create, BeginUpload, BeginDelete,
     MayBegin, At
<1>2. CASE Create(r)
  <2>1. PICK q, n : q = [NoRequest EXCEPT !.op = "create", !.pc = "done"] /\ n = nextVer
    OBVIOUS
  <2>2. q.pc = "done" /\ req' = [req EXCEPT ![r] = q] /\ UNCHANGED file
    BY <1>2, <2>1 DEF Create, NoRequest
  <2>3. req'[r].pc = "done"
    BY <2>2, OneChanged DEF Known
  <2>4. \E d : CreateDocument(d)
    BY <1>2 DEF Create
  <2>5. /\ n \in VerIds /\ file[n].kind = "none" /\ FilesEmpty' /\ Whole(n)'
        /\ \A v \in VerIds \ {n} : Intact(v)
    BY <2>1, <2>2, <2>4, ViewCreated
  <2>6. ASSUME Clean', NEW v \in VerIds, v # n, ver'[v].doc # NoDoc PROVE Whole(v)'
    <3>1. AllWhole
      BY <1>1, <2>6, NothingUnfinished DEF Known
    <3>2. Intact(v) /\ Whole(v)
      BY <2>5, <2>6, <3>1 DEF AllWhole, Intact
    <3>3. QED
      BY <3>2, IntactWhole
  <2>7. Clean' => AllWhole'
    BY <2>5, <2>6 DEF AllWhole
  <2>8. QED
    BY <2>3, <2>5, <2>7, ViewEnd DEF Stopped
<1>3. CASE ~Create(r)
  <2>1. PICK q : q = req'[r]
    OBVIOUS
  <2>2. UNCHANGED <<ver, file>> /\ q.pc \in {"srcRead", "delCommit"}
    BY <1>1, <1>3, <2>1, BeginPc DEF Known, store
  <2>3. \A v \in VerIds : Intact(v)
    BY <2>2, SameIntact
  <2>4. FilesEmpty'
    BY <2>2, IntactEmpty DEF Known
  <2>5. Working(q) /\ Makes(q)'
    BY <2>2 DEF Working, Stopped, Makes
  <2>6. ASSUME Clean' PROVE Shown(q)' /\ Sources(q)'
    <3>1. AllWhole
      BY <1>1, <2>6, NothingUnfinished DEF Known
    <3>2. \A v \in VerIds : ver'[v].doc # NoDoc => Whole(v)'
      BY <2>3, <3>1, IntactWhole DEF AllWhole, Intact
    <3>3. Shown(q)'
      BY <3>2 DEF Shown
    <3>4. CASE BeginDelete(r)
      <4>1. PICK p : p.pc = "delCommit" /\ req' = [req EXCEPT ![r] = p]
        BY <3>4 DEF BeginDelete, NoRequest
      <4>2. q.pc = "delCommit"
        BY <2>1, <4>1, OneChanged DEF Known
      <4>3. QED
        BY <3>3, <4>2 DEF Sources, AtWork, SrcPcs, DstPcs, ExtPcs
    <3>5. CASE BeginApply(r) \/ BeginExtract(r) \/ BeginMove(r)
      <4>1. Begun(q)
        BY <2>1, <3>5, BeginSources
      <4>2. QED
        BY <2>2, <3>2, <3>3, <4>1 DEF Begun, Sources
    <3>6. QED
      BY <1>1, <1>3, <3>4, <3>5 DEF Begin
  <2>7. QED
    BY <2>1, <2>4, <2>5, <2>6, ViewStep DEF Sees
<1>4. QED
  BY <1>2, <1>3

\* The OCR worker writes texts only.
LEMMA ViewOcr ==
    ASSUME Known, UNCHANGED req, UNCHANGED file, \A v \in VerIds : Intact(v)
    PROVE  ViewInv'
<1>1. FilesEmpty'
  BY IntactEmpty DEF Known
<1>2. \A v \in VerIds : (Whole(v) <=> Whole(v)') /\ ver'[v].doc = ver[v].doc
  BY IntactWhole DEF Intact
<1>3. AllWhole => AllWhole'
  BY <1>2 DEF AllWhole
<1>4. ASSUME NEW r \in Reqs, NEW q, q = req[r], Working(q), Shown(q), Sees(q)
      PROVE  Shown(q)' /\ Sees(q)'
  <2>1. \A v \in VerIds : Unfinished(q, v) => Unfinished(q, v)'
    BY <1>2 DEF Unfinished
  <2>2. Shown(q)'
    BY <1>2, <1>4, <2>1 DEF Shown
  <2>3. q.pc \in AtWork => q.old \in VerIds
    BY <1>4, SourceFile DEF Sees
  <2>4. q.pc \in SrcPcs \cup DstPcs /\ q.op \in MoveOps => q.dst \in VerIds
    BY <1>4, LocalsOf DEF Known, LocalsAt
  <2>5. Sources(q)'
    BY <1>2, <1>4, <2>3, <2>4 DEF Sources, Sees
  <2>6. Makes(q)'
    <3>1. LocalsAt(q.pc, q)
      BY <1>4, LocalsOf DEF Known
    <3>2. \A v \in VerIds : \A n : MadeFor(v, n) => MadeFor(v, n)'
      BY DEF MadeFor, Intact
    <3>3. q.pc = "srcPdf" => q.new \in VerIds
      BY <3>1 DEF LocalsAt
    <3>4. q.pc = "dstPdf" => q.dnew \in VerIds
      BY <3>1 DEF LocalsAt
    <3>5. QED
      BY <1>4, <3>2, <3>3, <3>4 DEF Makes, Sees
  <2>7. QED
    BY <2>2, <2>5, <2>6 DEF Sees
<1>5. ASSUME NEW r \in Reqs, Working(req[r]), Shown(req[r]), Sees(req[r])
      PROVE  Shown(req[r])' /\ Sees(req[r])'
  <2>1. PICK q : q = req[r]
    OBVIOUS
  <2>2. Shown(q)' /\ Sees(q)'
    BY <1>4, <1>5, <2>1
  <2>3. QED
    BY <2>1, <2>2
<1>6. Clean' => Clean
  BY DEF Clean
<1>7. QED
  BY <1>1, <1>3, <1>5, <1>6 DEF Known, ViewInv, Working

LEMMA ViewNext ==
    ASSUME Sequential, UploadOps \cap Ops = {}, Alone, Known, [Next]_vars
    PROVE  ViewInv'
<1>1. ASSUME NEW r \in Reqs, Begin(r) PROVE ViewInv'
  BY <1>1, SoloStep, ViewBegin DEF Known
<1>2. ASSUME NEW r \in Reqs, Step(r) PROVE ViewInv'
  <2>1. ~(UpFile(r) \/ UpCommit(r) \/ UpNotify(r))
    BY DEF Known, FreshInv, UpPcs, UpFile, UpCommit, UpNotify, At
  <2>2. Solo(r)
    BY <1>2, SoloStep DEF Known
  <2>3. QED
    BY <1>2, <2>1, <2>2, ViewRead, ViewSrcInsert, ViewSrcPdf, ViewSrcText, ViewNotify,
       ViewDstInsert, ViewDstPdf, ViewDeletes, ViewExtRead, ViewExtDoc, ViewExtPages,
       ViewExtText, ViewExtNotify DEF Step
<1>3. ASSUME NEW r \in Reqs, Crash(r) PROVE ViewInv'
  BY <1>3, PcChanged, ViewStop DEF Known, Crash
<1>4. ASSUME NEW v \in VerIds, OcrDone(v) PROVE ViewInv'
  <2>1. OnlyPages /\ UNCHANGED <<file, req>> /\ \A w \in VerIds : RowsStay(w)
    BY <1>4, OcrOnly, OcrStays DEF Known
  <2>2. QED
    BY <2>1, TextsIntact, ViewOcr
<1>5. CASE UNCHANGED vars
  BY <1>5, SameIntact, ViewOcr DEF vars, store
<1>6. QED
  BY <1>1, <1>2, <1>3, <1>4, <1>5 DEF Next

LEMMA ViewInit == Init => ViewInv
<1> SUFFICES ASSUME Init PROVE ViewInv
  OBVIOUS
<1>1. \A r \in Reqs : ~Working(req[r])
  BY DEF Init, NoRequest, Working, Stopped
<1>2. ASSUME NEW v \in VerIds
      PROVE  /\ file[v].kind = "none" => file[v].pages = <<>>
             /\ ver[v].doc # NoDoc => Whole(v)
  <2>1. CASE v \in DOMAIN Initial
    <3>1. Initial[v].pages \in Seq(Content) /\ Len(Initial[v].pages) \in Nat
      BY <2>1, InitialType, LenProperties
    <3>2. /\ ver[v].pages = FreshRows(Len(Initial[v].pages))
          /\ ver[v].count = Len(Initial[v].pages) /\ file[v] = Pdf(Initial[v].pages)
      BY <2>1 DEF Init
    <3>3. file[v].pages = Initial[v].pages /\ file[v].kind = "pdf"
      BY <3>2 DEF Pdf
    <3>4. QED
      BY <3>1, <3>2, <3>3, FreshRowsListed DEF Whole
  <2>2. CASE v \notin DOMAIN Initial
    <3>1. ver[v] = NoVersion /\ file[v] = NoFile
      BY <2>2 DEF Init
    <3>2. QED
      BY <3>1 DEF NoVersion, NoFile
  <2>3. QED
    BY <2>1, <2>2
<1>3. QED
  BY <1>1, <1>2 DEF ViewInv, FilesEmpty, AllWhole

\* Without uploads, and as long as a client waits for each answer: when no handler is
\* at work and none was cut off, the last version of each document has one row per page
\* of its file, and page_count counts them. Whichever versions pages are chosen from,
\* however they are ordered and whatever the text recognition does meanwhile, the rows
\* version_bump inserts before the file is written agree with it in the end.
THEOREM LastVersionsShown ==
    ASSUME Sequential, UploadOps \cap Ops = {}
    PROVE  Spec => []LastVersionViewable
<1>1. TypeInv /\ ViewInv => LastVersionViewable
  <2> SUFFICES ASSUME TypeInv, ViewInv, \A r \in Reqs : req[r].pc \in {"idle", "done"},
                      NEW d \in live, NEW v \in LastVersions(d)
               PROVE  Whole(v)
    BY DEF LastVersionViewable, Whole
  <2>1. Clean /\ \A r \in Reqs : ~Working(req[r])
    BY DEF Clean, Working, Stopped
  <2>2. v \in VerIds /\ ver[v].doc # NoDoc
    BY DocsAssumption DEF LastVersions, Highest, VersionsOf, TypeInv, StoreType
  <2>3. QED
    BY <2>1, <2>2 DEF ViewInv, AllWhole
<1>2. TypeInv /\ TypeInv' /\ HistoryInv /\ [Next]_vars => HistoryInv'
  BY HistoryNext
<1>3. TypeInv /\ TypeInv' /\ HistoryInv /\ FreshInv /\ [Next]_vars => FreshInv'
  BY FreshNext
<1>4. TypeInv /\ TypeInv' /\ HistoryInv /\ FreshInv /\ RowsInv /\ [Next]_vars => RowsInv'
  BY RowsNext
<1>5. TypeInv /\ HistoryInv /\ Alone /\ NumInv /\ [Next]_vars => Alone' /\ NumInv'
  BY AloneNext, NumNext DEF UploadOps
<1>6. /\ TypeInv /\ TypeInv' /\ HistoryInv /\ FreshInv /\ RowsInv /\ Alone /\ NumInv /\ ViewInv
      /\ [Next]_vars
      => ViewInv'
  BY ViewNext DEF Known
<1>7. QED
  BY <1>1, <1>2, <1>3, <1>4, <1>5, <1>6, TypeInvariant, HistoryInit, FreshInit, RowsInit,
     AloneInit, NumInit, ViewInit, PTL DEF Spec

-----------------------------------------------------------------------------
(* Positions in increasing order *)

UpTo(S, x) == {y \in S : y <= x}

\* The k-th member is the one with k members up to it.
LEMMA PlaceOf ==
    ASSUME NEW n \in Nat, NEW S \in SUBSET (1..n), NEW s \in InOrder(S)
    PROVE  /\ DOMAIN s = 1..Cardinality(S) /\ Range(s) = S
           /\ \A k \in 1..Cardinality(S) : s[k] \in S /\ Cardinality(UpTo(S, s[k])) = k
<1>1. PICK m \in Nat : m = Cardinality(S)
  BY SetOfPositions
<1>2. s \in Seq(S) /\ Len(s) = m /\ DOMAIN s = 1..m /\ IsInjective(s)
  BY <1>1, InOrderType, InOrderDistinct, LenProperties
<1>3. IsFiniteSet(S)
  BY IntervalSize, FS_Subset
<1>4. Range(s) = S
  <2>1. Cardinality(Range(s)) = m /\ Range(s) \in SUBSET S
    BY <1>2, DistinctRange, RangeOfSeq
  <2>2. QED
    BY <1>1, <1>3, <2>1, FS_Subset
<1>5. \A j, k \in 1..m : j < k => s[j] < s[k]
  BY <1>2 DEF InOrder
<1>6. \A k \in 1..m : s[k] \in S /\ s[k] \in Int
  <2>1. \A k \in 1..m : s[k] \in S
    BY <1>2, ElementOfSeq
  <2>2. \A y \in S : y \in Int
    OBVIOUS
  <2>3. QED
    BY <2>1, <2>2
<1>7. ASSUME NEW k \in 1..m PROVE Cardinality(UpTo(S, s[k])) = k
  <2>1. PICK t : t = [j \in 1..k |-> s[j]]
    OBVIOUS
  <2>2. t \in [1..k -> S] /\ k \in Nat
    BY <1>6, <2>1
  <2>3. t \in Seq(S) /\ Len(t) = k /\ DOMAIN t = 1..k
    BY <2>2, SeqOfFcn
  <2>4. IsInjective(t)
    BY <1>2, <2>1, <2>3 DEF IsInjective
  <2>5. \A j \in 1..m : s[j] <= s[k] <=> j <= k
    BY <1>5, <1>6
  <2>6. UpTo(S, s[k]) = {s[j] : j \in 1..k}
    <3>1. \A y \in S : \E j \in 1..m : y = s[j]
      BY <1>2, <1>4 DEF Range
    <3>2. \A j \in 1..k : j \in 1..m /\ j <= k
      OBVIOUS
    <3>3. {s[j] : j \in 1..k} \subseteq UpTo(S, s[k])
      BY <1>6, <2>5, <3>2 DEF UpTo
    <3>4. ASSUME NEW y \in UpTo(S, s[k]) PROVE y \in {s[j] : j \in 1..k}
      <4>1. PICK j \in 1..m : y = s[j]
        BY <3>1 DEF UpTo
      <4>2. j <= k
        BY <2>5, <4>1 DEF UpTo
      <4>3. QED
        BY <4>1, <4>2
    <3>5. QED
      BY <3>3, <3>4
  <2>7. Range(t) = UpTo(S, s[k])
    BY <2>1, <2>3, <2>6 DEF Range
  <2>8. QED
    BY <2>3, <2>4, <2>7, DistinctRange
<1>8. QED
  BY <1>1, <1>2, <1>4, <1>6, <1>7

LEMMA SamePlace ==
    ASSUME NEW n \in Nat, NEW S \in SUBSET (1..n), NEW x \in S, NEW y \in S,
           Cardinality(UpTo(S, x)) = Cardinality(UpTo(S, y))
    PROVE  x = y
<1>1. ASSUME NEW a \in S, NEW b \in S, a < b PROVE Cardinality(UpTo(S, a)) # Cardinality(UpTo(S, b))
  <2>1. UpTo(S, a) \in SUBSET UpTo(S, b) /\ b \in UpTo(S, b) /\ b \notin UpTo(S, a)
    <3>1. a \in Int /\ b \in Int /\ \A z \in S : z \in Int
      OBVIOUS
    <3>2. \A z \in S : z <= a => z <= b
      BY <1>1, <3>1
    <3>3. b <= b /\ ~(b <= a)
      BY <1>1, <3>1
    <3>4. QED
      BY <3>2, <3>3 DEF UpTo
  <2>2. IsFiniteSet(UpTo(S, b))
    BY IntervalSize, FS_Subset DEF UpTo
  <2>3. QED
    BY <2>1, <2>2, FS_Subset
<1>2. ~(x < y) /\ ~(y < x)
  BY <1>1
<1>3. QED
  BY <1>2

\* The positions up to m come first, in the same order.
Prefix(n, m, s, t) ==
    /\ n \in Nat /\ m \in Nat
    /\ \E S \in SUBSET (1..n) : s \in InOrder(S) /\ t \in InOrder(S \cap (1..m))

LEMMA SameOrder ==
    ASSUME NEW n, NEW m, NEW s, NEW t, Prefix(n, m, s, t), NEW k \in DOMAIN s, s[k] \in 1..m
    PROVE  k \in DOMAIN t /\ t[k] = s[k]
<1>0. n \in Nat /\ m \in Nat
  BY DEF Prefix
<1>a. PICK S \in SUBSET (1..n) : s \in InOrder(S) /\ t \in InOrder(S \cap (1..m))
  BY DEF Prefix
<1>b. PICK T : T = S \cap (1..m)
  OBVIOUS
<1>1. T \in SUBSET (1..n) /\ T \subseteq S /\ T = S \cap (1..m) /\ t \in InOrder(T)
  BY <1>a, <1>b
<1>2. /\ DOMAIN s = 1..Cardinality(S) /\ s[k] \in S /\ Cardinality(UpTo(S, s[k])) = k
      /\ DOMAIN t = 1..Cardinality(T) /\ Range(t) = T
      /\ \A j \in DOMAIN t : t[j] \in T /\ Cardinality(UpTo(T, t[j])) = j
  <2>1. /\ DOMAIN s = 1..Cardinality(S)
        /\ \A j \in 1..Cardinality(S) : s[j] \in S /\ Cardinality(UpTo(S, s[j])) = j
    BY <1>0, <1>a, PlaceOf
  <2>2. /\ DOMAIN t = 1..Cardinality(T) /\ Range(t) = T
        /\ \A j \in 1..Cardinality(T) : t[j] \in T /\ Cardinality(UpTo(T, t[j])) = j
    BY <1>0, <1>1, PlaceOf
  <2>3. QED
    BY <2>1, <2>2
<1>3. s[k] \in T
  BY <1>1, <1>2
<1>4. PICK j \in DOMAIN t : t[j] = s[k]
  BY <1>2, <1>3 DEF Range
<1>5. UpTo(T, s[k]) = UpTo(S, s[k])
  <2>1. s[k] \in Int /\ s[k] <= m
    OBVIOUS
  <2>2. \A y \in S : y <= s[k] => y \in T
    BY <1>0, <1>1, <2>1
  <2>3. QED
    BY <1>1, <2>2 DEF UpTo
<1>6. j = k
  BY <1>2, <1>4, <1>5
<1>7. QED
  BY <1>4, <1>6

\* Rows that are numbered as they stand are ranked as they stand.
LEMMA RankIsPlace ==
    ASSUME NEW rows \in Seq(PageRow), Listed(rows), NEW rank \in Ranking(rows),
           NEW i \in DOMAIN rows
    PROVE  rank[i] = i
<1>1. PICK n \in Nat : n = Len(rows) /\ DOMAIN rows = 1..n
  BY LenProperties
<1>2. PICK S : S = 1..n
  OBVIOUS
<1>3. IsFiniteSet(S) /\ Cardinality(S) = n
  BY <1>2, IntervalSize
<1>4. rank \in [1..n -> S] /\ DOMAIN rank = 1..n
  BY <1>1, <1>2 DEF Ranking
<1>5. \A j, k \in 1..n : j < k => rank[j] < rank[k]
  <2> SUFFICES ASSUME NEW j \in 1..n, NEW k \in 1..n, j < k PROVE rank[j] < rank[k]
    OBVIOUS
  <2>1. j # k /\ rank[j] # rank[k] /\ (rank[k] < rank[j] => rows[k].number <= rows[j].number)
    BY <1>1 DEF Ranking
  <2>2. rows[k].number = k /\ rows[j].number = j
    BY <1>1 DEF Listed
  <2>3. rank[j] \in 1..n /\ rank[k] \in 1..n
    BY <1>2, <1>4
  <2>4. QED
    BY <2>1, <2>2, <2>3
<1>6. rank \in InOrder(S)
  BY <1>3, <1>4, <1>5 DEF InOrder
<1>7. \A k \in 1..n : rank[k] \in S /\ Cardinality(UpTo(S, rank[k])) = k
  <2>1. S \in SUBSET (1..n)
    BY <1>2
  <2>2. QED
    BY <1>3, <1>6, <2>1, PlaceOf
<1>8. UpTo(S, rank[i]) = 1..rank[i] /\ rank[i] \in Nat
  <2>1. rank[i] \in 1..n
    BY <1>1, <1>2, <1>7
  <2>2. QED
    BY <1>2, <2>1 DEF UpTo
<1>9. QED
  BY <1>1, <1>7, <1>8, IntervalSize

LEMMA ByNumberInOrder ==
    ASSUME NEW rows \in Seq(PageRow), Listed(rows), NEW S \in SUBSET DOMAIN rows,
           NEW s \in ByNumber(rows, S)
    PROVE  s \in InOrder(S)
<1>1. PICK n \in Nat : n = Len(rows) /\ DOMAIN rows = 1..n
  BY LenProperties
<1>2. PICK m \in Nat : m = Cardinality(S)
  BY <1>1, SetOfPositions
<1>3. s \in [1..m -> S] /\ DOMAIN s = 1..m
  BY <1>2 DEF ByNumber
<1>4. ASSUME NEW j \in 1..m, NEW k \in 1..m, j < k PROVE s[j] < s[k]
  <2>1. s[j] # s[k] /\ rows[s[j]].number <= rows[s[k]].number
    BY <1>3, <1>4 DEF ByNumber
  <2>2. s[j] \in 1..n /\ s[k] \in 1..n
    BY <1>1, <1>3
  <2>3. rows[s[j]].number = s[j] /\ rows[s[k]].number = s[k]
    BY <1>1, <2>2 DEF Listed
  <2>4. QED
    BY <2>1, <2>2, <2>3
<1>5. QED
  BY <1>2, <1>3, <1>4 DEF InOrder

-----------------------------------------------------------------------------
(* TextFollowsContent *)

\* A recognised text in rows is that of the page of file f at its place.
Follows(rows, f) ==
    \A i \in DOMAIN rows : rows[i].text \in Content =>
        f.kind = "pdf" /\ i \in DOMAIN f.pages /\ f.pages[i] = rows[i].text

\* What the source side of request q makes of the pages of file f.
CopiesOf(f, q) ==
    IF q.op = "apply" THEN {[k \in DOMAIN q.items |-> f.pages[q.items[k]]]}
    ELSE {[k \in DOMAIN s |-> f.pages[s[k]]] : s \in InOrder(DOMAIN f.pages \ Range(q.items))}

\* The rows request q has read belong to the file it copies from, in their order.
FromSource(q) ==
    /\ Follows(q.rows, file[q.old])
    /\ q.op = "extract_one" => "extract_one" \in Ops
    /\ q.op = "apply" => q.items \in InOrder(Range(q.items))

\* The source version that has its file and waits for its texts.
Rewritten(q) ==
    /\ file[q.old].kind = "pdf" /\ file[q.new].kind = "pdf"
    /\ Range(q.items) \subseteq DOMAIN file[q.old].pages
    /\ file[q.new].pages \in CopiesOf(file[q.old], q)
    /\ Owned(q.new, q.doc)

\* The new document of one page has one version.
Unfilled(q) == \A v, w \in VersionsOf(q.cur) : v = w /\ ~ver[v].sized
Single(q) ==
    \A v \in VersionsOf(q.cur) :
        /\ file[q.old].kind = "pdf" /\ Head(q.todo) \in DOMAIN file[q.old].pages
        /\ file[v] = Pdf(<<file[q.old].pages[Head(q.todo)]>>)

TextKnown(q) ==
    /\ q.pc \in SrcPcs \cup ExtPcs => FromSource(q)
    /\ q.pc = "srcText" => Rewritten(q)
    /\ q.op = "extract_one" =>
          (q.pc = "extPages" => Unfilled(q)) /\ (q.pc = "extText" => Single(q))

TextInv ==
    /\ \A v \in VerIds : Follows(ver[v].pages, file[v])
    /\ \A r \in Reqs : TextKnown(req[r])

\* Texts are copied in order to a version whose file has the pages they are from.
LEMMA CopyFollows ==
    ASSUME TypeInv, NEW v \in VerIds, Listed(ver[v].pages), Follows(ver[v].pages, file[v]),
           NEW rows \in Seq(PageRow), Listed(rows), NEW S \in SUBSET DOMAIN rows,
           NEW g, Follows(rows, g), CopyText(rows, S, v), file[v].kind = "pdf",
           \A s \in InOrder(S) : \A k \in DOMAIN s \cap DOMAIN ver[v].pages :
               s[k] \in DOMAIN g.pages =>
                   k \in DOMAIN file[v].pages /\ file[v].pages[k] = g.pages[s[k]]
    PROVE  /\ Follows(ver'[v].pages, file[v])
           /\ \A w \in VerIds \ {v} : ver'[w] = ver[w]
<1>1. PICK old, f : old = ver[v].pages /\ f = file[v]
  OBVIOUS
<1>2. PICK s \in ByNumber(rows, S) : WriteText(v, [k \in DOMAIN s |-> TextOf(rows[s[k]])])
  BY DEF CopyText
<1>3. PICK texts : texts = [k \in DOMAIN s |-> TextOf(rows[s[k]])]
  OBVIOUS
<1>4. WriteText(v, texts)
  BY <1>2, <1>3
<1> PICK rank \in Ranking(ver[v].pages) :
        ver' = [ver EXCEPT ![v].pages =
                [i \in DOMAIN ver[v].pages |->
                    IF ver[v].pages[i].text = NULL /\ rank[i] \in DOMAIN texts
                    THEN [ver[v].pages[i] EXCEPT !.text = texts[rank[i]]]
                    ELSE ver[v].pages[i]]]
  BY <1>4 DEF WriteText
<1>5. old \in Seq(PageRow) /\ \A i \in DOMAIN old : old[i] \in PageRow
  BY <1>1, ElementOfSeq, LenProperties DEF TypeInv, StoreType, Version
<1>6. \A i \in DOMAIN old : rank[i] = i
  BY <1>1, <1>5, RankIsPlace
<1>7. /\ \A w \in VerIds \ {v} : ver'[w] = ver[w]
      /\ ver'[v].pages = [i \in DOMAIN old |->
                    IF old[i].text = NULL /\ rank[i] \in DOMAIN texts
                    THEN [old[i] EXCEPT !.text = texts[rank[i]]]
                    ELSE old[i]]
  BY <1>1 DEF TypeInv, StoreType, Version
<1>8. s \in InOrder(S) /\ \A k \in DOMAIN s : s[k] \in S
  <2>1. s \in InOrder(S)
    BY ByNumberInOrder
  <2>2. s \in [1..Cardinality(S) -> S]
    BY DEF ByNumber
  <2>3. QED
    BY <2>1, <2>2
<1>9. ASSUME NEW i \in DOMAIN old, ver'[v].pages[i].text \in Content
      PROVE  i \in DOMAIN f.pages /\ f.pages[i] = ver'[v].pages[i].text
  <2>1. CASE old[i].text = NULL /\ i \in DOMAIN texts
    <3>1. ver'[v].pages[i] = [old[i] EXCEPT !.text = texts[i]]
      BY <1>6, <1>7, <2>1
    <3>2. ver'[v].pages[i].text = texts[i]
      BY <1>5, <3>1 DEF PageRow
    <3>3. texts[i] = TextOf(rows[s[i]]) /\ i \in DOMAIN s
      BY <1>3, <2>1
    <3>4. rows[s[i]].text \in Content /\ rows[s[i]].text = texts[i]
      BY <1>9, <3>2, <3>3, ContentAssumption DEF TextOf
    <3>5. s[i] \in DOMAIN rows /\ s[i] \in DOMAIN g.pages /\ g.pages[s[i]] = texts[i]
      BY <1>8, <3>3, <3>4 DEF Follows
    <3>6. QED
      BY <1>1, <1>8, <3>2, <3>3, <3>5
  <2>2. CASE ~(old[i].text = NULL /\ i \in DOMAIN texts)
    <3>1. ver'[v].pages[i] = old[i]
      BY <1>6, <1>7, <2>2
    <3>2. QED
      BY <1>1, <1>9, <3>1 DEF Follows
  <2>3. QED
    BY <2>1, <2>2
<1>10. DOMAIN ver'[v].pages = DOMAIN old
  BY <1>7
<1>11. QED
  BY <1>1, <1>7, <1>9, <1>10 DEF Follows

\* What the steps rely on.
TextBase ==
    /\ TypeInv /\ TypeInv' /\ HistoryInv /\ FreshInv /\ RowsInv /\ Persists /\ TextInv

\* Version v gets no recognised text it did not have.
NoNewText(v) ==
    \A i \in DOMAIN ver'[v].pages : ver'[v].pages[i].text \in Content =>
        i \in DOMAIN ver[v].pages /\ ver'[v].pages[i].text = ver[v].pages[i].text

LEMMA FollowsKept ==
    ASSUME Frozen, NEW v \in VerIds, NEW rows, Follows(rows, file[v])
    PROVE  Follows(rows, file[v])'
<1>1. CASE file[v].kind # "none"
  BY <1>1 DEF Frozen, Follows
<1>2. CASE file[v].kind = "none"
  BY <1>2 DEF Follows
<1>3. QED
  BY <1>1, <1>2

LEMMA OldTextsFollow ==
    ASSUME TextBase, \A v \in VerIds : NoNewText(v)
    PROVE  \A v \in VerIds : Follows(ver[v].pages, file[v])'
<1> SUFFICES ASSUME NEW v \in VerIds PROVE Follows(ver[v].pages, file[v])'
  OBVIOUS
<1>1. PICK rows : rows = ver[v].pages
  OBVIOUS
<1>2. Follows(rows, file[v])'
  BY <1>1, FollowsKept DEF TextBase, TextInv, Persists
<1>3. QED
  BY <1>1, <1>2 DEF NoNewText, Follows

LEMMA SameTexts == UNCHANGED ver => \A v \in VerIds : NoNewText(v)
BY DEF NoNewText

LEMMA DropTexts ==
    ASSUME NEW d, DropDocument(d)
    PROVE  \A v \in VerIds : NoNewText(v)
<1>1. NoVersion.pages = <<>> /\ \A i : i \notin DOMAIN <<>>
  BY DEF NoVersion
<1>2. QED
  BY <1>1 DEF DropDocument, NoNewText

LEMMA FreshTexts ==
    ASSUME NEW n, NEW i \in DOMAIN FreshRows(n)
    PROVE  FreshRows(n)[i].text \notin Content
BY ContentAssumption DEF FreshRows

LEMMA InsertTexts ==
    ASSUME TypeInv, nextVer \in VerIds, NEW row, ver' = [ver EXCEPT ![nextVer] = row],
           \A i \in DOMAIN row.pages : row.pages[i].text \notin Content
    PROVE  \A v \in VerIds : NoNewText(v)
<1>1. ver'[nextVer] = row /\ \A v \in VerIds \ {nextVer} : ver'[v] = ver[v]
  BY DEF TypeInv, StoreType
<1>2. QED
  BY <1>1 DEF NoNewText

LEMMA BumpTexts ==
    ASSUME TypeInv, NEW r, NEW d, NEW count, BumpInsert(r, d, count)
    PROVE  \A v \in VerIds : NoNewText(v)
<1>1. PICK row : row = BumpVersion(r, d, count)
  OBVIOUS
<1>2. row.pages = FreshRows(IF count = 0 THEN req[r].lcount ELSE count)
  BY <1>1 DEF BumpVersion, BumpRows
<1>3. \A i \in DOMAIN row.pages : row.pages[i].text \notin Content
  BY <1>2, FreshTexts
<1>4. QED
  BY <1>1, <1>3, InsertTexts DEF BumpInsert

LEMMA CreateTexts ==
    ASSUME TypeInv, NEW d, CreateDocument(d)
    PROVE  \A v \in VerIds : NoNewText(v)
<1>1. PICK row : row = [NoVersion EXCEPT !.doc = d, !.number = 1]
  OBVIOUS
<1>2. row.pages = <<>> /\ \A i : i \notin DOMAIN <<>>
  BY <1>1 DEF NoVersion
<1>3. QED
  BY <1>1, <1>2, InsertTexts DEF CreateDocument

LEMMA FillTexts ==
    ASSUME TypeInv, NEW d, NEW v \in VerIds, NEW s \in Seq(Content), FillVersion(d, v, s)
    PROVE  \A w \in VerIds : NoNewText(w)
<1>1. PICK a, b : a = ver[v].pages /\ b = FreshRows(Len(s))
  OBVIOUS
<1>2. a \in Seq(PageRow) /\ b \in Seq(PageRow)
  BY <1>1, LenProperties, FreshRowsType DEF TypeInv, StoreType, Version
<1>3. ver'[v].pages = a \o b /\ \A w \in VerIds \ {v} : ver'[w] = ver[w]
  BY <1>1 DEF FillVersion, TypeInv, StoreType
<1>4. ASSUME NEW i \in DOMAIN (a \o b), (a \o b)[i].text \in Content
      PROVE  i \in DOMAIN a /\ (a \o b)[i] = a[i]
  <2>1. /\ DOMAIN (a \o b) = 1..Len(a \o b) /\ Len(a \o b) = Len(a) + Len(b)
        /\ DOMAIN a = 1..Len(a) /\ DOMAIN b = 1..Len(b) /\ Len(a) \in Nat /\ Len(b) \in Nat
        /\ (a \o b)[i] = IF i <= Len(a) THEN a[i] ELSE b[i - Len(a)]
    BY <1>2, ConcatProperties, LenProperties
  <2>2. i <= Len(a)
    <3>1. SUFFICES ASSUME ~(i <= Len(a)) PROVE FALSE
      OBVIOUS
    <3>2. i - Len(a) \in DOMAIN b
      BY <2>1, <3>1
    <3>3. b[i - Len(a)].text \notin Content
      BY <1>1, <3>2, FreshTexts
    <3>4. QED
      BY <1>4, <2>1, <3>1, <3>3
  <2>3. QED
    BY <2>1, <2>2
<1>5. NoNewText(v)
  BY <1>1, <1>3, <1>4 DEF NoNewText
<1>6. QED
  BY <1>3, <1>5 DEF NoNewText

-----------------------------------------------------------------------------
(* TextFollowsContent: what the handlers know *)

LEMMA SourceKept ==
    ASSUME TextBase, NEW r \in Reqs, NEW q, q = req[r], q.pc \in SrcPcs \cup ExtPcs
    PROVE  q.old \in VerIds /\ FromSource(q) /\ FromSource(q)'
<1>1. q.old \in VerIds /\ FromSource(q)
  BY LocalsOf DEF TextBase, LocalsAt, TextInv, TextKnown
<1>2. Follows(q.rows, file[q.old])'
  <2>1. PICK v \in VerIds : v = q.old
    BY <1>1
  <2>2. Follows(q.rows, file[v])'
    BY <1>1, <2>1, FollowsKept DEF FromSource, TextBase, Persists
  <2>3. QED
    BY <2>1, <2>2
<1>3. QED
  BY <1>1, <1>2 DEF FromSource

LEMMA RewrittenKept ==
    ASSUME TextBase, NEW r \in Reqs, NEW q, q = req[r], q.pc = "srcText"
    PROVE  q.new \in VerIds /\ Rewritten(q) /\ Rewritten(q)'
<1>1. q.new \in VerIds /\ q.old \in VerIds /\ Rewritten(q)
  BY LocalsOf DEF TextBase, LocalsAt, SrcPcs, TextInv, TextKnown
<1>2. file'[q.old] = file[q.old] /\ file'[q.new] = file[q.new]
  BY <1>1 DEF Rewritten, TextBase, Persists, Frozen
<1>3. Owned(q.new, q.doc)'
  <2>1. q.new < nextVer
    <3>1. nextVer \in Int /\ q.new \in Int
      BY <1>1 DEF TextBase, TypeInv, StoreType, VerIds
    <3>2. ~(q.new >= nextVer)
      BY <1>1 DEF Rewritten, TextBase, FreshInv
    <3>3. QED
      BY <3>1, <3>2
  <2>2. QED
    BY <1>1, <2>1 DEF Rewritten, Owned, TextBase, Persists
<1>4. QED
  BY <1>1, <1>2, <1>3 DEF Rewritten

LEMMA TextKept ==
    ASSUME TextBase, NEW r \in Reqs, NEW q, q = req[r],
           "extract_one" \in Ops => ~Working(q)
    PROVE  TextKnown(q)'
<1>1. q.pc \in SrcPcs \cup ExtPcs => FromSource(q) /\ FromSource(q)'
  BY SourceKept
<1>2. q.pc = "srcText" => Rewritten(q)'
  BY RewrittenKept
<1>3. ~(q.op = "extract_one" /\ q.pc \in {"extPages", "extText"})
  BY <1>1 DEF FromSource, ExtPcs, Working, Stopped
<1>4. QED
  BY <1>1, <1>2, <1>3 DEF TextKnown

\* The step of one handler keeps the invariant, if it leaves the texts true and what
\* it knows is so.
Only(r) == Others(r) /\ ("extract_one" \in Ops => \A p \in Reqs \ {r} : ~Working(req[p]))

LEMMA TextStep ==
    ASSUME TextBase, NEW r \in Reqs, Only(r),
           \A v \in VerIds : Follows(ver[v].pages, file[v])', TextKnown(req[r])'
    PROVE  TextInv'
<1>1. ASSUME NEW p \in Reqs \ {r} PROVE TextKnown(req[p])'
  <2>1. PICK q : q = req[p]
    OBVIOUS
  <2>2. TextKnown(q)'
    BY <2>1, TextKept DEF Only
  <2>3. req'[p] = q
    BY <2>1 DEF Only, Others
  <2>4. QED
    BY <2>2, <2>3
<1>2. QED
  BY <1>1 DEF TextInv

\* A step to a point where nothing needs to be known.
LEMMA TextQuiet ==
    ASSUME TextBase, NEW r \in Reqs, Only(r), \A v \in VerIds : NoNewText(v),
           req'[r].pc \notin SrcPcs \cup ExtPcs
    PROVE  TextInv'
<1>1. TextKnown(req[r])'
  BY DEF TextKnown, SrcPcs, ExtPcs
<1>2. QED
  BY <1>1, OldTextsFollow, TextStep

\* A step to a point where no more needs to be known than what was chosen.
LEMMA TextGoesOn ==
    ASSUME TextBase, NEW r \in Reqs, Only(r), \A v \in VerIds : NoNewText(v),
           req[r].pc \in SrcPcs \cup ExtPcs, SameChoice(req'[r], req[r]),
           req'[r].pc \notin {"srcText", "extPages", "extText"}
    PROVE  TextInv'
<1>1. PICK p, q : p = req'[r] /\ q = req[r]
  OBVIOUS
<1>2. FromSource(q)'
  BY <1>1, SourceKept
<1>3. FromSource(p)'
  BY <1>1, <1>2 DEF FromSource, SameChoice
<1>4. TextKnown(p)'
  BY <1>1, <1>3 DEF TextKnown
<1>5. QED
  BY <1>1, <1>4, OldTextsFollow, TextStep

LEMMA TextRaise ==
    ASSUME TextBase, NEW r \in Reqs, Only(r), Raise(r)
    PROVE  TextInv'
<1>1. UNCHANGED ver /\ Goto(r, "error")
  BY DEF Raise, store
<1>2. req'[r].pc = "error"
  BY <1>1, PcChanged DEF TextBase
<1>3. QED
  BY <1>1, <1>2, SameTexts, TextQuiet DEF SrcPcs, ExtPcs

-----------------------------------------------------------------------------
(* TextFollowsContent: steps that write no texts *)

LEMMA TextGoto ==
    ASSUME TextBase, NEW r \in Reqs, Only(r), UNCHANGED ver, NEW pc, Goto(r, pc),
           pc \notin {"srcText", "extPages", "extText"},
           req[r].pc \in SrcPcs \cup ExtPcs \/ pc \notin SrcPcs \cup ExtPcs
    PROVE  TextInv'
<1>1. SameChoice(req'[r], req[r]) /\ req'[r].pc = pc
  BY GotoEffect DEF TextBase
<1>2. QED
  BY <1>1, SameTexts, TextGoesOn, TextQuiet

LEMMA TextReads ==
    ASSUME TextBase, NEW r \in Reqs, Only(r), SrcRead(r) \/ DstRead(r)
    PROVE  TextInv'
<1>1. CASE Raise(r)
  BY <1>1, TextRaise
<1>2. CASE ~Raise(r)
  <2>1. PICK d, next : /\ BumpRead(r, d, next)
                       /\ \/ req[r].pc = "srcRead" /\ next = "srcInsert"
                          \/ req[r].pc = "dstRead" /\ next = "dstInsert"
    BY <1>2 DEF SrcRead, DstRead, At
  <2>2. UNCHANGED ver /\ SameChoice(req'[r], req[r]) /\ req'[r].pc = next
    BY <1>2, <2>1, BumpReadRows DEF TextBase, store
  <2>3. CASE next = "srcInsert"
    BY <2>1, <2>2, <2>3, SameTexts, TextGoesOn DEF SrcPcs
  <2>4. CASE next = "dstInsert"
    BY <2>2, <2>4, SameTexts, TextQuiet DEF SrcPcs, ExtPcs
  <2>5. QED
    BY <2>1, <2>3, <2>4
<1>3. QED
  BY <1>1, <1>2

LEMMA TextSrcInsert ==
    ASSUME TextBase, NEW r \in Reqs, Only(r), SrcInsert(r)
    PROVE  TextInv'
<1>1. CASE Raise(r)
  BY <1>1, TextRaise
<1>2. CASE ~Raise(r)
  <2>1. PICK n, q : n = nextVer /\ q = req[r]
    OBVIOUS
  <2>2. /\ q.pc = "srcInsert" /\ BumpInsert(r, q.doc, SrcCount(r))
        /\ req' = [req EXCEPT ![r].pc = "srcPdf", ![r].new = n]
    BY <1>2, <2>1 DEF SrcInsert, At
  <2>3. PICK p : p = [q EXCEPT !.pc = "srcPdf", !.new = n]
    OBVIOUS
  <2>4. req' = [req EXCEPT ![r] = p]
    BY <2>1, <2>2, <2>3 DEF TextBase, TypeInv
  <2>5. req'[r] = p
    BY <2>4, OneChanged DEF TextBase
  <2>6. p.pc = "srcPdf" /\ SameChoice(p, q)
    BY <2>1, <2>3, LocalsOf DEF TextBase, Request, SameChoice
  <2>7. \A v \in VerIds : NoNewText(v)
    BY <2>2, BumpTexts DEF TextBase
  <2>8. QED
    BY <2>1, <2>2, <2>5, <2>6, <2>7, TextGoesOn DEF SrcPcs
<1>3. QED
  BY <1>1, <1>2

LEMMA TextDstInsert ==
    ASSUME TextBase, NEW r \in Reqs, Only(r), DstInsert(r)
    PROVE  TextInv'
<1>1. CASE Raise(r)
  BY <1>1, TextRaise
<1>2. CASE ~Raise(r)
  <2>1. /\ BumpInsert(r, req[r].into, DstCount(r))
        /\ req' = [req EXCEPT ![r].pc = "dstPdf", ![r].dnew = nextVer]
    BY <1>2 DEF DstInsert
  <2>2. req'[r].pc = "dstPdf"
    BY <2>1, LocalsOf DEF TextBase, TypeInv, Request
  <2>3. QED
    BY <2>1, <2>2, BumpTexts, TextQuiet DEF TextBase, SrcPcs, ExtPcs
<1>3. QED
  BY <1>1, <1>2

LEMMA TextMoves ==
    ASSUME TextBase, NEW r \in Reqs, Only(r),
           \/ SrcNotify(r) \/ DstPdf(r) \/ DstNotify(r) \/ ExtRead(r) \/ ExtNotify(r)
           \/ DelNotify(r) \/ Crash(r)
    PROVE  TextInv'
<1>1. CASE Raise(r)
  BY <1>1, TextRaise
<1>2. CASE DstPdf(r) /\ ~Raise(r)
  <2>1. UNCHANGED ver /\ req'[r].pc \in {"error", "purge", "dstNotify"}
    BY <1>2, DstPdfEffect DEF TextBase, store
  <2>2. QED
    BY <2>1, SameTexts, TextQuiet DEF SrcPcs, ExtPcs
<1>3. CASE SrcNotify(r)
  <2>1. PICK pc : Goto(r, pc) /\ pc \in {"done", "dstRead", "extRead"}
    BY <1>3 DEF SrcNotify
  <2>2. req[r].pc \in SrcPcs /\ UNCHANGED ver
    BY <1>3 DEF SrcNotify, At, SrcPcs, store
  <2>3. QED
    BY <2>1, <2>2, TextGoto
<1>4. CASE ExtRead(r)
  <2>1. PICK pc : Goto(r, pc) /\ pc \in {"extDoc", "extNotify", "error"}
    BY <1>4 DEF ExtRead
  <2>2. req[r].pc \in ExtPcs /\ UNCHANGED ver
    BY <1>4 DEF ExtRead, At, ExtPcs, store
  <2>3. QED
    BY <2>1, <2>2, TextGoto
<1>5. CASE ExtNotify(r)
  <2>1. PICK pc : Goto(r, pc) /\ pc \in {"error", "purge", "done"}
    BY <1>5 DEF ExtNotify
  <2>2. UNCHANGED ver
    BY <1>5 DEF ExtNotify, store
  <2>3. QED
    BY <2>1, <2>2, TextGoto DEF SrcPcs, ExtPcs
<1>6. CASE DstNotify(r) \/ DelNotify(r) \/ Crash(r)
  <2>1. PICK pc : Goto(r, pc) /\ pc \in {"done", "crashed"}
    BY <1>6 DEF DstNotify, DelNotify, Crash
  <2>2. UNCHANGED ver
    BY <1>6 DEF DstNotify, DelNotify, Crash, store
  <2>3. QED
    BY <2>1, <2>2, TextGoto DEF SrcPcs, ExtPcs
<1>7. QED
  BY <1>1, <1>2, <1>3, <1>4, <1>5, <1>6

LEMMA TextDeletes ==
    ASSUME TextBase, NEW r \in Reqs, Only(r), Purge(r) \/ DelCommit(r)
    PROVE  TextInv'
<1>1. PICK pc, d : Goto(r, pc) /\ pc \in {"done", "delNotify"} /\ DropDocument(d)
  BY DEF Purge, DelCommit
<1>2. req'[r].pc = pc
  BY <1>1, PcChanged DEF TextBase
<1>3. \A v \in VerIds : NoNewText(v)
  BY <1>1, DropTexts
<1>4. QED
  BY <1>1, <1>2, <1>3, TextQuiet DEF SrcPcs, ExtPcs

-----------------------------------------------------------------------------
(* TextFollowsContent: the source side *)

LEMMA TextSrcPdf ==
    ASSUME TextBase, NEW r \in Reqs, Only(r), SrcPdf(r)
    PROVE  TextInv'
<1>1. CASE Raise(r)
  BY <1>1, TextRaise
<1>2. CASE ~Raise(r)
  <2>1. PICK p, q : p = req'[r] /\ q = req[r]
    OBVIOUS
  <2>2. q.pc = "srcPdf" /\ Readable(q.old, Range(Numbers(r))) /\ UNCHANGED store
    BY <1>2, <2>1 DEF SrcPdf, At
  <2>3. PICK s \in SrcPages(r) : file' = [file EXCEPT ![q.new] = Pdf(s)]
    BY <1>2, <2>1 DEF SrcPdf
  <2>4. PICK pc : Goto(r, pc) /\ pc \in {"error", "srcText"}
    BY <1>2 DEF SrcPdf
  <2>5. SameChoice(p, q) /\ p.pc = pc /\ p.new = q.new
    BY <2>1, <2>4, GotoEffect, PcChanged DEF TextBase
  <2>6. \A v \in VerIds : NoNewText(v)
    BY <2>2, SameTexts DEF store
  <2>7. CASE pc = "error"
    BY <2>1, <2>5, <2>6, <2>7, TextQuiet DEF SrcPcs, ExtPcs
  <2>8. CASE pc = "srcText"
    <3>1. q.pc \in SrcPcs /\ LocalsAt(q.pc, q)
      BY <2>1, <2>2, LocalsOf DEF TextBase, SrcPcs
    <3>2. q.new \in VerIds /\ q.old \in VerIds /\ FromSource(q)'
      BY <2>1, <2>2, <3>1, SourceKept DEF LocalsAt
    <3>3. Choice(q) /\ Owned(q.new, q.doc)
      BY <2>1, <2>2, <3>1 DEF TextBase, RowsInv, Knows, HasRows, Owned
    <3>4. Numbers(r) = q.items
      BY <2>1, <3>3, NumbersAreItems DEF TextBase
    <3>5. PICK f : f = file[q.old]
      OBVIOUS
    <3>6. f.kind = "pdf" /\ file'[q.old] = f /\ file'[q.new] = Pdf(s)
      BY <2>2, <2>3, <3>2, <3>5 DEF Readable, TextBase, TypeInv, StoreType, Persists, Frozen
    <3>7. DOMAIN f.pages = 1..Len(f.pages) /\ Range(q.items) \subseteq DOMAIN f.pages
      BY <2>2, <3>2, <3>4, <3>5, LenProperties DEF Readable, TextBase, TypeInv, StoreType, File
    <3>8. s \in CopiesOf(f, q)
      BY <2>1, <2>3, <3>4, <3>5 DEF SrcPages, CopiesOf
    <3>9. Rewritten(q)'
      <4>1. file'[q.new].kind = "pdf" /\ file'[q.new].pages = s
        BY <3>6 DEF Pdf
      <4>2. Owned(q.new, q.doc)'
        BY <2>2, <3>3 DEF Owned, store
      <4>3. QED
        BY <3>6, <3>7, <3>8, <4>1, <4>2 DEF Rewritten
    <3>10. FromSource(p)'
      BY <2>5, <3>2 DEF FromSource, SameChoice
    <3>11. Rewritten(p)'
      <4>1. \A g : CopiesOf(g, p) = CopiesOf(g, q)
        BY <2>5 DEF CopiesOf, SameChoice
      <4>2. QED
        BY <2>5, <3>9, <4>1 DEF Rewritten, SameChoice
    <3>12. TextKnown(p)'
      BY <2>5, <2>8, <3>10, <3>11 DEF TextKnown
    <3>13. QED
      BY <2>1, <2>6, <3>12, OldTextsFollow, TextStep
  <2>9. QED
    BY <2>4, <2>7, <2>8
<1>3. QED
  BY <1>1, <1>2

\* The k-th row that is copied is the row of the k-th page.
LEMMA CopiedInOrder ==
    ASSUME TypeInv, RowsInv, NEW r \in Reqs, NEW q, q = req[r], q.pc = "srcText", Choice(q),
           FromSource(q), Rewritten(q), q.doc \in live, q.old \in VerIds,
           NEW S, S = (IF q.op = "apply" THEN Range(q.items) ELSE DOMAIN q.rows \ Range(q.items)),
           NEW s \in InOrder(S), NEW k \in DOMAIN s, s[k] \in DOMAIN file[q.old].pages
    PROVE  /\ k \in DOMAIN file[q.new].pages
           /\ file[q.new].pages[k] = file[q.old].pages[s[k]]
<1>1. PICK f, g, n, m : /\ f = file[q.new].pages /\ g = file[q.old].pages
                        /\ n = Len(q.rows) /\ m = Len(g)
  OBVIOUS
<1>2. q.rows \in Seq(PageRow) /\ q.items \in Seq(DOMAIN q.rows)
  BY LocalsOf DEF Request, LocalsAt
<1>3. /\ n \in Nat /\ DOMAIN q.rows = 1..n /\ Range(q.items) \subseteq 1..n
      /\ m \in Nat /\ DOMAIN g = 1..m
  <2>1. n \in Nat /\ DOMAIN q.rows = 1..n
    BY <1>1, <1>2, LenProperties
  <2>2. m \in Nat /\ DOMAIN g = 1..m
    BY <1>1, LenProperties DEF TypeInv, StoreType, File
  <2>3. QED
    BY <1>2, <2>1, <2>2, RangeOfSeq
<1>4. m <= n
  BY <1>1, SourceLength DEF Rewritten
<1>5. CASE q.op = "apply"
  <2>1. S = Range(q.items) /\ q.items \in InOrder(S) /\ S \in SUBSET (1..n)
    BY <1>3, <1>5 DEF FromSource
  <2>2. S \in SUBSET (1..m) /\ S = S \cap (1..m)
    BY <1>1, <1>3, <2>1 DEF Rewritten
  <2>3. s[k] \in 1..m
    BY <1>1, <1>3
  <2>t. Prefix(n, m, s, q.items)
    BY <1>3, <2>1, <2>2 DEF Prefix
  <2>4. k \in DOMAIN q.items /\ q.items[k] = s[k]
    BY <2>3, <2>t, SameOrder
  <2>5. f = [j \in DOMAIN q.items |-> g[q.items[j]]]
    BY <1>1, <1>5 DEF Rewritten, CopiesOf
  <2>6. QED
    BY <1>1, <2>4, <2>5
<1>6. CASE q.op # "apply"
  <2>0. file[q.new].pages \in {[j \in DOMAIN t |-> file[q.old].pages[t[j]]] :
                                  t \in InOrder(DOMAIN file[q.old].pages \ Range(q.items))}
    BY Zenon, <1>6 DEF Rewritten, CopiesOf
  <2> PICK t \in InOrder(DOMAIN file[q.old].pages \ Range(q.items)) :
        file[q.new].pages = [j \in DOMAIN t |-> file[q.old].pages[t[j]]]
    BY <2>0
  <2>1. t \in InOrder(DOMAIN g \ Range(q.items)) /\ f = [j \in DOMAIN t |-> g[t[j]]]
    BY <1>1
  <2>2. PICK T : T = (1..m) \ Range(q.items)
    OBVIOUS
  <2>3. t \in InOrder(T)
    BY <1>3, <2>1, <2>2
  <2>4. S = (1..n) \ Range(q.items)
    BY <1>3, <1>6
  <2>5. S \in SUBSET (1..n) /\ T = S \cap (1..m)
    BY <1>3, <1>4, <2>2, <2>4
  <2>6. s[k] \in 1..m
    BY <1>1, <1>3
  <2>p. Prefix(n, m, s, t)
    BY <1>3, <2>3, <2>5 DEF Prefix
  <2>7. k \in DOMAIN t /\ t[k] = s[k]
    BY <2>6, <2>p, SameOrder
  <2>8. QED
    BY <1>1, <2>1, <2>7
<1>7. QED
  BY <1>5, <1>6

LEMMA TextSrcText ==
    ASSUME TextBase, NEW r \in Reqs, Only(r), SrcText(r)
    PROVE  TextInv'
<1>1. PICK q : q = req[r]
  OBVIOUS
<1>2. PICK S : S = IF q.op = "apply" THEN Range(q.items) ELSE DOMAIN q.rows \ Range(q.items)
  OBVIOUS
<1>3. /\ q.pc = "srcText" /\ CopyText(q.rows, S, q.new) /\ Goto(r, "srcNotify")
      /\ UNCHANGED file
  BY <1>1, <1>2 DEF SrcText, At, Chosen, Kept
<1>4. q.pc \in SrcPcs /\ LocalsAt(q.pc, q) /\ q.rows \in Seq(PageRow)
  BY <1>1, <1>3, LocalsOf DEF TextBase, SrcPcs, Request
<1>5. /\ q.new \in VerIds /\ q.old \in VerIds /\ Rewritten(q) /\ FromSource(q)
      /\ Choice(q) /\ Listed(q.rows)
  BY <1>1, <1>3, <1>4, SourceKept, RewrittenKept DEF TextBase, RowsInv, Knows, Choice
<1>6. S \in SUBSET DOMAIN q.rows
  BY <1>2, <1>4, RangeOfSeq DEF LocalsAt
<1>7. ASSUME NEW s \in InOrder(S), NEW k \in DOMAIN s \cap DOMAIN ver[q.new].pages,
             s[k] \in DOMAIN file[q.old].pages
      PROVE  /\ k \in DOMAIN file[q.new].pages
             /\ file[q.new].pages[k] = file[q.old].pages[s[k]]
  <2>1. ver[q.new].doc # NoDoc
    <3>1. Len(ver[q.new].pages) # 0
      BY <1>5, LenProperties DEF TextBase, TypeInv, StoreType, Version
    <3>2. QED
      BY <1>5, <3>1 DEF TextBase, RowsInv, Rowed
  <2>2. q.doc \in live
    BY <1>5, <2>1 DEF Rewritten, Owned, TextBase, HistoryInv, Cascaded
  <2>3. QED
    BY <1>1, <1>2, <1>3, <1>5, <1>7, <2>2, CopiedInOrder DEF TextBase
<1>8. /\ Listed(ver[q.new].pages) /\ Follows(ver[q.new].pages, file[q.new])
      /\ Follows(q.rows, file[q.old]) /\ file[q.new].kind = "pdf"
  BY <1>5 DEF TextBase, RowsInv, Rowed, TextInv, FromSource, Rewritten
<1>9. /\ Follows(ver'[q.new].pages, file[q.new])
      /\ \A w \in VerIds \ {q.new} : ver'[w] = ver[w]
  BY <1>3, <1>4, <1>5, <1>6, <1>7, <1>8, CopyFollows DEF TextBase
<1>10. \A v \in VerIds : Follows(ver[v].pages, file[v])'
  BY <1>3, <1>9 DEF TextBase, TextInv
<1>11. PICK p : p = req'[r]
  OBVIOUS
<1>12. SameChoice(p, q) /\ p.pc = "srcNotify"
  BY <1>1, <1>3, <1>11, GotoEffect DEF TextBase
<1>13. FromSource(q)'
  BY <1>1, <1>4, SourceKept
<1>14. TextKnown(p)'
  BY <1>12, <1>13 DEF TextKnown, FromSource, SameChoice
<1>15. QED
  BY <1>10, <1>11, <1>14, TextStep

-----------------------------------------------------------------------------
(* TextFollowsContent: extraction *)

LEMMA TextExtDoc ==
    ASSUME TextBase, NEW r \in Reqs, Only(r), ExtDoc(r)
    PROVE  TextInv'
<1>1. PICK p, q : p = req'[r] /\ q = req[r]
  OBVIOUS
<1>2. PICK d \in FreshDoc : CreateDocument(d) /\ p.cur = d
  BY <1>1, ExtDocEffect DEF TextBase
<1>3. SameChoice(p, q) /\ p.pc = "extPages" /\ q.pc \in ExtPcs
  BY <1>1, ExtDocRows DEF TextBase, ExtDoc, At, ExtPcs
<1>4. FromSource(p)'
  <2>1. FromSource(q)'
    BY <1>1, <1>3, SourceKept
  <2>2. QED
    BY <1>3, <2>1 DEF FromSource, SameChoice
<1>5. Unfilled(p)'
  <2>1. PICK row : row = [NoVersion EXCEPT !.doc = d, !.number = 1]
    OBVIOUS
  <2>2. nextVer \in VerIds /\ d \in unborn /\ ver' = [ver EXCEPT ![nextVer] = row]
    BY <1>2, <2>1 DEF CreateDocument
  <2>3. ~row.sized
    BY <2>1 DEF NoVersion
  <2>4. ver'[nextVer] = row /\ \A v \in VerIds \ {nextVer} : ver'[v] = ver[v]
    BY <2>2 DEF TextBase, TypeInv, StoreType
  <2>5. \A v \in VerIds : ver[v].doc # d
    BY <2>2, DocsAssumption DEF TextBase, HistoryInv, Cascaded, TypeInv, StoreType
  <2>6. \A v \in VerIds : ver'[v].doc = d => v = nextVer
    BY <2>4, <2>5
  <2>7. \A v \in VersionsOf(d)' : v = nextVer /\ ~ver'[v].sized
    BY <2>3, <2>4, <2>6 DEF VersionsOf
  <2>8. QED
    BY <1>2, <2>7 DEF Unfilled
<1>6. TextKnown(p)'
  BY <1>3, <1>4, <1>5 DEF TextKnown
<1>7. \A v \in VerIds : NoNewText(v)
  BY <1>2, CreateTexts DEF TextBase
<1>8. QED
  BY <1>1, <1>6, <1>7, OldTextsFollow, TextStep

\* A version that waits in a new document is the only one it has, then the filled one is.
LEMMA FilledAlone ==
    ASSUME TypeInv, NEW d, d # NoDoc, \A v, w \in VersionsOf(d) : v = w /\ ~ver[v].sized,
           NEW v \in FillTarget(d), NEW s, FillVersion(d, v, s)
    PROVE  VersionsOf(d)' \subseteq {v}
<1>1. v \in VerIds /\ \A w \in VerIds \ {v} : ver'[w] = ver[w]
  BY DEF FillTarget, Highest, Unsized, VersionsOf, FillVersion, TypeInv, StoreType
<1>2. \A w \in VersionsOf(d) : w = v
  <2>1. CASE Unsized(d) = {}
    BY <2>1 DEF Unsized
  <2>2. CASE Unsized(d) # {}
    BY <2>2 DEF FillTarget, Highest, Unsized
  <2>3. QED
    BY <2>1, <2>2
<1>3. QED
  BY <1>1, <1>2 DEF VersionsOf

LEMMA ExtPagesCur ==
    ASSUME TypeInv, NEW r \in Reqs, ExtPages(r), ~Raise(r)
    PROVE  req'[r].cur = req[r].cur
<1>1. \E v : req' = [req EXCEPT ![r].out = @ \cup {v},
                  ![r].pc = IF req[r].op = "extract_one" /\ req[r].old \in ocr
                            THEN "error" ELSE "extText"]
  BY Zenon DEF ExtPages
<1>2. PICK v : req' = [req EXCEPT ![r].out = @ \cup {v},
                  ![r].pc = IF req[r].op = "extract_one" /\ req[r].old \in ocr
                            THEN "error" ELSE "extText"]
  BY <1>1
<1>3. PICK pc : pc = IF req[r].op = "extract_one" /\ req[r].old \in ocr
                     THEN "error" ELSE "extText"
  OBVIOUS
<1>4. PICK p : p = [req[r] EXCEPT !.out = req[r].out \cup {v}, !.pc = pc]
  OBVIOUS
<1>5. req' = [req EXCEPT ![r] = p]
  BY <1>2, <1>3, <1>4 DEF TypeInv
<1>6. req'[r] = p
  BY <1>5, OneChanged
<1>7. p.cur = req[r].cur
  BY <1>4, LocalsOf DEF Request
<1>8. QED
  BY <1>6, <1>7

LEMMA TextExtPages ==
    ASSUME TextBase, NEW r \in Reqs, Only(r), ExtPages(r)
    PROVE  TextInv'
<1>1. CASE Raise(r)
  BY <1>1, TextRaise
<1>2. CASE ~Raise(r)
  <2>1. PICK p, q, s : p = req'[r] /\ q = req[r] /\ s = BatchPages(r)
    OBVIOUS
  <2>2. /\ q.pc = "extPages" /\ Readable(q.old, Range(BatchNumbers(r)))
        /\ SameChoice(p, q) /\ p.todo = q.todo /\ p.pc \in {"error", "extText"}
        /\ \E v \in FillTarget(q.cur) : FillVersion(q.cur, v, s)
    BY <1>2, <2>1, ExtPagesRows DEF TextBase
  <2>3. PICK v \in FillTarget(q.cur) : FillVersion(q.cur, v, s)
    BY <2>2
  <2>4. q.pc \in ExtPcs
    BY <2>2 DEF ExtPcs
  <2>5. Choice(q)
    BY <2>1, <2>4 DEF TextBase, RowsInv, Knows
  <2>6. s \in Seq(Content)
    BY <2>1, <2>2, <2>5, BatchPagesAre DEF TextBase
  <2>7. v \in VerIds /\ file'[v] = Pdf(s)
    BY <2>1, <2>2, <2>3, <2>6, RowsFilled DEF TextBase
  <2>8. \A w \in VerIds : NoNewText(w)
    BY <2>3, <2>6, <2>7, FillTexts DEF TextBase
  <2>9. CASE p.pc = "error"
    BY <2>1, <2>8, <2>9, TextQuiet DEF SrcPcs, ExtPcs
  <2>10. CASE p.pc = "extText"
    <3>1. q.old \in VerIds /\ FromSource(q)'
      BY <2>1, <2>4, SourceKept
    <3>2. FromSource(p)'
      BY <2>2, <3>1 DEF FromSource, SameChoice
    <3>3. ASSUME q.op = "extract_one" PROVE Single(p)'
      <4>1. PICK f, h : f = file[q.old] /\ h = Head(q.todo)
        OBVIOUS
      <4>2. f.kind = "pdf" /\ file'[q.old] = f
        BY <2>2, <3>1, <4>1 DEF Readable, TextBase, Persists, Frozen
      <4>3. Batch(r) = <<h>>
        BY <2>1, <3>3, <4>1 DEF Batch
      <4>4. h \in DOMAIN f.pages /\ s = <<f.pages[h]>>
        <5>1. q.todo \in Seq(DOMAIN q.rows) /\ q.todo # <<>>
          BY <2>1, <2>2, LocalsOf DEF TextBase, LocalsAt
        <5>2. h \in DOMAIN q.rows
          BY <4>1, <5>1, HeadTailProperties
        <5>3. q.rows[h].number = h
          BY <2>5, <5>2 DEF Choice, Listed
        <5>4. BatchNumbers(r) = <<h>>
          BY <2>1, <4>3, <5>3 DEF BatchNumbers
        <5>5. s = <<f.pages[h]>>
          BY <2>1, <4>1, <5>4 DEF BatchPages
        <5>6. h \in Range(BatchNumbers(r))
          BY <5>4 DEF Range
        <5>7. DOMAIN f.pages = 1..Len(f.pages)
          BY <3>1, <4>1, LenProperties DEF TextBase, TypeInv, StoreType, File
        <5>8. QED
          BY <2>2, <4>1, <5>5, <5>6, <5>7 DEF Readable
      <4>5. Unfilled(q) /\ q.cur # NoDoc
        BY <2>1, <2>2, <3>3, TargetType DEF TextBase, TextInv, TextKnown
      <4>6. VersionsOf(q.cur)' \subseteq {v}
        BY <2>3, <4>5, FilledAlone DEF TextBase, Unfilled
      <4>7. p.cur = q.cur
        BY <1>2, <2>1, ExtPagesCur DEF TextBase
      <4>8. \A w \in VersionsOf(p.cur)' : w = v
        BY <4>6, <4>7 DEF VersionsOf
      <4>9. p.old = q.old /\ p.todo = q.todo
        BY <2>2 DEF SameChoice
      <4>10. QED
        BY <2>7, <4>1, <4>2, <4>4, <4>8, <4>9 DEF Single
    <3>4. TextKnown(p)'
      <4>1. p.op = q.op
        BY <2>2 DEF SameChoice
      <4>2. QED
        BY <2>10, <3>2, <3>3, <4>1 DEF TextKnown
    <3>5. QED
      BY <2>1, <2>8, <3>4, OldTextsFollow, TextStep
  <2>11. QED
    BY <2>2, <2>9, <2>10
<1>3. QED
  BY <1>1, <1>2

\* The text of one page is copied to a version of that page alone.
LEMMA CopyOne ==
    ASSUME TypeInv, NEW v \in VerIds, Listed(ver[v].pages), Follows(ver[v].pages, file[v]),
           NEW rows \in Seq(PageRow), Listed(rows), NEW h \in DOMAIN rows,
           NEW g, Follows(rows, g), CopyText(rows, {h}, v), file[v] = Pdf(<<g.pages[h]>>)
    PROVE  /\ Follows(ver'[v].pages, file[v])
           /\ \A w \in VerIds \ {v} : ver'[w] = ver[w]
<1>1. file[v].kind = "pdf" /\ file[v].pages = <<g.pages[h]>>
  BY DEF Pdf
<1>2. PICK S \in SUBSET DOMAIN rows : S = {h}
  OBVIOUS
<1>3. ASSUME NEW s \in InOrder(S), NEW k \in DOMAIN s \cap DOMAIN ver[v].pages,
             s[k] \in DOMAIN g.pages
      PROVE  k \in DOMAIN file[v].pages /\ file[v].pages[k] = g.pages[s[k]]
  <2>1. Cardinality({h}) = 1
    BY FS_Singleton
  <2>2. s \in [1..1 -> {h}]
    BY <1>2, <2>1 DEF InOrder
  <2>3. k = 1 /\ s[k] = h
    BY <2>2
  <2>4. QED
    BY <1>1, <2>3
<1>4. file[v].kind = "pdf" /\ CopyText(rows, S, v)
  BY <1>1, <1>2
<1>5. QED
  BY <1>3, <1>4, CopyFollows

LEMMA TextExtText ==
    ASSUME TextBase, NEW r \in Reqs, Only(r), ExtText(r)
    PROVE  TextInv'
<1>1. PICK p, q : p = req'[r] /\ q = req[r]
  OBVIOUS
<1>2. /\ q.pc = "extText" /\ UNCHANGED file /\ SameChoice(p, q)
      /\ p.pc \in {"error", "extNotify", "extDoc"}
  BY <1>1, ExtTextRows DEF TextBase
<1>3. q.pc \in SrcPcs \cup ExtPcs
  BY <1>2 DEF ExtPcs
<1>4. CASE UNCHANGED store
  BY <1>1, <1>2, <1>3, <1>4, SameTexts, TextGoesOn DEF store
<1>5. CASE ~UNCHANGED store
  <2>1. /\ q.op = "extract_one"
        /\ \E v \in VersionsOf(q.cur) : CopyText(q.rows, Range(Batch(r)), v)
    BY <1>1, <1>5 DEF ExtText
  <2>2. PICK v \in VersionsOf(q.cur) : CopyText(q.rows, Range(Batch(r)), v)
    BY <2>1
  <2>3. q.rows \in Seq(PageRow) /\ q.todo \in Seq(DOMAIN q.rows) /\ q.todo # <<>>
    BY <1>1, <1>2, LocalsOf DEF TextBase, LocalsAt, Request
  <2>4. PICK h \in DOMAIN q.rows : h = Head(q.todo)
    BY <2>3, HeadTailProperties
  <2>5. Batch(r) = <<h>>
    BY <1>1, <2>1, <2>4 DEF Batch
  <2>6. Range(Batch(r)) = {h}
    BY <2>5 DEF Range
  <2>7. FromSource(q) /\ FromSource(q)' /\ q.old \in VerIds
    BY <1>1, <1>3, SourceKept
  <2>8. Listed(q.rows)
    BY <1>1, <1>2 DEF TextBase, RowsInv, Knows, Choice, ExtPcs
  <2>9. PICK g : g = file[q.old]
    OBVIOUS
  <2>10. v \in VerIds /\ file[v] = Pdf(<<g.pages[h]>>)
    BY <1>1, <1>2, <2>1, <2>4, <2>9 DEF TextBase, TextInv, TextKnown, Single, VersionsOf
  <2>11. Listed(ver[v].pages) /\ Follows(ver[v].pages, file[v]) /\ Follows(q.rows, g)
    BY <2>7, <2>9, <2>10 DEF TextBase, RowsInv, Rowed, TextInv, FromSource
  <2>12. CopyText(q.rows, {h}, v)
    BY <2>2, <2>6
  <2>13. Follows(ver'[v].pages, file[v]) /\ \A w \in VerIds \ {v} : ver'[w] = ver[w]
    BY <2>3, <2>4, <2>8, <2>10, <2>11, <2>12, CopyOne DEF TextBase
  <2>14. \A w \in VerIds : Follows(ver[w].pages, file[w])'
    BY <1>2, <2>13 DEF TextBase, TextInv
  <2>15. FromSource(p)'
    BY <1>2, <2>7 DEF FromSource, SameChoice
  <2>16. TextKnown(p)'
    BY <1>2, <2>15 DEF TextKnown
  <2>17. QED
    BY <1>1, <2>14, <2>16, TextStep
<1>6. QED
  BY <1>4, <1>5

-----------------------------------------------------------------------------
(* TextFollowsContent: requests that arrive, and the OCR worker *)

LEMMA TextChosen ==
    ASSUME TextBase, NEW r \in Reqs, Only(r), UNCHANGED <<store, file>>, NEW v \in Choosable,
           NEW q, req'[r] = q, q.pc = "srcRead", q.old = v, q.rows = ver[v].pages,
           q.op \in Ops, q.op = "apply" => q.items \in InOrder(Range(q.items))
    PROVE  TextInv'
<1>1. v \in VerIds
  BY DEF Choosable
<1>2. FromSource(q)'
  BY <1>1 DEF FromSource, TextBase, TextInv
<1>3. TextKnown(q)'
  BY <1>2 DEF TextKnown
<1>4. QED
  BY <1>3, SameTexts, OldTextsFollow, TextStep DEF store

LEMMA InOrderOfItself ==
    ASSUME NEW n \in Nat, NEW S \in SUBSET (1..n), NEW s \in InOrder(S)
    PROVE  s \in InOrder(Range(s))
BY PlaceOf

LEMMA TextBegin ==
    ASSUME ~Reorder, UploadOps \cap Ops = {}, TextBase, NEW r \in Reqs, Only(r), Begin(r)
    PROVE  TextInv'
<1>1. CASE BeginApply(r)
  <2>0. PICK v \in Choosable : \E S \in Chosenable(v) :
          \E items \in IF Reorder THEN Bijection(1..Cardinality(S), S) ELSE InOrder(S) :
              req' = [req EXCEPT ![r] = Selected("apply", v, items)]
    BY <1>1 DEF BeginApply
  <2>1. PICK S \in Chosenable(v) : \E items \in InOrder(S) :
          req' = [req EXCEPT ![r] = Selected("apply", v, items)]
    BY <2>0
  <2>2. PICK items \in InOrder(S) : req' = [req EXCEPT ![r] = Selected("apply", v, items)]
    BY <2>1
  <2>3. PICK q : q = Selected("apply", v, items)
    OBVIOUS
  <2>4. req'[r] = q
    BY <2>2, <2>3, OneChanged DEF TextBase
  <2>5. /\ q.pc = "srcRead" /\ q.old = v /\ q.rows = ver[v].pages /\ q.items = items
        /\ q.op = "apply"
    BY <2>3 DEF Selected, NoRequest
  <2>6. items \in InOrder(Range(items))
    <3>1. S \in SUBSET (1..Len(ver[v].pages)) /\ Len(ver[v].pages) \in Nat
      BY LenProperties DEF Chosenable, Choosable, TextBase, TypeInv, StoreType, Version
    <3>2. QED
      BY <3>1, InOrderOfItself
  <2>7. "apply" \in Ops /\ UNCHANGED <<store, file>>
    BY <1>1 DEF BeginApply, MayBegin
  <2>8. QED
    BY <2>4, <2>5, <2>6, <2>7, TextChosen
<1>2. CASE BeginExtract(r)
  <2>0. PICK op \in ExtractOps : /\ op \in Ops /\ UNCHANGED <<store, file>>
          /\ \E v \in Choosable : \E S \in Chosenable(v) : \E items \in ByNumber(ver[v].pages, S) :
                req' = [req EXCEPT ![r] = Selected(op, v, items)]
    BY <1>2 DEF BeginExtract, MayBegin
  <2>1. PICK v \in Choosable : \E S \in Chosenable(v) : \E items \in ByNumber(ver[v].pages, S) :
                req' = [req EXCEPT ![r] = Selected(op, v, items)]
    BY <2>0
  <2>2. PICK items : req' = [req EXCEPT ![r] = Selected(op, v, items)]
    BY <2>1
  <2>3. PICK q : q = Selected(op, v, items)
    OBVIOUS
  <2>4. req'[r] = q
    BY <2>2, <2>3, OneChanged DEF TextBase
  <2>5. q.pc = "srcRead" /\ q.old = v /\ q.rows = ver[v].pages /\ q.op \in Ops /\ q.op # "apply"
    BY <2>0, <2>3 DEF Selected, NoRequest, ExtractOps
  <2>6. QED
    BY <2>0, <2>4, <2>5, TextChosen
<1>3. CASE BeginMove(r)
  <2>0. PICK op \in MoveOps : /\ op \in Ops /\ UNCHANGED <<store, file>>
          /\ \E v, w \in Choosable : \E S \in Chosenable(v), i \in DOMAIN ver[w].pages :
             \E items \in ByNumber(ver[v].pages, S) :
                /\ SameDocMove \/ ver[v].doc # ver[w].doc
                /\ req' = [req EXCEPT ![r] = Targeted(Selected(op, v, items), w, i)]
    BY <1>3 DEF BeginMove, MayBegin
  <2>1. PICK v \in Choosable, w \in Choosable :
          \E S \in Chosenable(v), i \in DOMAIN ver[w].pages :
             \E items \in ByNumber(ver[v].pages, S) :
                /\ SameDocMove \/ ver[v].doc # ver[w].doc
                /\ req' = [req EXCEPT ![r] = Targeted(Selected(op, v, items), w, i)]
    BY <2>0
  <2>2. PICK i, items : req' = [req EXCEPT ![r] = Targeted(Selected(op, v, items), w, i)]
    BY <2>1
  <2>3. PICK q : q = Targeted(Selected(op, v, items), w, i)
    OBVIOUS
  <2>4. req'[r] = q
    BY <2>2, <2>3, OneChanged DEF TextBase
  <2>5. q.pc = "srcRead" /\ q.old = v /\ q.rows = ver[v].pages /\ q.op \in Ops /\ q.op # "apply"
    BY <2>0, <2>3 DEF Targeted, Selected, NoRequest, MoveOps
  <2>6. QED
    BY <2>0, <2>4, <2>5, TextChosen
<1>4. CASE Create(r)
  <2>1. PICK q : q = [NoRequest EXCEPT !.op = "create", !.pc = "done"]
    OBVIOUS
  <2>2. q.pc = "done" /\ req' = [req EXCEPT ![r] = q]
    BY <1>4, <2>1 DEF Create, NoRequest
  <2>3. req'[r].pc = "done"
    BY <2>2, OneChanged DEF TextBase
  <2>4. \A v \in VerIds : NoNewText(v)
    BY <1>4, CreateTexts DEF Create, TextBase
  <2>5. QED
    BY <2>3, <2>4, TextQuiet DEF SrcPcs, ExtPcs
<1>5. CASE BeginDelete(r)
  <2>1. PICK d : req' = [req EXCEPT ![r] = [NoRequest EXCEPT
                    !.op = "delete", !.pc = "delCommit", !.doc = d,
                    !.gone = {v \in VersionsOf(d) : ver[v].pages # <<>>}]]
    BY <1>5 DEF BeginDelete
  <2>2. PICK q : q = [NoRequest EXCEPT
                    !.op = "delete", !.pc = "delCommit", !.doc = d,
                    !.gone = {v \in VersionsOf(d) : ver[v].pages # <<>>}]
    OBVIOUS
  <2>3. q.pc = "delCommit" /\ req' = [req EXCEPT ![r] = q]
    BY <2>1, <2>2 DEF NoRequest
  <2>4. req'[r].pc = "delCommit" /\ UNCHANGED store
    BY ZenonT(40), <1>5, <2>3, OneChanged DEF BeginDelete, TextBase
  <2>5. QED
    BY <2>4, SameTexts, TextQuiet DEF SrcPcs, ExtPcs, store
<1>6. ~BeginUpload(r)
  BY DEF BeginUpload, MayBegin
<1>7. QED
  BY <1>1, <1>2, <1>3, <1>4, <1>5, <1>6 DEF Begin

LEMMA TextSame ==
    ASSUME TextBase, UNCHANGED <<req, file>>, SameVersions,
           \A v \in VerIds : Follows(ver[v].pages, file[v])',
           \A v \in VerIds : ver'[v].sized = ver[v].sized
    PROVE  TextInv'
<1>1. \A d : VersionsOf(d)' = VersionsOf(d)
  BY DEF VersionsOf, SameVersions
<1>2. ASSUME NEW r \in Reqs, NEW q, q = req[r] PROVE TextKnown(q)'
  <2>1. TextKnown(q) /\ (q.pc \in SrcPcs \cup ExtPcs => FromSource(q)')
    BY <1>2, SourceKept DEF TextBase, TextInv
  <2>2. q.pc = "srcText" => Rewritten(q)'
    BY <1>2, RewrittenKept
  <2>3. Unfilled(q) => Unfilled(q)'
    BY <1>1 DEF Unfilled, VersionsOf
  <2>4. Single(q) => Single(q)'
    BY <1>1 DEF Single
  <2>5. QED
    BY <2>1, <2>2, <2>3, <2>4 DEF TextKnown
<1>3. ASSUME NEW r \in Reqs PROVE TextKnown(req[r])'
  <2>1. PICK q : q = req[r]
    OBVIOUS
  <2>2. TextKnown(q)' /\ req'[r] = q
    BY <1>2, <2>1
  <2>3. QED
    BY <2>2
<1>4. QED
  BY <1>3 DEF TextInv

\* The worker takes the text of a row from the page of its number.
LEMMA TextOcr ==
    ASSUME TextBase, NEW v \in VerIds, OcrDone(v)
    PROVE  TextInv'
<1>1. PICK rows, f : rows = ver[v].pages /\ f = file[v].pages
  OBVIOUS
<1>2. /\ file[v].kind = "pdf" /\ UNCHANGED <<req, file>>
      /\ ver' = [ver EXCEPT ![v].pages = [i \in DOMAIN ver[v].pages |->
                     IF ver[v].pages[i].text = NULL /\ ver[v].pages[i].number \in DOMAIN file[v].pages
                     THEN [ver[v].pages[i] EXCEPT !.text = file[v].pages[ver[v].pages[i].number]]
                     ELSE ver[v].pages[i]]]
  BY DEF OcrDone
<1>3. rows \in Seq(PageRow) /\ Listed(rows) /\ Follows(rows, file[v])
  BY <1>1 DEF TextBase, TypeInv, StoreType, Version, RowsInv, Rowed, TextInv
<1>4. \A i \in DOMAIN rows : rows[i] \in PageRow /\ rows[i].number = i
  BY Zenon, <1>3, ElementOfSeq, LenProperties DEF Listed
<1>5. /\ ver'[v].pages = [i \in DOMAIN rows |->
                     IF rows[i].text = NULL /\ rows[i].number \in DOMAIN f
                     THEN [rows[i] EXCEPT !.text = f[rows[i].number]]
                     ELSE rows[i]]
      /\ \A w \in VerIds \ {v} : ver'[w] = ver[w]
      /\ ver'[v].doc = ver[v].doc /\ ver'[v].number = ver[v].number
      /\ ver'[v].sized = ver[v].sized
  BY Zenon, <1>1, <1>2 DEF TextBase, TypeInv, StoreType, Version
<1>6. ASSUME NEW i \in DOMAIN rows, ver'[v].pages[i].text \in Content
      PROVE  i \in DOMAIN f /\ f[i] = ver'[v].pages[i].text
  <2>1. CASE rows[i].text = NULL /\ i \in DOMAIN f
    <3>1. ver'[v].pages[i] = [rows[i] EXCEPT !.text = f[i]]
      BY <1>4, <1>5, <2>1
    <3>2. QED
      BY <1>4, <2>1, <3>1 DEF PageRow
  <2>2. CASE ~(rows[i].text = NULL /\ i \in DOMAIN f)
    <3>1. ver'[v].pages[i] = rows[i]
      BY Zenon, <1>4, <1>5, <2>2
    <3>2. QED
      BY <1>1, <1>3, <1>6, <3>1 DEF Follows
  <2>3. QED
    BY <2>1, <2>2
<1>7. \A w \in VerIds : Follows(ver[w].pages, file[w])'
  <2>1. DOMAIN ver'[v].pages = DOMAIN rows
    BY Zenon, <1>5
  <2>2. Follows(ver'[v].pages, file[v])
    BY <1>1, <1>2, <1>6, <2>1 DEF Follows
  <2>3. QED
    BY Zenon, <1>2, <1>5, <2>2 DEF TextBase, TextInv
<1>8. SameVersions /\ \A w \in VerIds : ver'[w].sized = ver[w].sized
  BY <1>5, OcrOnly DEF TextBase, OnlyPages, SameVersions
<1>9. QED
  BY <1>2, <1>7, <1>8, TextSame

-----------------------------------------------------------------------------
(* TextFollowsContent: the theorem *)

\* The texts of an extraction to single pages are kept apart when requests are.
OneByOne == Sequential => Alone

LEMMA OnlyStep ==
    ASSUME Sequential \/ "extract_one" \notin Ops, TypeInv, OneByOne,
           NEW r \in Reqs, Begin(r) \/ Step(r) \/ Crash(r)
    PROVE  Only(r)
<1>1. Others(r)
  BY OthersBegin, OthersStep, PcChanged DEF Crash
<1>2. CASE Sequential
  BY <1>1, <1>2, SoloStep DEF OneByOne, Solo, Only
<1>3. CASE "extract_one" \notin Ops
  BY <1>1, <1>3 DEF Only
<1>4. QED
  BY <1>2, <1>3

LEMMA TextNext ==
    ASSUME ~Reorder, UploadOps \cap Ops = {}, Sequential \/ "extract_one" \notin Ops,
           OneByOne, TypeInv, TypeInv', HistoryInv, FreshInv, RowsInv, TextInv, [Next]_vars
    PROVE  TextInv'
<1>1. TextBase
  BY PersistsNext DEF TextBase, RowsInv
<1>2. ASSUME NEW r \in Reqs, Begin(r) PROVE TextInv'
  BY <1>1, <1>2, OnlyStep, TextBegin
<1>3. ASSUME NEW r \in Reqs, Step(r) PROVE TextInv'
  <2>1. ~(UpFile(r) \/ UpCommit(r) \/ UpNotify(r))
    BY DEF FreshInv, UpPcs, UpFile, UpCommit, UpNotify, At
  <2>2. Only(r)
    BY <1>3, OnlyStep
  <2>3. QED
    BY <1>1, <1>3, <2>1, <2>2, TextReads, TextSrcInsert, TextSrcPdf, TextSrcText, TextDstInsert,
       TextMoves, TextDeletes, TextExtDoc, TextExtPages, TextExtText DEF Step
<1>4. ASSUME NEW r \in Reqs, Crash(r) PROVE TextInv'
  BY <1>1, <1>4, OnlyStep, TextMoves
<1>5. ASSUME NEW v \in VerIds, OcrDone(v) PROVE TextInv'
  BY <1>1, <1>5, TextOcr
<1>6. CASE UNCHANGED vars
  <2>1. UNCHANGED <<req, file, ver, live, unborn, nextVer>>
    BY <1>6 DEF vars
  <2>2. SameVersions /\ \A v \in VerIds : ver'[v].sized = ver[v].sized
    BY <2>1 DEF SameVersions
  <2>3. \A v \in VerIds : Follows(ver[v].pages, file[v])'
    BY <1>1, <2>1, SameTexts, OldTextsFollow
  <2>4. QED
    BY <1>1, <2>1, <2>2, <2>3, TextSame
<1>7. QED
  BY <1>2, <1>3, <1>4, <1>5, <1>6 DEF Next

LEMMA TextInit == Init => TextInv
<1> SUFFICES ASSUME Init PROVE TextInv
  OBVIOUS
<1>1. \A r \in Reqs : req[r].pc = "idle"
  BY DEF Init, NoRequest
<1>2. \A r \in Reqs : TextKnown(req[r])
  BY <1>1 DEF TextKnown, SrcPcs, ExtPcs
<1>3. ASSUME NEW v \in VerIds PROVE Follows(ver[v].pages, file[v])
  <2>1. CASE v \in DOMAIN Initial
    <3>1. ver[v].pages = FreshRows(Len(Initial[v].pages))
      BY <2>1 DEF Init
    <3>2. QED
      BY <3>1, FreshTexts DEF Follows
  <2>2. CASE v \notin DOMAIN Initial
    <3>1. ver[v].pages = <<>>
      BY <2>2 DEF Init, NoVersion
    <3>2. QED
      BY <3>1 DEF Follows
  <2>3. QED
    BY <2>1, <2>2
<1>4. QED
  BY <1>2, <1>3 DEF TextInv

\* Without uploads, and when apply keeps the order of the pages: a recognised text
\* stands in the row whose number is that of the page it was recognised on.  Page
\* operations may overlap, start from old versions, die between two commits, and race
\* with the text recognition; only an extraction to single pages needs a client that
\* waits, because it looks for the version of its new document again when it copies
\* the text.
THEOREM TextsFollow ==
    ASSUME ~Reorder, UploadOps \cap Ops = {}, Sequential \/ "extract_one" \notin Ops
    PROVE  Spec => []TextFollowsContent
<1>1. RowsInv /\ TextInv => TextFollowsContent
  BY DEF RowsInv, Rowed, Listed, TextInv, Follows, TextFollowsContent
<1>2. TypeInv /\ TypeInv' /\ HistoryInv /\ [Next]_vars => HistoryInv'
  BY HistoryNext
<1>3. TypeInv /\ TypeInv' /\ HistoryInv /\ FreshInv /\ [Next]_vars => FreshInv'
  BY FreshNext
<1>4. TypeInv /\ TypeInv' /\ HistoryInv /\ FreshInv /\ RowsInv /\ [Next]_vars => RowsInv'
  BY RowsNext
<1>5. TypeInv /\ OneByOne /\ [Next]_vars => OneByOne'
  BY AloneNext DEF OneByOne
<1>6. /\ OneByOne /\ TypeInv /\ TypeInv' /\ HistoryInv /\ FreshInv /\ RowsInv /\ TextInv
      /\ [Next]_vars
      => TextInv'
  BY TextNext
<1>7. Init => OneByOne
  BY AloneInit DEF OneByOne
<1>8. QED
  BY <1>1, <1>2, <1>3, <1>4, <1>5, <1>6, <1>7, TypeInvariant, HistoryInit, FreshInit, RowsInit,
     TextInit, PTL DEF Spec


-----------------------------------------------------------------------------
(* PagesRecoverable *)

\* The pages the system starts with.
Stored == UNION {Range(Initial[i].pages) : i \in DOMAIN Initial}

\* A user dropped page c.
Given(c) == \E r \in Reqs : c \in Dropped(r)

\* Page c is in the last version of a document that is none of D.
InLast(c, D) ==
    \E d \in live \ D : \E v \in LastVersions(d) : c \in Range(file[v].pages)

\* What request q takes from the versions it works on, and has to put somewhere.
Hand(q) ==
    IF q.pc \in AtWork
    THEN Range(file[q.old].pages) \cup (IF q.op = "mix" THEN Range(file[q.dst].pages) ELSE {})
    ELSE {}

\* No page is lost while request q works.
Safe(q) ==
    \A c \in Stored : Given(c) \/ InLast(c, {q.doc, q.into}) \/ c \in Hand(q)

\* The new version of the source has the pages that stay there.
Stays(q) ==
    \A j \in DOMAIN file[q.old].pages :
        (j \in Range(q.items) <=> q.op = "apply") =>
            file[q.old].pages[j] \in Range(file[q.new].pages)

\* The source is done; what went to other documents is what out holds.
Handing == ExtPcs \cup {"dstNotify", "purge"}

\* The documents of request q, and the place in the target it was told.
Sides(q) ==
    /\ q.pc \in AtWork /\ q.op \in MoveOps => q.into # q.doc
    /\ q.pc \in SrcPcs \cup DstPcs /\ q.op \in MoveOps => q.at \in 1..Len(ver[q.dst].pages)

\* The version of the source that request q made is what users see, and so are the
\* versions it has filled.
Renewed(q) ==
    /\ q.pc \in AtWork \ {"srcRead", "srcInsert"} => q.new \in LastVersions(q.doc)
    /\ q.pc \in AtWork \ {"srcRead", "srcInsert", "srcPdf"} => Stays(q)

\* The versions request q filled for others are the last ones of documents that stay.
Delivered(q) ==
    /\ q.pc \in SrcPcs => q.out = {}
    /\ q.pc \in Handing =>
          \A w \in q.out : \E d \in live \ {q.doc} : w \in LastVersions(d)

\* A version that is about to be filled is the last one of its document.
Awaits(q) ==
    /\ q.pc = "dstPdf" => q.dnew \in LastVersions(q.into)
    /\ q.pc = "dstNotify" => \A j \in Range(q.items) : Copied(q, j)
    /\ q.pc \in {"dstNotify", "purge"} /\ q.op = "mix" =>
          Range(file[q.dst].pages) \subseteq OutPages(q)
    /\ q.pc \in {"extPages", "extText"} => q.cur \in live \ {q.doc} /\ VersionsOf(q.cur) # {}
    /\ q.pc = "extPages" => Unfilled(q)

\* What request q took is in its hand or where users find it.
Placed(q) == Sides(q) /\ Renewed(q) /\ Delivered(q) /\ Awaits(q)

\* What is remembered of a request, also when it ended.
Remembers(q) ==
    /\ q.pc = "idle" => q.op = "none"
    /\ q.op = "apply" => q.old \in VerIds
    /\ q.op \in MoveOps => q.dst \in VerIds

\* Each page is in the last version of some document, unless a user dropped it.
Home == \A c \in Stored : Given(c) \/ InLast(c, {})

\* Without uploads every file is a PDF.
NoImages == \A v \in VerIds : file[v].kind # "image"

\* Pages are home when nobody works; the one request at work carries the rest.
RecInv ==
    /\ Clean /\ ocr = {} /\ NoImages
    /\ \A r \in Reqs : Remembers(req[r])
    /\ (\A r \in Reqs : ~Working(req[r])) => Home
    /\ \A r \in Reqs : Working(req[r]) => Safe(req[r]) /\ Placed(req[r])

\* The invariants the steps rely on.
RecBase == Known /\ HistoryInv' /\ FreshInv' /\ NumInv' /\ RowsInv' /\ Persists /\ RecInv

-----------------------------------------------------------------------------
(* PagesRecoverable: what a step leaves alone *)

\* The documents of request q go on, but for D.
Apart(D) == \A d \in live \ D : d \in live' /\ LastVersions(d)' = LastVersions(d)

LEMMA LastSame ==
    ASSUME NEW d, VersionsOf(d)' = VersionsOf(d),
           \A v \in VersionsOf(d) : ver'[v].number = ver[v].number
    PROVE  LastVersions(d)' = LastVersions(d)
<1>1. PICK S : S = VersionsOf(d)
  OBVIOUS
<1>2. Highest(S)' = Highest(S)
  BY <1>1 DEF Highest
<1>3. QED
  BY <1>1, <1>2 DEF LastVersions

LEMMA SameApart ==
    ASSUME SameNumbers, live \subseteq live'
    PROVE  Apart({}) /\ \A d : VersionsOf(d)' = VersionsOf(d) /\ LastVersions(d)' = LastVersions(d)
<1>1. ASSUME NEW d PROVE VersionsOf(d)' = VersionsOf(d) /\ LastVersions(d)' = LastVersions(d)
  <2>1. VersionsOf(d)' = VersionsOf(d)
    BY DEF VersionsOf, SameNumbers
  <2>2. \A v \in VersionsOf(d) : ver'[v].number = ver[v].number
    BY DEF VersionsOf, SameNumbers
  <2>3. QED
    BY <2>1, <2>2, LastSame
<1>2. QED
  BY <1>1 DEF Apart

LEMMA ApartMore ==
    ASSUME NEW D, NEW E, D \subseteq E, Apart(D)
    PROVE  Apart(E)
BY DEF Apart

\* One version changes, of a document in D.
LEMMA OneApart ==
    ASSUME NEW D, NEW n, \A v \in VerIds \ {n} : ver'[v] = ver[v], live \ D \subseteq live',
           ver[n].doc \notin live \ D, ver'[n].doc \notin live \ D
    PROVE  Apart(D)
<1>1. ASSUME NEW d \in live \ D PROVE LastVersions(d)' = LastVersions(d)
  <2>1. VersionsOf(d)' = VersionsOf(d) /\ n \notin VersionsOf(d)
    BY DEF VersionsOf
  <2>2. \A v \in VersionsOf(d) : ver'[v].number = ver[v].number
    BY <2>1 DEF VersionsOf
  <2>3. QED
    BY <2>1, <2>2, LastSame
<1>2. QED
  BY <1>1 DEF Apart

LEMMA DropApart ==
    ASSUME NEW d, NoDoc \notin live, DropDocument(d)
    PROVE  Apart({d})
<1>1. ASSUME NEW e \in live \ {d} PROVE LastVersions(e)' = LastVersions(e)
  <2>1. \A v \in VerIds : ver'[v] = IF ver[v].doc = d THEN NoVersion ELSE ver[v]
    BY DEF DropDocument
  <2>2. VersionsOf(e)' = VersionsOf(e)
    BY <2>1 DEF VersionsOf, NoVersion
  <2>3. \A v \in VersionsOf(e) : ver'[v].number = ver[v].number
    BY <2>1 DEF VersionsOf
  <2>4. QED
    BY <2>2, <2>3, LastSame
<1>2. QED
  BY <1>1 DEF Apart, DropDocument

\* Pages that are in a file stay there.
LEMMA PagesStay ==
    ASSUME RecBase, NEW v \in VerIds
    PROVE  /\ file[v].kind # "none" => file'[v] = file[v]
           /\ Range(file[v].pages) \subseteq Range(file'[v].pages)
           /\ \A i \in DOMAIN file[v].pages : file[v].kind # "none"
<1>1. file[v].kind # "none" => file'[v] = file[v]
  BY DEF RecBase, Persists, Frozen
<1>2. file[v].kind = "none" => DOMAIN file[v].pages = {}
  <2>1. file[v].kind = "none" => file[v].pages = <<>>
    BY DEF RecBase, Known, ViewInv, FilesEmpty
  <2>2. DOMAIN <<>> = {}
    OBVIOUS
  <2>3. QED
    BY <2>1, <2>2
<1>3. Range(file[v].pages) \subseteq Range(file'[v].pages)
  BY <1>1, <1>2 DEF Range
<1>4. QED
  BY <1>1, <1>2, <1>3

LEMMA InLastKept ==
    ASSUME RecBase, NEW D, Apart(D), NEW c, InLast(c, D)
    PROVE  InLast(c, D)'
<1>0. PICK d \in live \ D : \E v \in LastVersions(d) : c \in Range(file[v].pages)
  BY DEF InLast
<1>1. PICK v \in LastVersions(d) : c \in Range(file[v].pages)
  BY <1>0
<1>2. v \in VerIds
  BY DEF LastVersions, Highest, VersionsOf
<1>3. c \in Range(file'[v].pages)
  BY <1>1, <1>2, PagesStay
<1>4. d \in live' \ D /\ v \in LastVersions(d)'
  BY DEF Apart
<1>5. QED
  BY <1>3, <1>4 DEF InLast

LEMMA InLastMore ==
    ASSUME NEW D, NEW E, E \subseteq D, NEW c, InLast(c, D)
    PROVE  InLast(c, E)
BY DEF InLast

LEMMA NoDocDead ==
    ASSUME TypeInv
    PROVE  NoDoc \notin live /\ live \subseteq Docs
BY DocsAssumption DEF TypeInv, StoreType

\* A version is inserted for document d: it is the last one, others keep theirs.
LEMMA BumpLast ==
    ASSUME RecBase, NEW r \in Reqs, NEW d \in live, NEW count, BumpInsert(r, d, count),
           req[r].lnum = Cardinality(VersionsOf(d)), NEW n, n = nextVer
    PROVE  Apart({d}) /\ n \in LastVersions(d)' /\ live' = live
<1>1. /\ n \in VerIds /\ ver'[n].doc = d /\ ver'[n].number = req[r].lnum + 1
      /\ \A v \in VerIds \ {n} : ver'[v] = ver[v]
  BY BumpEvolves DEF RecBase, Known
<1>2. ver[n].doc = NoDoc /\ NoDoc \notin live /\ live' = live
  BY <1>1, NoDocDead DEF RecBase, Known, HistoryInv, Unused, BumpInsert, TypeInv, StoreType
<1>3. Apart({d})
  BY <1>1, <1>2, OneApart
<1>4. PICK k \in Nat : k = Cardinality(VersionsOf(d))
  BY FiniteVersions
<1>5. \A v \in VersionsOf(d) : ver[v].number \in 1..k
  BY <1>4, NoDocDead DEF RecBase, Known, NumInv, Numbered
<1>6. n \in VersionsOf(d)' /\ \A w \in VersionsOf(d)' : w = n \/ w \in VersionsOf(d)
  BY <1>1 DEF VersionsOf
<1>7. ver'[n].number = k + 1
  BY <1>1, <1>4
<1>8. \A w \in VersionsOf(d)' : ver'[w].number <= ver'[n].number
  <2> SUFFICES ASSUME NEW w \in VersionsOf(d)', w # n PROVE ver'[w].number <= ver'[n].number
    BY <1>7
  <2>1. w \in VersionsOf(d) /\ ver'[w] = ver[w]
    BY <1>1, <1>6 DEF VersionsOf
  <2>2. ver[w].number \in 1..k
    BY <1>5, <2>1
  <2>3. QED
    BY <1>7, <2>1, <2>2
<1>9. n \in LastVersions(d)'
  BY <1>6, <1>8 DEF LastVersions, Highest
<1>10. QED
  BY <1>2, <1>3, <1>9

LEMMA CreateLast ==
    ASSUME RecBase, NEW d, CreateDocument(d), NEW n, n = nextVer
    PROVE  /\ Apart({}) /\ d \in live' /\ d \notin live /\ VersionsOf(d)' = {n} /\ ~ver'[n].sized
           /\ n \in VerIds
<1>1. PICK row : row = [NoVersion EXCEPT !.doc = d, !.number = 1]
  OBVIOUS
<1>2. n \in VerIds /\ ver' = [ver EXCEPT ![n] = row] /\ d \in unborn /\ live' = live \cup {d}
  BY <1>1 DEF CreateDocument
<1>3. row.doc = d /\ ~row.sized
  BY <1>1 DEF NoVersion
<1>4. ver'[n] = row /\ \A v \in VerIds \ {n} : ver'[v] = ver[v]
  BY <1>2 DEF RecBase, Known, TypeInv, StoreType
<1>5. d \notin live /\ d # NoDoc /\ NoDoc \notin live
  BY <1>2, DocsAssumption DEF RecBase, Known, TypeInv, StoreType
<1>6. \A v \in VerIds : ver[v].doc # d
  BY <1>5 DEF RecBase, Known, HistoryInv, Cascaded
<1>7. VersionsOf(d)' = {n}
  BY <1>2, <1>3, <1>4, <1>6 DEF VersionsOf
<1>8. ver[n].doc = NoDoc
  BY <1>2 DEF RecBase, Known, HistoryInv, Unused, TypeInv, StoreType
<1>9. Apart({})
  BY <1>2, <1>3, <1>4, <1>5, <1>8, OneApart
<1>10. QED
  BY <1>2, <1>3, <1>4, <1>5, <1>7, <1>9

\* A document with versions has a last one, and only one.
LEMMA SomeLast ==
    ASSUME RecBase, NEW d \in Docs, VersionsOf(d) # {}
    PROVE  LastVersions(d) # {}
<1>1. PICK k \in Nat : k = Cardinality(VersionsOf(d))
  BY FiniteVersions
<1>2. {ver[v].number : v \in VersionsOf(d)} = 1..k
  BY <1>1 DEF RecBase, Known, NumInv, Numbered
<1>3. \A v \in VersionsOf(d) : ver[v].number \in 1..k
  BY <1>2
<1>4. k \in 1..k
  BY <1>3
<1>5. PICK v \in VersionsOf(d) : ver[v].number = k
  BY <1>2, <1>4
<1>6. v \in LastVersions(d)
  BY <1>3, <1>5 DEF LastVersions, Highest
<1>7. QED
  BY <1>6

LEMMA OneLast ==
    ASSUME RecBase, NEW d \in Docs, NEW v \in LastVersions(d), NEW w \in LastVersions(d)
    PROVE  v = w
<1>1. PICK S : S = VersionsOf(d)
  OBVIOUS
<1>2. PICK k \in Nat : k = Cardinality(S)
  BY <1>1, FiniteVersions
<1>3. IsFiniteSet(S) /\ IsFiniteSet(1..k) /\ Cardinality(1..k) = k
  BY <1>1, FiniteVersions, IntervalSize
<1>4. {ver[u].number : u \in S} = 1..k
  BY <1>1, <1>2 DEF RecBase, Known, NumInv, Numbered
<1>5. PICK f : f = [u \in S |-> ver[u].number]
  OBVIOUS
<1>6. f \in Surjection(S, 1..k)
  BY <1>4, <1>5 DEF Surjection
<1>7. f \in Injection(S, 1..k)
  BY <1>2, <1>3, <1>6, FS_Surjection
<1>8. v \in S /\ w \in S /\ ver[v].number <= ver[w].number /\ ver[w].number <= ver[v].number
  BY <1>1 DEF LastVersions, Highest
<1>9. ver[v].number \in 1..k /\ ver[w].number \in 1..k
  BY <1>4, <1>8
<1>10. f[v] = f[w]
  <2>1. ver[v].number = ver[w].number
    BY <1>8, <1>9
  <2>2. QED
    BY Zenon, <1>5, <1>8, <2>1
<1>11. QED
  BY <1>7, <1>8, <1>10 DEF Injection, IsInjective

-----------------------------------------------------------------------------
(* PagesRecoverable: what users dropped *)

\* The pages request q drops, see Dropped.
Drops(q) ==
    CASE q.op = "apply" ->
            Range(file[q.old].pages) \
                {file[q.old].pages[q.rows[q.items[k]].number] : k \in DOMAIN q.items}
      [] q.op = "replace" -> Range(file[q.dst].pages)
      [] q.op = "delete" -> UNION {Range(file[v].pages) : v \in q.gone}
      [] OTHER -> {}

LEMMA DroppedIs ==
    ASSUME NEW r \in Reqs, NEW q, q = req[r]
    PROVE  Dropped(r) = Drops(q)
<1>1. Range(Numbers(r)) = {q.rows[q.items[k]].number : k \in DOMAIN q.items}
  BY DEF Numbers, Range
<1>2. {file[q.old].pages[n] : n \in Range(Numbers(r))}
        = {file[q.old].pages[q.rows[q.items[k]].number] : k \in DOMAIN q.items}
  <2> DEFINE page == file[q.old].pages
             chosen == DOMAIN q.items
             N == Range(Numbers(r))
             Num(k) == q.rows[q.items[k]].number
  <2>1. N = {Num(k) : k \in chosen}
    BY <1>1
  <2>2. {page[n] : n \in N} = {page[Num(k)] : k \in chosen}
    <3> HIDE DEF page, chosen, N, Num
    <3> QED BY <2>1
  <2>3. QED
    BY <2>2
<1>3. QED
  BY Zenon, <1>2 DEF Dropped, Drops

LEMMA DropsNext ==
    ASSUME NEW r \in Reqs, NEW q, q = req'[r]
    PROVE  Dropped(r)' = Drops(q)'
<1>1. Range(Numbers(r))' = {q.rows[q.items[k]].number : k \in DOMAIN q.items}
  BY DEF Numbers, Range
<1>2. {file'[q.old].pages[n] : n \in Range(Numbers(r))'}
        = {file'[q.old].pages[q.rows[q.items[k]].number] : k \in DOMAIN q.items}
  <2> DEFINE page == file'[q.old].pages
             chosen == DOMAIN q.items
             N == Range(Numbers(r))'
             Num(k) == q.rows[q.items[k]].number
  <2>1. N = {Num(k) : k \in chosen}
    BY <1>1
  <2>2. {page[n] : n \in N} = {page[Num(k)] : k \in chosen}
    <3> HIDE DEF page, chosen, N, Num
    <3> QED BY <2>1
  <2>3. QED
    BY <2>2
<1>3. QED
  BY Zenon, <1>2 DEF Dropped, Drops

\* Request p is what q was, as far as what it dropped goes.
SameAsk(p, q) == SameChoice(p, q) /\ p.gone = q.gone

LEMMA DropsKept ==
    ASSUME RecBase, NEW p \in Request, Remembers(p), NEW q, SameAsk(q, p), NEW c \in Drops(p)
    PROVE  c \in Drops(q)'
<1> USE DEF SameAsk, SameChoice
<1>1. CASE p.op = "apply"
  <2>1. PICK f, g : f = file[p.old] /\ g = file'[p.old]
    OBVIOUS
  <2>2. c \in Range(f.pages)
    BY Zenon, <1>1, <2>1 DEF Drops
  <2>3. p.old \in VerIds /\ g = f
    BY Zenon, <1>1, <2>1, <2>2, PagesStay DEF Remembers, Range
  <2>4. c \in Range(f.pages) \ {f.pages[p.rows[p.items[k]].number] : k \in DOMAIN p.items}
    BY Zenon, <1>1, <2>1 DEF Drops
  <2>5. QED
    BY ZenonT(60), <1>1, <2>1, <2>3, <2>4 DEF Drops
<1>2. CASE p.op = "replace"
  <2>1. p.dst \in VerIds /\ c \in Range(file[p.dst].pages)
    BY <1>2 DEF Drops, Remembers, MoveOps
  <2>2. c \in Range(file'[p.dst].pages)
    BY <2>1, PagesStay
  <2>3. QED
    BY <1>2, <2>2 DEF Drops
<1>3. CASE p.op = "delete"
  <2>1. PICK v \in p.gone : c \in Range(file[v].pages)
    BY <1>3 DEF Drops
  <2>2. v \in VerIds
    BY DEF Request
  <2>3. c \in Range(file'[v].pages)
    BY <2>1, <2>2, PagesStay
  <2>4. QED
    BY <1>3, <2>3 DEF Drops
<1>4. CASE p.op \notin {"apply", "replace", "delete"}
  BY <1>4 DEF Drops
<1>5. QED
  BY Zenon, <1>1, <1>2, <1>3, <1>4

\* What was dropped stays dropped, whatever request r does: it begins, or goes on.
LEMMA GivenKept ==
    ASSUME RecBase, NEW r \in Reqs, Others(r), NEW p, NEW q, p = req[r], q = req'[r],
           p.pc = "idle" \/ SameAsk(q, p), NEW c, Given(c)
    PROVE  Given(c)'
<1>1. PICK o \in Reqs : c \in Dropped(o)
  BY DEF Given
<1>2. PICK a, b : a = req[o] /\ b = req'[o]
  OBVIOUS
<1>3. c \in Drops(a) /\ a \in Request /\ Remembers(a)
  BY <1>1, <1>2, DroppedIs, LocalsOf DEF RecBase, Known, RecInv
<1>4. SameAsk(b, a)
  <2>1. CASE o # r
    BY <1>2, <2>1 DEF Others, SameAsk, SameChoice
  <2>2. CASE o = r
    <3>1. p.pc # "idle"
      BY <1>2, <1>3, <2>2 DEF Remembers, Drops
    <3>2. QED
      BY <1>2, <2>2, <3>1
  <2>3. QED
    BY <2>1, <2>2
<1>5. c \in Drops(b)'
  BY <1>3, <1>4, DropsKept
<1>6. QED
  BY <1>2, <1>5, DropsNext DEF Given


-----------------------------------------------------------------------------
(* PagesRecoverable: a request that works *)

LEMMA AtHand ==
    ASSUME RecBase, NEW r \in Reqs, NEW q, q = req[r], q.pc \in AtWork
    PROVE  /\ q \in Request /\ LocalsAt(q.pc, q) /\ Knows(q) /\ Sees(q) /\ Choice(q)
           /\ q.doc \in live /\ q.old \in VerIds /\ ver[q.old].doc = q.doc
           /\ file[q.old].kind = "pdf" /\ Len(file[q.old].pages) = Len(q.rows)
           /\ Safe(q) /\ Placed(q) /\ Remembers(q) /\ Working(q)
<1>1. Working(q)
  BY DEF Working, AtWork, Stopped, SrcPcs, DstPcs, ExtPcs
<1>2. Safe(q) /\ Placed(q) /\ Remembers(q) /\ Clean /\ NoImages
  BY <1>1 DEF RecBase, RecInv
<1>3. Sees(q)
  BY <1>1, <1>2 DEF RecBase, Known, ViewInv
<1>4. /\ Choice(q) /\ q.doc \in live /\ q.old \in VerIds
      /\ Len(file[q.old].pages) = Len(q.rows) /\ file[q.old].kind # "none"
  BY <1>3, SourceFile DEF RecBase, Sees
<1>5. file[q.old].kind = "pdf"
  <2>1. file[q.old] \in File
    BY <1>4 DEF RecBase, Known, TypeInv, StoreType
  <2>2. file[q.old].kind \in {"none", "image", "pdf"}
    BY <2>1 DEF File
  <2>3. QED
    BY <1>2, <1>4, <2>2 DEF NoImages
<1>6. ver[q.old].doc = q.doc
  BY <1>3 DEF Sees, Sources
<1>7. q \in Request /\ LocalsAt(q.pc, q) /\ Knows(q)
  BY LocalsOf DEF RecBase, Known, RowsInv
<1>8. QED
  BY <1>1, <1>2, <1>3, <1>4, <1>5, <1>6, <1>7

LEMMA AtTarget ==
    ASSUME RecBase, NEW r \in Reqs, NEW q, q = req[r], q.pc \in SrcPcs \cup DstPcs,
           q.op \in MoveOps
    PROVE  /\ q.into \in live /\ q.dst \in VerIds /\ ver[q.dst].doc = q.into /\ q.into # q.doc
           /\ file[q.dst].kind = "pdf" /\ Whole(q.dst) /\ Destination(q)
<1>1. q.pc \in AtWork
  BY DEF AtWork
<1>2. Sees(q) /\ Placed(q)
  BY <1>1, AtHand
<1>3. Destination(q) /\ q.into \in live /\ q.dst \in VerIds /\ file[q.dst].kind # "none"
  BY <1>2, TargetFile DEF RecBase, Sees
<1>4. file[q.dst].kind = "pdf"
  <2>1. file[q.dst] \in File
    BY <1>3 DEF RecBase, Known, TypeInv, StoreType
  <2>2. file[q.dst].kind \in {"none", "image", "pdf"} /\ file[q.dst].kind # "image"
    BY <1>3, <2>1 DEF File, RecBase, RecInv, NoImages
  <2>3. QED
    BY <1>3, <2>2
<1>5. ver[q.dst].doc = q.into /\ Whole(q.dst) /\ q.into # q.doc
  BY <1>1, <1>2 DEF Sees, Sources, Placed, Sides
<1>6. QED
  BY <1>3, <1>4, <1>5

\* Another request, or the same one with what it asked for, remembers what it did.
LEMMA StillRemembered ==
    ASSUME RecBase, NEW r \in Reqs, Others(r), NEW q, q = req'[r], Remembers(q)
    PROVE  \A o \in Reqs : Remembers(req'[o])
BY DEF Others, RecBase, RecInv

LEMMA SafeKept ==
    ASSUME RecBase, NEW r \in Reqs, Others(r), NEW p, NEW q, p = req[r], q = req'[r],
           SameAsk(q, p), Working(p), NEW D, D = {p.doc, p.into}, Apart(D), NEW c \in Stored
    PROVE  Given(c)' \/ InLast(c, D)' \/ c \in Hand(p)
<1>1. Given(c) \/ InLast(c, D) \/ c \in Hand(p)
  BY DEF RecBase, RecInv, Safe
<1>2. QED
  BY <1>1, GivenKept, InLastKept

\* A request goes on.
LEMMA RecOn ==
    ASSUME RecBase, NEW r \in Reqs, Solo(r), NEW p, NEW q, p = req[r], q = req'[r],
           SameAsk(q, p), Working(p), Working(q), p.pc \in AtWork <=> q.pc \in AtWork,
           Apart({p.doc, p.into}), UNCHANGED ocr, NoImages', Placed(q)'
    PROVE  RecInv'
<1>1. Clean'
  BY DEF Clean, Solo, Others, RecBase, RecInv, Working, Stopped
<1>2. p \in Request /\ Remembers(p)
  BY LocalsOf DEF RecBase, Known, RecInv
<1>3. \A o \in Reqs : Remembers(req'[o])
  <2>1. Remembers(q)
    BY <1>2 DEF Remembers, SameAsk, SameChoice, Working, Stopped
  <2>2. QED
    BY <2>1, StillRemembered DEF Solo
<1>4. \A c \in Hand(p) : c \in Hand(q)'
  <2>1. p.pc \in AtWork => p.old \in VerIds
    BY AtHand
  <2>2. p.op = "mix" => p.dst \in VerIds
    BY <1>2 DEF Remembers, MoveOps
  <2>3. p.pc \in AtWork => Range(file[p.old].pages) \subseteq Range(file'[p.old].pages)
    BY <2>1, PagesStay
  <2>4. p.op = "mix" => Range(file[p.dst].pages) \subseteq Range(file'[p.dst].pages)
    BY <2>2, PagesStay
  <2>5. p.op = q.op /\ p.old = q.old /\ p.dst = q.dst
    BY DEF SameAsk, SameChoice
  <2>6. QED
    BY <2>3, <2>4, <2>5 DEF Hand
<1>5. Safe(q)'
  <2>1. PICK D : D = {p.doc, p.into}
    OBVIOUS
  <2>2. \A c \in Stored : Given(c)' \/ InLast(c, D)' \/ c \in Hand(p)
    BY <2>1, SafeKept DEF Solo
  <2>3. D = {q.doc, q.into}
    BY <2>1 DEF SameAsk, SameChoice
  <2>4. \A c \in Stored : Given(c)' \/ InLast(c, D)' \/ c \in Hand(q)'
    BY <1>4, <2>2
  <2>5. QED
    BY <2>3, <2>4 DEF Safe
<1>6. ASSUME NEW o \in Reqs, Working(req'[o]) PROVE o = r
  BY <1>6 DEF Solo, Others
<1>7. Safe(req[r])' /\ Placed(req[r])' /\ Working(req'[r])
  BY <1>5
<1>8. \A o \in Reqs : Working(req[o])' => Safe(req[o])' /\ Placed(req[o])'
  BY <1>6, <1>7 DEF Working
<1>9. (\E o \in Reqs : Working(req[o]))'
  BY <1>7 DEF Working
<1>10. ocr' = {}
  BY DEF RecBase, RecInv
<1>11. QED
  BY <1>1, <1>3, <1>8, <1>9, <1>10 DEF RecInv, Remembers

\* A request ends.
LEMMA RecEnd ==
    ASSUME RecBase, NEW r \in Reqs, Solo(r), NEW p, NEW q, p = req[r], q = req'[r],
           SameAsk(q, p), Working(p), q.pc = "done",
           Apart({p.doc, p.into}), UNCHANGED ocr, NoImages',
           \A c \in Hand(p) : Given(c) \/ InLast(c, {})'
    PROVE  RecInv'
<1>1. Clean'
  BY DEF Clean, Solo, Others, RecBase, RecInv
<1>2. p \in Request /\ Remembers(p)
  BY LocalsOf DEF RecBase, Known, RecInv
<1>3. \A o \in Reqs : Remembers(req'[o])
  <2>1. Remembers(q)
    BY <1>2 DEF Remembers, SameAsk, SameChoice
  <2>2. QED
    BY <2>1, StillRemembered DEF Solo
<1>4. Home'
  <2> SUFFICES ASSUME NEW c \in Stored PROVE Given(c)' \/ InLast(c, {})'
    BY DEF Home
  <2>1. PICK D : D = {p.doc, p.into}
    OBVIOUS
  <2>2. Given(c)' \/ InLast(c, D)' \/ c \in Hand(p)
    BY <2>1, SafeKept DEF Solo
  <2>3. InLast(c, D)' => InLast(c, {})'
    BY DEF InLast
  <2>4. Given(c) => Given(c)'
    BY GivenKept DEF Solo
  <2>5. QED
    BY <2>2, <2>3, <2>4
<1>5. \A o \in Reqs : ~Working(req'[o])
  BY DEF Solo, Others, Working, Stopped
<1>6. ocr' = {}
  BY DEF RecBase, RecInv
<1>7. QED
  BY <1>1, <1>3, <1>4, <1>5, <1>6 DEF RecInv, Working, Remembers


-----------------------------------------------------------------------------
(* PagesRecoverable: what a step leaves of the places of the pages *)

\* The documents of the versions of a request stay those.
LEMMA DocStays ==
    ASSUME RecBase, NEW v \in VerIds, ver[v].doc \in live'
    PROVE  ver'[v].doc = ver[v].doc
<1>1. NoDoc \notin live' /\ ver[v].doc # NoDoc
  BY DocsAssumption DEF RecBase, Known, TypeInv, StoreType
<1>2. QED
  BY <1>1 DEF RecBase, Persists

LEMMA SidesKept ==
    ASSUME RecBase, NEW r \in Reqs, NEW p, p = req[r], p.pc \in AtWork, NEW q, SameChoice(q, p),
           q.at = p.at, q.pc \in AtWork,
           q.pc \in SrcPcs \cup DstPcs => p.pc \in SrcPcs \cup DstPcs, live \subseteq live'
    PROVE  Sides(q)'
<1>1. Sides(p)
  BY AtHand DEF Placed
<1>2. ASSUME q.pc \in SrcPcs \cup DstPcs, q.op \in MoveOps
      PROVE  q.at \in 1..Len(ver'[q.dst].pages)
  <2>1. p.pc \in SrcPcs \cup DstPcs /\ p.op \in MoveOps /\ q.dst = p.dst
    BY <1>2 DEF SameChoice
  <2>2. /\ p.dst \in VerIds /\ ver[p.dst].doc = p.into /\ p.into \in live /\ p.into # NoDoc
        /\ Len(ver[p.dst].pages) # 0
    BY <2>1, AtTarget DEF Destination
  <2>3. ver'[p.dst].doc = p.into
    BY <2>2, DocStays
  <2>4. Len(ver'[p.dst].pages) = Len(ver[p.dst].pages)
    BY <2>2, <2>3 DEF RecBase, Persists
  <2>5. p.at \in 1..Len(ver[p.dst].pages)
    BY <1>1, <2>1 DEF Sides
  <2>6. QED
    BY <2>1, <2>4, <2>5
<1>3. q.op \in MoveOps => q.into # q.doc
  BY <1>1 DEF Sides, SameChoice
<1>4. QED
  BY <1>2, <1>3 DEF Sides

LEMMA StaysKept ==
    ASSUME RecBase, NEW r \in Reqs, NEW p, p = req[r], p.pc \in AtWork, NEW q, SameChoice(q, p),
           q.new = p.new, p.new \in VerIds, Stays(p)
    PROVE  Stays(q)'
<1>1. p.old \in VerIds /\ file[p.old].kind = "pdf"
  BY AtHand
<1>2. PICK f, g, h : f = file[p.old] /\ g = file[p.new] /\ h = file'[p.new]
  OBVIOUS
<1>3. file'[p.old] = f
  BY <1>1, <1>2, PagesStay
<1>4. Range(g.pages) \subseteq Range(h.pages)
  BY <1>2, PagesStay
<1>5. \A j \in DOMAIN f.pages :
         (j \in Range(p.items) <=> p.op = "apply") => f.pages[j] \in Range(g.pages)
  BY <1>2 DEF Stays
<1>6. \A j \in DOMAIN f.pages :
         (j \in Range(p.items) <=> p.op = "apply") => f.pages[j] \in Range(h.pages)
  BY <1>4, <1>5
<1>7. QED
  BY <1>2, <1>3, <1>6 DEF Stays, SameChoice

LEMMA RenewedKept ==
    ASSUME RecBase, NEW r \in Reqs, NEW p, p = req[r], NEW q, SameChoice(q, p), q.new = p.new,
           p.pc \in AtWork \ {"srcRead", "srcInsert", "srcPdf"},
           NEW D, Apart(D), p.doc \notin D
    PROVE  Renewed(q)'
<1>1. p.new \in LastVersions(p.doc) /\ p.new \in VerIds /\ Stays(p) /\ p.doc \in live
  BY AtHand DEF Placed, Renewed, LastVersions, Highest, VersionsOf
<1>2. p.new \in LastVersions(p.doc)'
  BY <1>1 DEF Apart
<1>3. Stays(q)'
  BY <1>1, StaysKept
<1>4. QED
  BY <1>2, <1>3 DEF Renewed, SameChoice


LEMMA DeliveredKept ==
    ASSUME RecBase, NEW r \in Reqs, NEW p, p = req[r], p.pc \in AtWork, NEW q, SameChoice(q, p),
           q.out = p.out, q.pc \in AtWork,
           q.pc \in SrcPcs => p.pc \in SrcPcs,
           q.pc \in Handing => p.pc \in Handing \/ p.out = {},
           NEW D, Apart(D), \A d \in D : p.out \cap LastVersions(d) = {}
    PROVE  Delivered(q)'
<1>1. Delivered(p)
  BY AtHand DEF Placed
<1>2. ASSUME q.pc \in Handing, NEW w \in q.out
      PROVE  \E d \in live' \ {q.doc} : w \in LastVersions(d)'
  <2>1. PICK d \in live \ {p.doc} : w \in LastVersions(d)
    BY <1>1, <1>2 DEF Delivered
  <2>2. d \notin D
    BY <1>2, <2>1
  <2>3. d \in live' \ {q.doc} /\ w \in LastVersions(d)'
    BY <2>1, <2>2 DEF Apart, SameChoice
  <2>4. QED
    BY <2>3
<1>3. q.pc \in SrcPcs => q.out = {}
  BY <1>1 DEF Delivered
<1>4. QED
  BY <1>2, <1>3 DEF Delivered


-----------------------------------------------------------------------------
(* PagesRecoverable: the steps that write no page *)

\* Request q is where p was, but for the point of the handler.
Carries(q, p) ==
    /\ SameAsk(q, p) /\ q.at = p.at /\ q.new = p.new /\ q.dnew = p.dnew /\ q.out = p.out
    /\ q.cur = p.cur

LEMMA GotoFollows ==
    ASSUME TypeInv, NEW r \in Reqs, NEW pc, Goto(r, pc), NEW p, NEW q, p = req[r], q = req'[r]
    PROVE  Others(r) /\ q.pc = pc /\ Carries(q, p)
<1>1. req[r] \in Request
  BY LocalsOf
<1>2. Others(r) /\ q = [p EXCEPT !.pc = pc]
  BY GotoEffect
<1>3. QED
  BY <1>1, <1>2 DEF Carries, SameAsk, SameChoice, Request

LEMMA ReadFollows ==
    ASSUME TypeInv, NEW r \in Reqs, NEW d, NEW next, BumpRead(r, d, next),
           LastVersions(d) # {}, NEW p, NEW q, p = req[r], q = req'[r]
    PROVE  Others(r) /\ q.pc = next /\ Carries(q, p) /\ UNCHANGED <<store, file, ocr>>
<1>1. PICK v \in LastVersions(d) :
        /\ req' = [req EXCEPT ![r].pc = next,
                              ![r].lnum = ver[v].number, ![r].lcount = ver[v].count,
                              ![r].dlen = IF req[r].dst = 0 THEN 0
                                          ELSE Len(ver[req[r].dst].pages),
                              ![r].todo = IF ver[req[r].old].doc = NoDoc THEN <<>>
                                          ELSE req[r].items]
        /\ UNCHANGED <<store, file, ocr, sent>>
  BY Zenon DEF BumpRead
<1>2. PICK len, todo : /\ len = IF p.dst = 0 THEN 0 ELSE Len(ver[p.dst].pages)
                       /\ todo = IF ver[p.old].doc = NoDoc THEN <<>> ELSE p.items
  OBVIOUS
<1>3. PICK s : s = [p EXCEPT !.pc = next, !.lnum = ver[v].number, !.lcount = ver[v].count,
                             !.dlen = len, !.todo = todo]
  OBVIOUS
<1>4. p \in Request
  BY LocalsOf
<1>5. s.pc = next /\ Carries(s, p)
  BY <1>3, <1>4 DEF Carries, SameAsk, SameChoice, Request
<1>6. req' = [req EXCEPT ![r] = s]
  BY <1>1, <1>2, <1>3 DEF TypeInv
<1>7. QED
  BY Zenon, <1>1, <1>5, <1>6, OneChanged

LEMMA RecQuiet ==
    ASSUME RecBase, NEW r \in Reqs, Solo(r), NEW p, NEW q, p = req[r], q = req'[r],
           p.pc \in AtWork, q.pc \in AtWork, Carries(q, p),
           SameNumbers, live \subseteq live', UNCHANGED <<file, ocr>>,
           q.pc \in SrcPcs \cup DstPcs => p.pc \in SrcPcs \cup DstPcs,
           q.pc \in SrcPcs => p.pc \in SrcPcs,
           q.pc \in Handing => p.pc \in Handing \cup SrcPcs,
           q.pc \notin {"srcRead", "srcInsert"} => p.pc \notin {"srcRead", "srcInsert", "srcPdf"},
           Awaits(q)'
    PROVE  RecInv'
<1>1. SameAsk(q, p) /\ SameChoice(q, p) /\ q.at = p.at /\ q.out = p.out /\ q.new = p.new
  BY DEF Carries, SameAsk
<1>2. PICK D : D = {} /\ Apart(D)
  BY SameApart
<1>3. Sides(q)'
  BY <1>1, SidesKept
<1>4. Renewed(q)'
  <2>1. CASE q.pc \in {"srcRead", "srcInsert"}
    BY <2>1 DEF Renewed
  <2>2. CASE q.pc \notin {"srcRead", "srcInsert"}
    BY <1>1, <1>2, <2>2, RenewedKept
  <2>3. QED
    BY <2>1, <2>2
<1>5. Delivered(q)'
  <2>1. p.pc \in SrcPcs => p.out = {}
    BY AtHand DEF Placed, Delivered
  <2>2. QED
    BY <1>1, <1>2, <2>1, DeliveredKept
<1>6. Placed(q)'
  BY <1>3, <1>4, <1>5 DEF Placed
<1>7. Working(p) /\ Working(q)
  BY DEF Working, AtWork, Stopped, SrcPcs, DstPcs, ExtPcs
<1>8. NoImages' /\ Apart({p.doc, p.into})
  BY <1>2 DEF NoImages, RecBase, RecInv, Apart
<1>9. QED
  BY <1>1, <1>6, <1>7, <1>8, RecOn

LEMMA RecReads ==
    ASSUME RecBase, NEW r \in Reqs, Solo(r), SrcRead(r) \/ DstRead(r)
    PROVE  RecInv'
<1>1. PICK p, q : p = req[r] /\ q = req'[r]
  OBVIOUS
<1>2. PICK d, next :
        /\ next = (IF p.pc = "srcRead" THEN "srcInsert" ELSE "dstInsert")
        /\ p.pc \in {"srcRead", "dstRead"} /\ BumpRead(r, d, next) /\ LastVersions(d) # {}
  <2>1. CASE SrcRead(r)
    <3>1. p.pc = "srcRead" /\ BumpRead(r, p.doc, "srcInsert")
      BY <1>1, <2>1 DEF SrcRead, At
    <3>2. p.doc \in Docs /\ p.old \in VersionsOf(p.doc)
      <4>1. p.doc \in live /\ p.old \in VerIds /\ ver[p.old].doc = p.doc
        BY <1>1, <3>1, AtHand DEF AtWork, SrcPcs
      <4>2. QED
        BY <4>1 DEF VersionsOf, RecBase, Known, TypeInv, StoreType
    <3>3. LastVersions(p.doc) # {}
      BY <3>2, SomeLast
    <3>4. QED
      BY <3>1, <3>3
  <2>2. CASE DstRead(r)
    <3>1. p.pc = "dstRead"
      BY <1>1, <2>2 DEF DstRead, At
    <3>2. p.pc \in DstPcs /\ p.op \in MoveOps
      BY <1>1, <3>1, LocalsOf DEF DstPcs, LocalsAt, RecBase, Known
    <3>3. p.into \in live /\ p.dst \in VerIds /\ ver[p.dst].doc = p.into
      BY <1>1, <3>2, AtTarget
    <3>4. p.into \in Docs /\ p.dst \in VersionsOf(p.into) /\ p.into # NoDoc
      BY <3>3, DocsAssumption DEF VersionsOf, RecBase, Known, TypeInv, StoreType
    <3>5. LastVersions(p.into) # {}
      BY <3>4, SomeLast
    <3>6. BumpRead(r, p.into, "dstInsert")
      BY <1>1, <2>2, <3>3, <3>4 DEF DstRead
    <3>7. QED
      BY <3>1, <3>5, <3>6
  <2>3. QED
    BY <2>1, <2>2
<1>3. q.pc = next /\ Carries(q, p) /\ UNCHANGED <<store, file, ocr>>
  BY <1>1, <1>2, ReadFollows DEF RecBase, Known
<1>4. p.pc \in AtWork /\ q.pc \in AtWork /\ q.pc \notin Handing
  BY <1>2, <1>3 DEF AtWork, SrcPcs, DstPcs, ExtPcs, Handing
<1>5. /\ q.pc \in SrcPcs \cup DstPcs => p.pc \in SrcPcs \cup DstPcs
      /\ q.pc \in SrcPcs => p.pc \in SrcPcs
      /\ q.pc \notin {"srcRead", "srcInsert"} => p.pc \notin {"srcRead", "srcInsert", "srcPdf"}
  BY <1>2, <1>3 DEF SrcPcs, DstPcs
<1>6. Awaits(q)'
  BY <1>2, <1>3 DEF Awaits
<1>7. SameNumbers /\ live \subseteq live'
  BY <1>3 DEF SameNumbers, store
<1>8. QED
  BY <1>1, <1>3, <1>4, <1>5, <1>6, <1>7, RecQuiet


\* The files a request has written are in last versions of other documents.
LEMMA OutLast ==
    ASSUME RecBase, NEW r \in Reqs, NEW p, p = req[r], p.pc \in Handing, NEW c \in OutPages(p)
    PROVE  InLast(c, {p.doc})
<1>1. p.pc \in AtWork
  BY DEF AtWork, Handing, DstPcs
<1>2. PICK w \in p.out : c \in Range(file[w].pages)
  BY DEF OutPages
<1>3. PICK d \in live \ {p.doc} : w \in LastVersions(d)
  BY <1>1, AtHand DEF Placed, Delivered
<1>4. QED
  BY <1>2, <1>3 DEF InLast

\* The pages that stay are in the last version of the source.
LEMMA KeptLast ==
    ASSUME RecBase, NEW r \in Reqs, NEW p, p = req[r],
           p.pc \in AtWork \ {"srcRead", "srcInsert", "srcPdf"},
           NEW j \in DOMAIN file[p.old].pages, j \in Range(p.items) <=> p.op = "apply"
    PROVE  InLast(file[p.old].pages[j], {})
<1>1. p.new \in LastVersions(p.doc) /\ Stays(p) /\ p.doc \in live
  BY AtHand DEF Placed, Renewed
<1>2. file[p.old].pages[j] \in Range(file[p.new].pages)
  BY <1>1 DEF Stays
<1>3. QED
  BY <1>1, <1>2 DEF InLast

\* Before a request ends, what it took is somewhere, or was dropped.
LEMMA HandPlaced ==
    ASSUME RecBase, NEW r \in Reqs, NEW p, p = req[r],
           p.pc \in {"srcNotify", "dstNotify", "extNotify"},
           p.pc = "srcNotify" => p.op = "apply", NEW c \in Hand(p)
    PROVE  Given(c) \/ InLast(c, {})
<1>1. p.pc \in AtWork \ {"srcRead", "srcInsert", "srcPdf"}
  BY DEF AtWork, SrcPcs, DstPcs, ExtPcs
<1>2. p.doc \in live /\ Knows(p) /\ Choice(p) /\ Placed(p) /\ LocalsAt(p.pc, p)
  BY <1>1, AtHand
<1>3. PICK f : f = file[p.old].pages
  OBVIOUS
<1>4. CASE p.op = "apply"
  <2>1. PICK j \in DOMAIN f : c = f[j]
    BY <1>3, <1>4 DEF Hand, Range
  <2>2. CASE \E i \in DOMAIN f : i \in Range(p.items) /\ c = f[i]
    BY <1>1, <1>3, <1>4, <2>2, KeptLast
  <2>3. CASE ~\E i \in DOMAIN f : i \in Range(p.items) /\ c = f[i]
    <3>1. Numbers(r) = p.items
      BY <1>2, NumbersAreItems DEF RecBase, Known
    <3>2. Range(p.items) \subseteq DOMAIN f
      <4>1. p.items \in Seq(DOMAIN p.rows) /\ Len(f) = Len(p.rows)
        BY <1>1, <1>2, <1>3, AtHand DEF LocalsAt
      <4>2. f \in Seq(Content) /\ p.rows \in Seq(PageRow)
        BY <1>1, <1>3, AtHand DEF RecBase, Known, TypeInv, StoreType, File, Request
      <4>3. DOMAIN f = DOMAIN p.rows
        BY <4>1, <4>2, LenProperties
      <4>4. QED
        BY <4>1, <4>3, RangeOfSeq
    <3>3. c \in Range(f) \ {f[n] : n \in Range(p.items)}
      BY <2>1, <2>3, <3>2 DEF Range
    <3>4. c \in Dropped(r)
      BY <1>3, <1>4, <3>1, <3>3 DEF Dropped
    <3>5. QED
      BY <3>4 DEF Given
  <2>4. QED
    BY <2>2, <2>3
<1>5. CASE p.op # "apply"
  <2>1. p.pc \in Handing
    BY <1>5 DEF Handing, ExtPcs
  <2>2. \A x \in OutPages(p) : InLast(x, {})
    BY ZenonT(60), <2>1, OutLast, InLastMore
  <2>3. CASE c \in Range(f)
    <3>1. PICK j \in DOMAIN f : c = f[j]
      BY <2>3 DEF Range
    <3>2. CASE j \in Range(p.items)
      <4>1. Copied(p, j)
        <5>1. CASE p.pc = "dstNotify"
          BY <1>2, <3>2, <5>1 DEF Placed, Awaits
        <5>2. CASE p.pc = "extNotify"
          <6>1. Progress(p)
            BY <1>2, <5>2 DEF Knows, ExtPcs
          <6>2. j \notin Remaining(p)
            BY <5>2 DEF Remaining
          <6>3. QED
            BY <1>2, <3>2, <5>2, <6>1, <6>2 DEF Progress
        <5>3. QED
          BY <1>5, <5>1, <5>2
      <4>2. QED
        BY <1>3, <2>2, <3>1, <4>1 DEF Copied
    <3>3. CASE j \notin Range(p.items)
      BY <1>1, <1>3, <1>5, <3>1, <3>3, KeptLast
    <3>4. QED
      BY <3>2, <3>3
  <2>4. CASE p.op = "mix" /\ c \in Range(file[p.dst].pages)
    <3>1. p.pc = "dstNotify"
      BY <1>2, <1>5, <2>4 DEF LocalsAt, ExtPcs, ExtractOps
    <3>2. c \in OutPages(p)
      BY <1>2, <2>4, <3>1 DEF Placed, Awaits
    <3>3. QED
      BY <2>2, <3>2
  <2>5. QED
    BY <1>3, <2>3, <2>4 DEF Hand
<1>6. QED
  BY <1>4, <1>5

LEMMA RecSrcText ==
    ASSUME RecBase, NEW r \in Reqs, Solo(r), SrcText(r)
    PROVE  RecInv'
<1>1. PICK p, q : p = req[r] /\ q = req'[r]
  OBVIOUS
<1>2. p.pc = "srcText" /\ Goto(r, "srcNotify") /\ UNCHANGED <<live, file, ocr>>
  BY <1>1 DEF SrcText, At
<1>3. q.pc = "srcNotify" /\ Carries(q, p)
  BY <1>1, <1>2, GotoFollows DEF RecBase, Known
<1>4. SameNumbers
  <2>1. PICK S : CopyText(req[r].rows, S, req[r].new)
    BY DEF SrcText
  <2>2. QED
    BY <2>1, CopyOnly DEF RecBase, Known, SameNumbers, OnlyPages
<1>5. p.pc \in AtWork /\ q.pc \in AtWork /\ p.pc \in SrcPcs /\ q.pc \notin Handing
  BY <1>2, <1>3 DEF AtWork, SrcPcs, ExtPcs, Handing
<1>6. Awaits(q)'
  BY <1>3 DEF Awaits
<1>7. QED
  BY <1>1, <1>2, <1>3, <1>4, <1>5, <1>6, RecQuiet

\* A handler goes to its end: what it took is in last versions, or was dropped.
LEMMA RecDone ==
    ASSUME RecBase, NEW r \in Reqs, Solo(r), NEW p, p = req[r],
           p.pc \in {"srcNotify", "dstNotify", "extNotify"},
           p.pc = "srcNotify" => p.op = "apply",
           Goto(r, "done"), UNCHANGED <<store, file, ocr>>
    PROVE  RecInv'
<1>1. PICK q : q = req'[r]
  OBVIOUS
<1>2. q.pc = "done" /\ SameAsk(q, p)
  BY <1>1, GotoFollows DEF RecBase, Known, Carries
<1>3. Working(p)
  BY DEF Working, Stopped
<1>4. Apart({}) /\ Apart({p.doc, p.into})
  <2>1. SameNumbers /\ live \subseteq live'
    BY DEF SameNumbers, store
  <2>2. QED
    BY <2>1, SameApart, ApartMore
<1>5. NoImages'
  BY DEF NoImages, RecBase, RecInv
<1>6. ASSUME NEW c \in Hand(p) PROVE Given(c) \/ InLast(c, {})'
  BY <1>4, HandPlaced, InLastKept
<1>7. QED
  BY <1>1, <1>2, <1>3, <1>4, <1>5, <1>6, RecEnd

LEMMA RecSrcNotify ==
    ASSUME RecBase, NEW r \in Reqs, Solo(r), SrcNotify(r)
    PROVE  RecInv'
<1>1. PICK p, q : p = req[r] /\ q = req'[r]
  OBVIOUS
<1>2. p.pc = "srcNotify" /\ UNCHANGED <<store, file, ocr>>
  BY <1>1 DEF SrcNotify, At
<1>3. PICK pc : Goto(r, pc) /\ pc = CASE p.op = "apply" -> "done"
                                     [] p.op \in MoveOps -> "dstRead"
                                     [] OTHER -> "extRead"
  BY <1>1 DEF SrcNotify
<1>4. CASE p.op = "apply"
  <2>1. pc = "done"
    BY <1>3, <1>4 DEF MoveOps
  <2>2. QED
    BY <1>1, <1>2, <1>3, <1>4, <2>1, RecDone
<1>5. CASE p.op # "apply"
  <2>1. pc \in {"dstRead", "extRead"}
    BY <1>3, <1>5
  <2>2. q.pc = pc /\ Carries(q, p)
    BY <1>1, <1>3, GotoFollows DEF RecBase, Known
  <2>3. p.pc \in AtWork /\ q.pc \in AtWork /\ p.pc \in SrcPcs /\ q.pc \notin SrcPcs
    BY <1>2, <2>1, <2>2 DEF AtWork, SrcPcs, ExtPcs, DstPcs
  <2>4. Awaits(q)'
    BY <2>1, <2>2 DEF Awaits
  <2>5. SameNumbers /\ live \subseteq live'
    BY <1>2 DEF SameNumbers, store
  <2>6. QED
    BY <1>1, <1>2, <2>2, <2>3, <2>4, <2>5, RecQuiet
<1>6. QED
  BY <1>4, <1>5

LEMMA RecDstNotify ==
    ASSUME RecBase, NEW r \in Reqs, Solo(r), DstNotify(r)
    PROVE  RecInv'
BY RecDone DEF DstNotify, At


-----------------------------------------------------------------------------
(* PagesRecoverable: extractions, and the end of an emptied source *)

LEMMA RecExtRead ==
    ASSUME RecBase, NEW r \in Reqs, Solo(r), ExtRead(r)
    PROVE  RecInv'
<1>1. PICK p, q : p = req[r] /\ q = req'[r]
  OBVIOUS
<1>2. p.pc = "extRead" /\ UNCHANGED <<store, file, ocr>>
  BY <1>1 DEF ExtRead, At
<1>3. p.pc \in AtWork
  BY <1>2 DEF AtWork, ExtPcs
<1>4. ver[p.old].doc # NoDoc
  BY <1>1, <1>3, AtHand, NoDocDead DEF RecBase, Known
<1>5. PICK found : found = (ver[p.old].doc # NoDoc)
  OBVIOUS
<1>6. Goto(r, CASE found -> "extDoc"
                [] ~found /\ p.op = "extract_one" -> "extNotify"
                [] OTHER -> "error")
  BY <1>1, <1>5 DEF ExtRead
<1>7. Goto(r, "extDoc")
  BY <1>4, <1>5, <1>6
<1>8. q.pc = "extDoc" /\ Carries(q, p)
  BY <1>1, <1>7, GotoFollows DEF RecBase, Known
<1>9. p.pc \in Handing /\ q.pc \in AtWork /\ q.pc \notin SrcPcs \cup DstPcs
  BY <1>2, <1>8 DEF AtWork, ExtPcs, Handing, SrcPcs, DstPcs
<1>10. Awaits(q)'
  BY <1>8 DEF Awaits
<1>11. SameNumbers /\ live \subseteq live'
  BY <1>2 DEF SameNumbers, store
<1>12. QED
  BY <1>1, <1>2, <1>3, <1>8, <1>9, <1>10, <1>11, RecQuiet

LEMMA RecExtDoc ==
    ASSUME RecBase, NEW r \in Reqs, Solo(r), ExtDoc(r)
    PROVE  RecInv'
<1>1. PICK p, q, n : p = req[r] /\ q = req'[r] /\ n = nextVer
  OBVIOUS
<1>2. p.pc = "extDoc" /\ UNCHANGED <<file, ocr>>
  BY <1>1 DEF ExtDoc, At
<1>3. PICK d : /\ CreateDocument(d)
               /\ req' = [req EXCEPT ![r].pc = "extPages", ![r].cur = d,
                              ![r].made = @ \cup {d},
                              ![r].todo = IF @ = <<>> THEN req[r].items ELSE @]
  BY DEF ExtDoc
<1>4. PICK s : s = [p EXCEPT !.pc = "extPages", !.cur = d, !.made = @ \cup {d},
                             !.todo = IF @ = <<>> THEN p.items ELSE @]
  OBVIOUS
<1>5. p \in Request
  BY <1>1, LocalsOf DEF RecBase, Known
<1>6. /\ s.pc = "extPages" /\ s.cur = d /\ SameAsk(s, p) /\ s.at = p.at /\ s.new = p.new
      /\ s.out = p.out
  BY <1>4, <1>5 DEF SameAsk, SameChoice, Request
<1>7. q = s
  <2>1. req' = [req EXCEPT ![r] = s]
    BY <1>1, <1>3, <1>4 DEF RecBase, Known, TypeInv
  <2>2. QED
    BY <1>1, <2>1, OneChanged DEF RecBase, Known
<1>8. /\ Apart({}) /\ d \in live' /\ d \notin live /\ VersionsOf(d)' = {n} /\ ~ver'[n].sized
  BY <1>1, <1>3, CreateLast
<1>9. live \subseteq live' /\ Apart({p.doc, p.into})
  BY <1>8 DEF Apart
<1>10. /\ p.pc \in AtWork \ {"srcRead", "srcInsert", "srcPdf"} /\ q.pc \in AtWork /\ p.pc \in Handing
       /\ q.pc \notin SrcPcs \cup DstPcs
  BY <1>2, <1>6, <1>7 DEF AtWork, ExtPcs, Handing, SrcPcs, DstPcs
<1>11. PICK D : D = {}
  OBVIOUS
<1>12. Sides(q)' /\ Renewed(q)' /\ Delivered(q)'
  BY <1>1, <1>6, <1>7, <1>8, <1>9, <1>10, <1>11, SidesKept, RenewedKept, DeliveredKept DEF SameAsk
<1>13. Awaits(q)'
  <2>1. q.cur = d /\ q.pc = "extPages" /\ p.doc \in live /\ q.doc = p.doc
    BY <1>1, <1>6, <1>7, <1>10, AtHand DEF SameAsk, SameChoice
  <2>2. d \in live' \ {q.doc} /\ VersionsOf(d)' # {}
    BY <1>8, <2>1
  <2>3. Unfilled(q)'
    BY <1>8, <2>1 DEF Unfilled
  <2>4. QED
    BY <2>1, <2>2, <2>3 DEF Awaits
<1>14. NoImages'
  BY <1>2 DEF NoImages, RecBase, RecInv
<1>15. Working(p) /\ Working(q)
  BY <1>2, <1>6, <1>7 DEF Working, Stopped
<1>16. QED
  BY <1>1, <1>2, <1>6, <1>7, <1>9, <1>10, <1>12, <1>13, <1>14, <1>15, RecOn DEF Placed

\* The rows that are extracted next are pages of the source.
LEMMA BatchReadable ==
    ASSUME RecBase, NEW r \in Reqs, NEW p, p = req[r], p.pc = "extPages"
    PROVE  Readable(p.old, Range(BatchNumbers(r)))
<1>1. p.pc \in AtWork /\ p.pc \in ExtPcs
  BY DEF AtWork, ExtPcs
<1>2. /\ p \in Request /\ LocalsAt(p.pc, p) /\ Choice(p) /\ file[p.old].kind = "pdf"
      /\ Len(file[p.old].pages) = Len(p.rows)
  BY <1>1, AtHand
<1>3. p.todo \in Seq(DOMAIN p.rows) /\ p.todo # <<>> /\ p.rows \in Seq(PageRow)
  BY <1>2 DEF LocalsAt, Request
<1>4. DOMAIN p.rows = 1..Len(p.rows) /\ \A i \in DOMAIN p.rows : p.rows[i].number = i
  BY <1>2, <1>3, LenProperties DEF Choice, Listed
<1>5. PICK b : b = Batch(r) /\ b = IF p.op = "extract_one" THEN <<Head(p.todo)>> ELSE p.todo
  BY DEF Batch
<1>6. \A k \in DOMAIN b : b[k] \in DOMAIN p.rows
  <2>1. CASE p.op = "extract_one"
    <3>1. Head(p.todo) \in DOMAIN p.rows
      BY <1>3
    <3>2. b = <<Head(p.todo)>>
      BY <1>5, <2>1
    <3>3. QED
      BY <3>1, <3>2
  <2>2. CASE p.op # "extract_one"
    BY <1>3, <1>5, <2>2, ElementOfSeq, LenProperties
  <2>3. QED
    BY <2>1, <2>2
<1>7. \A x \in Range(BatchNumbers(r)) : x \in DOMAIN p.rows
  <2>1. PICK n : n = BatchNumbers(r) /\ n = [k \in DOMAIN b |-> p.rows[b[k]].number]
    BY <1>5 DEF BatchNumbers
  <2>2. \A k \in DOMAIN n : n[k] = b[k] /\ k \in DOMAIN b
    BY <1>4, <1>6, <2>1
  <2>3. \A k \in DOMAIN n : n[k] \in DOMAIN p.rows
    BY <1>6, <2>2
  <2>4. QED
    BY <2>1, <2>3 DEF Range
<1>8. QED
  BY <1>2, <1>4, <1>7 DEF Readable

\* It does not fail: the version of the new document is filled.
LEMMA ExtPagesFills ==
    ASSUME RecBase, NEW r \in Reqs, ExtPages(r), NEW p, NEW q, p = req[r], q = req'[r]
    PROVE  /\ p.pc = "extPages" /\ UNCHANGED ocr /\ q.pc = "extText" /\ SameAsk(q, p)
           /\ q.at = p.at /\ q.new = p.new /\ q.cur = p.cur
           /\ \E v \in FillTarget(p.cur) :
                 FillVersion(p.cur, v, BatchPages(r)) /\ q.out = p.out \cup {v}
<1>1. p.pc = "extPages"
  BY Zenon DEF ExtPages, At
<1>2. p.pc \in AtWork
  BY <1>1 DEF AtWork, ExtPcs
<1>3. p.cur \in live
  BY <1>1, <1>2, AtHand DEF Placed, Awaits
<1>4. Readable(p.old, Range(BatchNumbers(r))) /\ Unsized(p.cur) # {}
  BY <1>1, BatchReadable DEF RecBase, Known, NumInv, Counted
<1>5. UNCHANGED ocr /\ \E v \in FillTarget(p.cur) :
        /\ FillVersion(p.cur, v, BatchPages(r))
        /\ req' = [req EXCEPT ![r].out = @ \cup {v},
              ![r].pc = IF p.op = "extract_one" /\ p.old \in ocr
                        THEN "error" ELSE "extText"]
  BY Zenon, <1>3, <1>4 DEF ExtPages, BatchPages, BatchNumbers
<1>6. PICK v \in FillTarget(p.cur) :
        /\ FillVersion(p.cur, v, BatchPages(r))
        /\ req' = [req EXCEPT ![r].out = @ \cup {v},
              ![r].pc = IF p.op = "extract_one" /\ p.old \in ocr
                        THEN "error" ELSE "extText"]
  BY <1>5
<1>7. PICK s : s = [p EXCEPT !.out = @ \cup {v}, !.pc = "extText"]
  OBVIOUS
<1>8. p \in Request
  BY <1>2, AtHand
<1>9. /\ s.pc = "extText" /\ SameAsk(s, p) /\ s.at = p.at /\ s.new = p.new /\ s.cur = p.cur
      /\ s.out = p.out \cup {v}
  BY <1>7, <1>8 DEF SameAsk, SameChoice, Request
<1>10. q = s
  <2>1. req' = [req EXCEPT ![r].out = @ \cup {v}, ![r].pc = "extText"]
    BY <1>6 DEF RecBase, RecInv
  <2>2. req' = [req EXCEPT ![r] = s]
    BY <1>7, <2>1 DEF RecBase, Known, TypeInv
  <2>3. QED
    BY <2>2, OneChanged DEF RecBase, Known
<1>11. QED
  BY ZenonT(60), <1>1, <1>5, <1>6, <1>9, <1>10


LEMMA RecExtPages ==
    ASSUME RecBase, NEW r \in Reqs, Solo(r), ExtPages(r)
    PROVE  RecInv'
<1>1. PICK p, q, d : p = req[r] /\ q = req'[r] /\ d = p.cur
  OBVIOUS
<1>2. /\ p.pc = "extPages" /\ UNCHANGED ocr /\ q.pc = "extText" /\ SameAsk(q, p)
      /\ q.at = p.at /\ q.new = p.new /\ q.cur = d
      /\ \E v \in FillTarget(d) : FillVersion(d, v, BatchPages(r)) /\ q.out = p.out \cup {v}
  BY <1>1, ExtPagesFills
<1>3. /\ p.pc \in AtWork \ {"srcRead", "srcInsert", "srcPdf"} /\ q.pc \in AtWork /\ p.pc \in Handing
      /\ q.pc \notin SrcPcs \cup DstPcs
  BY <1>2 DEF AtWork, ExtPcs, Handing, SrcPcs, DstPcs
<1>4. /\ Placed(p) /\ Choice(p) /\ p.doc \in live /\ d \in live \ {p.doc} /\ Unfilled(p)
      /\ VersionsOf(d) # {}
  BY <1>1, <1>2, <1>3, AtHand DEF Placed, Awaits
<1>5. d \in Docs /\ d # NoDoc
  BY <1>4, NoDocDead DEF RecBase, Known
<1>6. PICK v \in FillTarget(d) : FillVersion(d, v, BatchPages(r)) /\ q.out = p.out \cup {v}
  BY <1>2
<1>7. BatchPages(r) \in Seq(Content)
  BY <1>1, <1>2, <1>4, BatchReadable, BatchPagesAre DEF RecBase, Known
<1>8. /\ v \in VerIds /\ file'[v] = Pdf(BatchPages(r)) /\ ver'[v].doc = d
      /\ \A w \in VerIds \ {v} : ver'[w] = ver[w] /\ file'[w] = file[w]
  BY <1>1, <1>2, <1>6, <1>7, RowsFilled DEF RecBase, Known
<1>9. v \in VersionsOf(d)
  <2>1. Unsized(d) # {}
    BY <1>1, <1>2 DEF RecBase, Known, NumInv, Counted
  <2>2. QED
    BY <1>6, <2>1 DEF FillTarget, Highest, Unsized
<1>10. UNCHANGED live
  BY <1>6 DEF FillVersion
<1>11. PICK D : D = {d} /\ Apart(D)
  BY <1>8, <1>9, <1>10, OneApart DEF VersionsOf
<1>12. LastVersions(d)' = {v}
  <2>1. VersionsOf(d)' \subseteq {v}
    BY <1>1, <1>4, <1>5, <1>6, FilledAlone DEF Unfilled, RecBase, Known
  <2>2. v \in VersionsOf(d)'
    BY <1>8 DEF VersionsOf
  <2>3. ver'[v].number \in Nat
    BY <1>8 DEF RecBase, Known, TypeInv, StoreType, Version
  <2>4. \A w \in VersionsOf(d)' : w = v /\ ver'[w].number <= ver'[v].number
    BY <2>1, <2>3
  <2>5. QED
    BY <2>2, <2>4 DEF LastVersions, Highest
<1>13. Delivered(q)'
  <2>1. ASSUME NEW w \in q.out PROVE \E e \in live' \ {q.doc} : w \in LastVersions(e)'
    <3>1. q.doc = p.doc
      BY <1>2 DEF SameAsk, SameChoice
    <3>2. CASE w = v
      BY <1>4, <1>10, <1>12, <3>1, <3>2
    <3>3. CASE w # v
      <4>1. PICK e \in live \ {p.doc} : w \in LastVersions(e)
        BY <1>3, <1>4, <1>6, <3>3 DEF Placed, Delivered
      <4>2. e # d
        BY <1>1, <1>4, <1>9, <3>3, <4>1 DEF Unfilled, LastVersions, Highest
      <4>3. e \in live' \ {q.doc} /\ w \in LastVersions(e)'
        BY <1>11, <3>1, <4>1, <4>2 DEF Apart
      <4>4. QED
        BY <4>3
    <3>4. QED
      BY <3>2, <3>3
  <2>2. QED
    BY <1>3, <2>1 DEF Delivered
<1>14. Sides(q)'
  BY <1>1, <1>2, <1>3, <1>10, SidesKept DEF SameAsk
<1>15. Renewed(q)'
  BY <1>1, <1>2, <1>3, <1>4, <1>11, RenewedKept DEF SameAsk
<1>16. Awaits(q)'
  <2>1. d \in live' \ {q.doc} /\ VersionsOf(d)' # {}
    BY <1>2, <1>4, <1>8, <1>10 DEF VersionsOf, SameAsk, SameChoice
  <2>2. QED
    BY <1>2, <2>1 DEF Awaits
<1>17. NoImages'
  <2>1. file'[v].kind = "pdf"
    BY <1>8 DEF Pdf
  <2>2. QED
    BY <1>8, <2>1 DEF NoImages, RecBase, RecInv
<1>18. Working(p) /\ Working(q)
  BY <1>2 DEF Working, Stopped
<1>19. Apart({p.doc, p.into})
  <2>1. ASSUME NEW e \in live PROVE LastVersions(e)' = LastVersions(e)
    <3>1. CASE e = d
      <4>1. \A w \in LastVersions(d) : w = v
        BY <1>1, <1>4, <1>9 DEF Unfilled, LastVersions, Highest
      <4>2. LastVersions(d) # {}
        BY <1>4, <1>5, SomeLast
      <4>3. LastVersions(d) = {v}
        BY <4>1, <4>2
      <4>4. QED
        BY <1>12, <3>1, <4>3
    <3>2. CASE e # d
      BY <1>11, <3>2 DEF Apart
    <3>3. QED
      BY <3>1, <3>2
  <2>2. QED
    BY <1>10, <2>1 DEF Apart
<1>20. QED
  BY <1>1, <1>2, <1>3, <1>13, <1>14, <1>15, <1>16, <1>17, <1>18, <1>19, RecOn DEF Placed


LEMMA RecExtText ==
    ASSUME RecBase, NEW r \in Reqs, Solo(r), ExtText(r)
    PROVE  RecInv'
<1>1. PICK p, q : p = req[r] /\ q = req'[r]
  OBVIOUS
<1>2. p.pc = "extText" /\ UNCHANGED <<live, file, ocr>>
  BY <1>1, ExtTextEffect DEF ExtText, At, RecBase, Known
<1>3. p.pc \in AtWork /\ p \in Request
  BY <1>1, <1>2, LocalsOf DEF AtWork, ExtPcs, RecBase, Known
<1>4. VersionsOf(p.cur) # {}
  BY <1>1, <1>2, <1>3, AtHand DEF Placed, Awaits
<1>5. q.pc \in {"extNotify", "extDoc"} /\ Carries(q, p)
  <2>1. CASE /\ p.op = "extract_one"
             /\ req' = [req EXCEPT ![r].todo = Tail(@),
                          ![r].pc = IF Len(p.todo) = 1 THEN "extNotify" ELSE "extDoc"]
    <3>1. PICK pc, s : /\ pc = (IF Len(p.todo) = 1 THEN "extNotify" ELSE "extDoc")
                       /\ s = [p EXCEPT !.todo = Tail(@), !.pc = pc]
      OBVIOUS
    <3>2. s.pc = pc /\ Carries(s, p)
      BY <1>3, <3>1 DEF Carries, SameAsk, SameChoice, Request
    <3>3. req' = [req EXCEPT ![r] = s]
      BY <1>1, <2>1, <3>1 DEF RecBase, Known, TypeInv
    <3>4. q = s
      BY <1>1, <3>3, OneChanged DEF RecBase, Known
    <3>5. QED
      BY <3>1, <3>2, <3>4
  <2>2. CASE Goto(r, "extNotify")
    BY <1>1, <2>2, GotoFollows DEF RecBase, Known
  <2>3. QED
    BY <1>1, <1>4, <2>1, <2>2 DEF ExtText
<1>6. SameNumbers
  <2>1. (\E v, S : CopyText(req[r].rows, S, v)) \/ UNCHANGED ver
    BY DEF ExtText, store
  <2>2. QED
    BY <2>1, CopyOnly DEF OnlyPages, SameNumbers, RecBase, Known
<1>7. q.pc \in AtWork /\ q.pc \notin SrcPcs \cup DstPcs /\ p.pc \in Handing
  BY <1>2, <1>5 DEF AtWork, ExtPcs, SrcPcs, DstPcs, Handing
<1>8. Awaits(q)'
  BY <1>5 DEF Awaits
<1>9. QED
  BY <1>1, <1>2, <1>3, <1>5, <1>6, <1>7, <1>8, RecQuiet

LEMMA RecExtNotify ==
    ASSUME ~RedisPresent, RecBase, NEW r \in Reqs, Solo(r), ExtNotify(r)
    PROVE  RecInv'
<1>1. PICK p, q : p = req[r] /\ q = req'[r]
  OBVIOUS
<1>2. p.pc = "extNotify" /\ UNCHANGED <<store, file, ocr>>
  BY <1>1 DEF ExtNotify, At
<1>3. Goto(r, "purge") \/ Goto(r, "done")
  BY DEF ExtNotify
<1>4. CASE Goto(r, "done")
  BY <1>1, <1>2, <1>4, RecDone
<1>5. CASE Goto(r, "purge")
  <2>1. q.pc = "purge" /\ Carries(q, p)
    BY <1>1, <1>5, GotoFollows DEF RecBase, Known
  <2>2. p.pc \in AtWork /\ p.pc \in Handing /\ q.pc \in AtWork /\ q.pc \notin SrcPcs \cup DstPcs
    BY <1>2, <2>1 DEF AtWork, ExtPcs, SrcPcs, DstPcs, Handing
  <2>3. q.op # "mix"
    BY <1>1, <1>2, <2>1, LocalsOf
       DEF RecBase, Known, LocalsAt, ExtPcs, ExtractOps, Carries, SameAsk, SameChoice
  <2>4. Awaits(q)'
    BY <2>1, <2>3 DEF Awaits
  <2>5. SameNumbers /\ live \subseteq live'
    BY <1>2 DEF SameNumbers, store
  <2>6. QED
    BY <1>1, <1>2, <2>1, <2>2, <2>4, <2>5, RecQuiet
<1>6. QED
  BY <1>3, <1>4, <1>5

\* The emptied source goes: its pages are in the files the request has written.
LEMMA RecPurge ==
    ASSUME RecBase, NEW r \in Reqs, Solo(r), Purge(r)
    PROVE  RecInv'
<1>1. PICK p, q : p = req[r] /\ q = req'[r]
  OBVIOUS
<1>2. p.pc = "purge" /\ Goto(r, "done") /\ DropDocument(p.doc) /\ UNCHANGED <<file, ocr>>
  BY <1>1 DEF Purge, At
<1>3. q.pc = "done" /\ SameAsk(q, p)
  BY <1>1, <1>2, GotoFollows DEF RecBase, Known, Carries
<1>4. p.pc \in AtWork /\ p.pc \in Handing
  BY <1>2 DEF AtWork, Handing
<1>5. p.doc \in live /\ Knows(p) /\ Placed(p) /\ Working(p)
  BY <1>1, <1>4, AtHand
<1>6. Apart({p.doc}) /\ Apart({p.doc, p.into})
  BY <1>2, NoDocDead, DropApart, ApartMore DEF RecBase, Known
<1>7. \A c \in Hand(p) : c \in OutPages(p)
  <2>1. Range(file[p.old].pages) \subseteq OutPages(p)
    BY <1>2, <1>5 DEF Knows, Progress
  <2>2. p.op = "mix" => Range(file[p.dst].pages) \subseteq OutPages(p)
    BY <1>2, <1>5 DEF Placed, Awaits
  <2>3. QED
    BY <2>1, <2>2 DEF Hand
<1>8. ASSUME NEW c \in Hand(p) PROVE InLast(c, {})'
  <2>1. PICK D : D = {p.doc} /\ Apart(D)
    BY <1>6
  <2>2. InLast(c, D)
    BY <1>1, <1>4, <1>7, <2>1, OutLast
  <2>3. InLast(c, D)'
    BY <2>1, <2>2, InLastKept
  <2>4. QED
    BY <2>3 DEF InLast
<1>9. NoImages'
  BY <1>2 DEF NoImages, RecBase, RecInv
<1>10. QED
  BY <1>1, <1>2, <1>3, <1>5, <1>6, <1>8, <1>9, RecEnd

-----------------------------------------------------------------------------
(* PagesRecoverable: the versions a request makes *)

LEMMA RecSrcInsert ==
    ASSUME RecBase, NEW r \in Reqs, Solo(r), SrcInsert(r)
    PROVE  RecInv'
<1>1. PICK p, q, n : p = req[r] /\ q = req'[r] /\ n = nextVer
  OBVIOUS
<1>2. p.pc = "srcInsert"
  BY <1>1 DEF SrcInsert, At
<1>3. p.pc \in AtWork /\ p.pc \in SrcPcs
  BY <1>2 DEF AtWork, SrcPcs
<1>4. p.doc \in live /\ p \in Request
  BY <1>1, <1>3, AtHand
<1>5. /\ BumpInsert(r, p.doc, SrcCount(r))
      /\ req' = [req EXCEPT ![r].pc = "srcPdf", ![r].new = n]
  BY <1>1, <1>4 DEF SrcInsert
<1>6. UNCHANGED <<file, ocr>>
  BY <1>5 DEF BumpInsert
<1>7. PICK s : s = [p EXCEPT !.pc = "srcPdf", !.new = n]
  OBVIOUS
<1>8. s.pc = "srcPdf" /\ s.new = n /\ SameAsk(s, p) /\ s.at = p.at /\ s.out = p.out
  BY <1>4, <1>7 DEF SameAsk, SameChoice, Request
<1>9. q = s
  <2>1. req' = [req EXCEPT ![r] = s]
    BY <1>1, <1>5, <1>7 DEF RecBase, Known, TypeInv
  <2>2. QED
    BY <1>1, <2>1, OneChanged DEF RecBase, Known
<1>10. req[r].lnum = Cardinality(VersionsOf(p.doc))
  BY <1>1, <1>2, <1>4, NoDocDead DEF RecBase, Known, NumInv, Counted
<1>11. Apart({p.doc}) /\ n \in LastVersions(p.doc)' /\ live' = live
  BY <1>1, <1>4, <1>5, <1>10, BumpLast
<1>12. q.pc \in AtWork /\ q.pc \in SrcPcs /\ q.pc \notin Handing
  BY <1>8, <1>9 DEF AtWork, SrcPcs, Handing, ExtPcs
<1>13. Sides(q)'
  BY <1>1, <1>3, <1>8, <1>9, <1>11, <1>12, SidesKept DEF SameAsk
<1>14. Renewed(q)'
  BY <1>8, <1>9, <1>11 DEF Renewed, SameAsk, SameChoice
<1>15. Delivered(q)'
  <2>1. p.out = {}
    BY <1>1, <1>3, AtHand DEF Placed, Delivered
  <2>2. QED
    BY <1>8, <1>9, <1>12, <2>1 DEF Delivered
<1>16. Awaits(q)'
  BY <1>8, <1>9 DEF Awaits
<1>17. NoImages'
  BY <1>6 DEF NoImages, RecBase, RecInv
<1>18. Working(p) /\ Working(q) /\ Apart({p.doc, p.into})
  BY <1>2, <1>8, <1>9, <1>11, ApartMore DEF Working, Stopped
<1>19. QED
  BY <1>1, <1>3, <1>6, <1>8, <1>9, <1>12, <1>13, <1>14, <1>15, <1>16, <1>17, <1>18, RecOn
     DEF Placed

LEMMA RecDstInsert ==
    ASSUME RecBase, NEW r \in Reqs, Solo(r), DstInsert(r)
    PROVE  RecInv'
<1>1. PICK p, q, n : p = req[r] /\ q = req'[r] /\ n = nextVer
  OBVIOUS
<1>2. p.pc = "dstInsert"
  BY <1>1 DEF DstInsert, At
<1>3. p.pc \in AtWork \ {"srcRead", "srcInsert", "srcPdf"} /\ p.pc \in DstPcs
  BY <1>2 DEF AtWork, DstPcs
<1>4. p.op \in MoveOps /\ p \in Request
  BY <1>1, <1>3, LocalsOf DEF LocalsAt, RecBase, Known
<1>5. p.into \in live /\ p.into # p.doc
  BY <1>1, <1>3, <1>4, AtTarget
<1>6. /\ BumpInsert(r, p.into, DstCount(r))
      /\ req' = [req EXCEPT ![r].pc = "dstPdf", ![r].dnew = n]
  BY <1>1, <1>5 DEF DstInsert
<1>7. UNCHANGED <<file, ocr>>
  BY <1>6 DEF BumpInsert
<1>8. PICK s : s = [p EXCEPT !.pc = "dstPdf", !.dnew = n]
  OBVIOUS
<1>9. s.pc = "dstPdf" /\ s.dnew = n /\ s.new = p.new /\ SameAsk(s, p) /\ s.at = p.at
  BY <1>4, <1>8 DEF SameAsk, SameChoice, Request
<1>10. q = s
  <2>1. req' = [req EXCEPT ![r] = s]
    BY <1>1, <1>6, <1>8 DEF RecBase, Known, TypeInv
  <2>2. QED
    BY <1>1, <2>1, OneChanged DEF RecBase, Known
<1>11. req[r].lnum = Cardinality(VersionsOf(p.into))
  BY <1>1, <1>2, <1>5, NoDocDead DEF RecBase, Known, NumInv, Counted
<1>12. PICK D : D = {p.into} /\ Apart(D) /\ n \in LastVersions(p.into)' /\ live' = live
  BY <1>1, <1>5, <1>6, <1>11, BumpLast
<1>13. q.pc \in AtWork /\ q.pc \in DstPcs /\ q.pc \notin SrcPcs \cup Handing
  BY <1>9, <1>10 DEF AtWork, SrcPcs, DstPcs, Handing, ExtPcs
<1>14. Sides(q)'
  BY <1>1, <1>3, <1>9, <1>10, <1>12, <1>13, SidesKept DEF SameAsk
<1>15. Renewed(q)'
  BY <1>1, <1>3, <1>5, <1>9, <1>10, <1>12, RenewedKept DEF SameAsk
<1>16. Delivered(q)'
  BY <1>13 DEF Delivered
<1>17. Awaits(q)'
  BY <1>9, <1>10, <1>12 DEF Awaits, SameAsk, SameChoice
<1>18. NoImages'
  BY <1>7 DEF NoImages, RecBase, RecInv
<1>19. Working(p) /\ Working(q) /\ Apart({p.doc, p.into})
  BY <1>2, <1>9, <1>10, <1>12, ApartMore DEF Working, Stopped
<1>20. QED
  BY <1>1, <1>3, <1>7, <1>9, <1>10, <1>13, <1>14, <1>15, <1>16, <1>17, <1>18, <1>19, RecOn
     DEF Placed


-----------------------------------------------------------------------------
(* PagesRecoverable: the files a request writes *)

\* The file of the source without its pages, or with the chosen ones.
LEMMA SrcPagesStay ==
    ASSUME RecBase, NEW r \in Reqs, NEW p, p = req[r], p.pc = "srcPdf", NEW s \in SrcPages(r),
           NEW f, f = file[p.old].pages, NEW j \in DOMAIN f,
           j \in Range(p.items) <=> p.op = "apply"
    PROVE  f[j] \in Range(s)
<1>1. p.pc \in AtWork
  BY DEF AtWork, SrcPcs
<1>2. Choice(p) /\ p.old \in VerIds
  BY <1>1, AtHand
<1>3. Numbers(r) = p.items
  BY <1>2, NumbersAreItems DEF RecBase, Known
<1>4. f \in Seq(Content) /\ Len(f) \in Nat /\ DOMAIN f = 1..Len(f)
  <2>1. f \in Seq(Content)
    BY <1>2 DEF RecBase, Known, TypeInv, StoreType, File
  <2>2. QED
    BY <2>1, LenProperties
<1>5. CASE p.op = "apply"
  <2>1. s = [k \in DOMAIN p.items |-> f[p.items[k]]]
    BY <1>3, <1>5 DEF SrcPages
  <2>2. PICK k \in DOMAIN p.items : p.items[k] = j
    BY <1>5 DEF Range
  <2>3. QED
    BY <2>1, <2>2 DEF Range
<1>6. CASE p.op # "apply"
  <2>1. PICK t \in InOrder(DOMAIN f \ Range(p.items)) : s = [k \in DOMAIN t |-> f[t[k]]]
    BY <1>3, <1>6 DEF SrcPages
  <2>2. PICK S \in SUBSET (1..Len(f)) : S = DOMAIN f \ Range(p.items)
    BY <1>4
  <2>3. Range(t) = S
    BY <1>4, <2>1, <2>2, PlaceOf
  <2>4. PICK k \in DOMAIN t : t[k] = j
    BY <1>6, <2>2, <2>3 DEF Range
  <2>5. QED
    BY <2>1, <2>4 DEF Range
<1>7. QED
  BY <1>5, <1>6

\* The rows a request took stand for pages of the source file.
LEMMA RowsReadable ==
    ASSUME RecBase, NEW r \in Reqs, NEW p, p = req[r], p.pc \in AtWork
    PROVE  /\ Range(p.items) \subseteq 1..Len(file[p.old].pages)
           /\ Range(p.todo) \subseteq 1..Len(file[p.old].pages)
<1>1. p \in Request /\ LocalsAt(p.pc, p) /\ Len(file[p.old].pages) = Len(p.rows)
  BY AtHand
<1>2. p.items \in Seq(DOMAIN p.rows) /\ p.todo \in Seq(DOMAIN p.rows) /\ p.rows \in Seq(PageRow)
  BY <1>1 DEF LocalsAt, Request
<1>3. DOMAIN p.rows = 1..Len(file[p.old].pages)
  BY <1>1, <1>2, LenProperties
<1>4. QED
  BY <1>2, <1>3, RangeOfSeq

LEMMA RecSrcPdf ==
    ASSUME RecBase, NEW r \in Reqs, Solo(r), SrcPdf(r)
    PROVE  RecInv'
<1>1. PICK p, q : p = req[r] /\ q = req'[r]
  OBVIOUS
<1>2. p.pc = "srcPdf"
  BY <1>1 DEF SrcPdf, At
<1>3. p.pc \in AtWork \ {"srcRead", "srcInsert"} /\ p.pc \in SrcPcs
  BY <1>2 DEF AtWork, SrcPcs
<1>4. /\ Choice(p) /\ file[p.old].kind = "pdf" /\ p.old \in VerIds /\ p.doc \in live
      /\ LocalsAt(p.pc, p) /\ Placed(p)
  BY <1>1, <1>3, AtHand
<1>5. Readable(p.old, Range(Numbers(r)))
  <2>1. Numbers(r) = p.items
    BY <1>1, <1>4, NumbersAreItems DEF RecBase, Known
  <2>2. QED
    BY <1>1, <1>3, <1>4, <2>1, RowsReadable DEF Readable
<1>6. ~ReuseOcrRaises(p.old, Kept(r))
  BY DEF ReuseOcrRaises, RecBase, RecInv
<1>7. /\ \E s \in SrcPages(r) : file' = [file EXCEPT ![p.new] = Pdf(s)]
      /\ Goto(r, "srcText") /\ UNCHANGED <<store, ocr>>
  BY <1>1, <1>5, <1>6 DEF SrcPdf
<1>8. PICK s \in SrcPages(r) : file' = [file EXCEPT ![p.new] = Pdf(s)]
  BY <1>7
<1>9. q.pc = "srcText" /\ Carries(q, p)
  BY <1>1, <1>7, GotoFollows DEF RecBase, Known
<1>10. p.new \in VerIds
  BY <1>2, <1>4 DEF LocalsAt
<1>11. file'[p.new] = Pdf(s) /\ \A v \in VerIds \ {p.new} : file'[v] = file[v]
  BY <1>8, <1>10 DEF RecBase, Known, TypeInv, StoreType
<1>12. Apart({}) /\ Apart({p.doc, p.into}) /\ live \subseteq live'
       /\ LastVersions(p.doc)' = LastVersions(p.doc)
  <2>1. SameNumbers /\ live \subseteq live'
    BY <1>7 DEF SameNumbers, store
  <2>2. QED
    BY <2>1, SameApart, ApartMore
<1>13. q.pc \in AtWork /\ q.pc \in SrcPcs /\ q.pc \notin Handing
  BY <1>9 DEF AtWork, SrcPcs, Handing, ExtPcs
<1>14. Stays(q)'
  <2>1. PICK f, g : f = file[p.old] /\ g = Pdf(s)
    OBVIOUS
  <2>2. file'[p.old] = f
    BY <1>4, <2>1, PagesStay
  <2>3. g.pages = s
    BY <2>1 DEF Pdf
  <2>4. \A j \in DOMAIN f.pages :
           (j \in Range(p.items) <=> p.op = "apply") => f.pages[j] \in Range(g.pages)
    BY <1>1, <1>2, <2>1, <2>3, SrcPagesStay
  <2>5. q.old = p.old /\ q.new = p.new /\ q.items = p.items /\ q.op = p.op
    BY <1>9 DEF Carries, SameAsk, SameChoice
  <2>6. QED
    BY <1>11, <2>1, <2>2, <2>4, <2>5 DEF Stays
<1>15. Renewed(q)'
  <2>1. p.new \in LastVersions(p.doc)
    BY <1>3, <1>4 DEF Placed, Renewed
  <2>2. QED
    BY <1>9, <1>12, <1>14, <2>1 DEF Renewed, Carries, SameAsk, SameChoice
<1>16. Sides(q)'
  BY <1>1, <1>3, <1>9, <1>12, <1>13, SidesKept DEF Carries, SameAsk
<1>17. Delivered(q)'
  BY <1>3, <1>4, <1>9, <1>13 DEF Delivered, Placed, Carries
<1>18. Awaits(q)'
  BY <1>9 DEF Awaits
<1>19. NoImages'
  <2>1. file'[p.new].kind = "pdf"
    BY <1>11 DEF Pdf
  <2>2. QED
    BY <1>11, <2>1 DEF NoImages, RecBase, RecInv
<1>20. Working(p) /\ Working(q)
  BY <1>2, <1>9 DEF Working, Stopped
<1>21. QED
  BY <1>1, <1>3, <1>7, <1>9, <1>12, <1>13, <1>15, <1>16, <1>17, <1>18, <1>19, <1>20, RecOn
     DEF Placed, Carries


\* What is spliced keeps what it is spliced into.
LEMMA SplicedKeeps ==
    ASSUME NEW S, NEW t \in Seq(S), NEW m \in Seq(S), NEW n \in 1..(Len(t) + 1)
    PROVE  Range(t) \subseteq Range(Spliced(t, m, n))
<1>1. Len(t) \in Nat /\ DOMAIN t = 1..Len(t) /\ Len(m) \in Nat
  BY LenProperties
<1>2. n \in Nat /\ 1 <= n /\ n <= Len(t) + 1
  BY <1>1
<1>3. PICK s : s = Spliced(t, m, n)
  OBVIOUS
<1>4. /\ s \in Seq(S) /\ Len(s) = Len(t) + Len(m)
      /\ \A i \in 1..(n - 1) : s[i] = t[i]
      /\ \A i \in n..Len(t) : s[i + Len(m)] = t[i]
  <2>1. SplicedWell(S, t, m, n)
    BY <1>2, Inserted
  <2>2. QED
    BY <1>3, <2>1 DEF SplicedWell
<1>5. DOMAIN s = 1..(Len(t) + Len(m))
  BY <1>4, LenProperties
<1>6. ASSUME NEW i \in DOMAIN t PROVE \E k \in DOMAIN s : s[k] = t[i]
  <2>1. CASE i < n
    <3>1. i \in 1..(n - 1) /\ i \in DOMAIN s
      BY <1>1, <1>2, <1>5, <2>1
    <3>2. QED
      BY <1>4, <3>1
  <2>2. CASE n <= i
    <3>1. i \in n..Len(t) /\ i + Len(m) \in DOMAIN s
      BY <1>1, <1>2, <1>5, <2>2
    <3>2. QED
      BY <1>4, <3>1
  <2>3. QED
    BY <1>1, <1>2, <2>1, <2>2
<1>7. QED
  BY <1>3, <1>6 DEF Range

\* The file of the target has the moved pages, and those it is mixed with.
LEMMA DstFileHas ==
    ASSUME RecBase, NEW r \in Reqs, NEW p, p = req[r], p.pc = "dstPdf", NEW s, s = DstPages(r)
    PROVE  /\ DstReadable(r)
           /\ \A j \in Range(p.items) :
                 j \in DOMAIN file[p.old].pages /\ file[p.old].pages[j] \in Range(s)
           /\ p.op = "mix" => Range(file[p.dst].pages) \subseteq Range(s)
<1>1. p.pc \in AtWork /\ p.pc \in DstPcs
  BY DEF AtWork, DstPcs
<1>2. /\ p \in Request /\ LocalsAt(p.pc, p) /\ Knows(p) /\ Choice(p) /\ p.doc \in live
      /\ p.old \in VerIds /\ file[p.old].kind = "pdf" /\ Placed(p)
  BY <1>1, AtHand
<1>3. p.op \in MoveOps
  BY <1>1, <1>2 DEF LocalsAt
<1>4. /\ p.dst \in VerIds /\ file[p.dst].kind = "pdf" /\ Whole(p.dst)
      /\ p.at \in 1..Len(ver[p.dst].pages)
  BY <1>1, <1>2, <1>3, AtTarget DEF Placed, Sides
<1>5. PICK f, t : f = file[p.old].pages /\ t = file[p.dst].pages
  OBVIOUS
<1>6. /\ f \in Seq(Content) /\ DOMAIN f = 1..Len(f)
      /\ t \in Seq(Content) /\ Len(t) \in Nat /\ Len(t) = Len(ver[p.dst].pages)
  <2>1. f \in Seq(Content) /\ t \in Seq(Content)
    BY <1>2, <1>4, <1>5 DEF RecBase, Known, TypeInv, StoreType, File
  <2>2. QED
    BY <1>4, <1>5, <2>1, LenProperties DEF Whole
<1>7. p.todo = p.items
  BY <1>2 DEF Knows, Copying
<1>8. Range(p.items) \subseteq 1..Len(f)
  BY <1>1, <1>5, RowsReadable
<1>9. Readable(p.old, Range(Moved(r)))
  <2>1. PICK b : b = Moved(r) /\ b = [k \in DOMAIN p.items |-> p.rows[p.items[k]].number]
    BY <1>7 DEF Moved
  <2>2. \A k \in DOMAIN p.items : p.items[k] \in DOMAIN p.rows
    BY <1>2, ElementOfSeq, LenProperties DEF LocalsAt
  <2>3. \A k \in DOMAIN b : b[k] = p.items[k] /\ k \in DOMAIN p.items
    BY <1>2, <2>1, <2>2 DEF Choice, Listed
  <2>4. Range(b) \subseteq Range(p.items)
    BY <2>3 DEF Range
  <2>5. QED
    BY <1>2, <1>5, <1>8, <2>1, <2>4 DEF Readable
<1>10. p.at \in 1..(Len(t) + 1) /\ p.at <= Len(t) + 1
  BY <1>4, <1>6
<1>11. DstReadable(r)
  BY <1>4, <1>5, <1>9, <1>10 DEF DstReadable
<1>12. \A j \in Range(p.items) : j \in DOMAIN f /\ f[j] \in Range(s)
  <2>1. \A j \in Range(p.items) : f[j] \in Range(s)
    BY <1>2, <1>5, <1>7, <1>11, DstPagesAre DEF RecBase, Known
  <2>2. QED
    BY <1>6, <1>8, <2>1
<1>13. ASSUME p.op = "mix" PROVE Range(t) \subseteq Range(s)
  <2>1. PICK m : m = MovedPages(r)
    OBVIOUS
  <2>2. m \in Seq(Content)
    BY Zenon, <1>2, <1>9, <2>1, MovedPagesAre DEF RecBase, Known
  <2>3. s = Spliced(t, m, p.at)
    BY <1>5, <1>13, <2>1 DEF DstPages, Spliced
  <2>4. QED
    BY <1>6, <1>10, <2>2, <2>3, SplicedKeeps
<1>14. QED
  BY <1>5, <1>11, <1>12, <1>13

LEMMA RecDstPdf ==
    ASSUME RecBase, NEW r \in Reqs, Solo(r), DstPdf(r)
    PROVE  RecInv'
<1>1. PICK p, q, s : p = req[r] /\ q = req'[r] /\ s = DstPages(r)
  OBVIOUS
<1>2. p.pc = "dstPdf"
  BY <1>1 DEF DstPdf, At
<1>3. p.pc \in AtWork \ {"srcRead", "srcInsert", "srcPdf"} /\ p.pc \in DstPcs
  BY <1>2 DEF AtWork, DstPcs
<1>4. /\ p \in Request /\ LocalsAt(p.pc, p) /\ p.old \in VerIds /\ file[p.old].kind = "pdf"
      /\ Placed(p) /\ p.op \in MoveOps /\ p.dnew \in VerIds
  BY <1>1, <1>2, <1>3, AtHand DEF LocalsAt
<1>5. p.into \in live /\ p.into # p.doc /\ p.dst \in VerIds /\ file[p.dst].kind = "pdf"
  BY <1>1, <1>3, <1>4, AtTarget
<1>6. /\ DstReadable(r)
      /\ \A j \in Range(p.items) :
            j \in DOMAIN file[p.old].pages /\ file[p.old].pages[j] \in Range(s)
      /\ p.op = "mix" => Range(file[p.dst].pages) \subseteq Range(s)
  BY <1>1, <1>2, DstFileHas
<1>7. \A v, X : ~ReuseOcrRaises(v, X)
  BY DEF ReuseOcrRaises, RecBase, RecInv
<1>8. PICK pc : pc = IF AllChosen(r) THEN "purge" ELSE "dstNotify"
  OBVIOUS
<1>9. /\ file' = [file EXCEPT ![p.dnew] = Pdf(s)]
      /\ req' = [req EXCEPT ![r].out = {p.dnew}, ![r].pc = pc]
      /\ UNCHANGED <<store, ocr>>
  BY <1>1, <1>6, <1>7, <1>8 DEF DstPdf
<1>10. PICK x : x = [p EXCEPT !.out = {p.dnew}, !.pc = pc]
  OBVIOUS
<1>11. /\ x.pc = pc /\ SameAsk(x, p) /\ x.at = p.at /\ x.new = p.new /\ x.out = {p.dnew}
  BY <1>4, <1>10 DEF SameAsk, SameChoice, Request
<1>12. q = x
  <2>1. req' = [req EXCEPT ![r] = x]
    BY <1>1, <1>9, <1>10 DEF RecBase, Known, TypeInv
  <2>2. QED
    BY <1>1, <2>1, OneChanged DEF RecBase, Known
<1>13. /\ q.pc \in {"dstNotify", "purge"} /\ q.pc \in AtWork /\ q.pc \notin SrcPcs
  BY <1>8, <1>11, <1>12 DEF AtWork, DstPcs, SrcPcs
<1>14. q.op = p.op /\ q.doc = p.doc /\ q.into = p.into /\ q.old = p.old /\ q.dst = p.dst
       /\ q.items = p.items
  BY <1>11, <1>12 DEF SameAsk, SameChoice
<1>15. file'[p.dnew] = Pdf(s) /\ \A v \in VerIds \ {p.dnew} : file'[v] = file[v]
  BY <1>4, <1>9 DEF RecBase, Known, TypeInv, StoreType
<1>16. Apart({}) /\ Apart({p.doc, p.into}) /\ live' = live
       /\ LastVersions(p.into)' = LastVersions(p.into)
  <2>1. SameNumbers /\ live' = live
    BY <1>9 DEF SameNumbers, store
  <2>2. QED
    BY <2>1, SameApart, ApartMore
<1>17. Sides(q)'
  BY <1>1, <1>3, <1>11, <1>12, <1>13, <1>16, SidesKept DEF SameAsk
<1>18. Renewed(q)'
  <2>1. PICK D : D = {} /\ Apart(D)
    BY <1>16
  <2>2. QED
    BY <1>1, <1>3, <1>11, <1>12, <2>1, RenewedKept DEF SameAsk
<1>19. Delivered(q)'
  <2>1. p.dnew \in LastVersions(p.into)
    BY <1>2, <1>4 DEF Placed, Awaits
  <2>2. p.into \in live' \ {q.doc} /\ p.dnew \in LastVersions(p.into)'
    BY <1>5, <1>14, <1>16, <2>1
  <2>3. QED
    BY <1>11, <1>12, <1>13, <2>2 DEF Delivered
<1>20. PICK g : g = Pdf(s)
  OBVIOUS
<1>20a. g.pages = s /\ g.kind = "pdf"
  BY <1>20 DEF Pdf
<1>21. OutPages(q)' = Range(s)
  BY <1>11, <1>12, <1>15, <1>20, <1>20a DEF OutPages
<1>22. file'[p.old] = file[p.old] /\ file'[p.dst] = file[p.dst]
  BY <1>4, <1>5, PagesStay
<1>23. Awaits(q)'
  <2>1. \A j \in Range(q.items) : Copied(q, j)'
    BY <1>4, <1>6, <1>14, <1>21, <1>22 DEF Copied
  <2>2. q.op = "mix" => Range(file'[q.dst].pages) \subseteq OutPages(q)'
    BY <1>6, <1>14, <1>21, <1>22
  <2>3. QED
    BY <1>13, <2>1, <2>2 DEF Awaits
<1>24. NoImages'
  BY <1>15, <1>20, <1>20a DEF NoImages, RecBase, RecInv
<1>25. Working(p) /\ Working(q)
  BY <1>2, <1>13 DEF Working, Stopped
<1>26. QED
  BY <1>1, <1>3, <1>9, <1>11, <1>12, <1>13, <1>16, <1>17, <1>18, <1>19, <1>23, <1>24, <1>25,
     RecOn DEF Placed


-----------------------------------------------------------------------------
(* PagesRecoverable: documents that are deleted *)

LEMMA PlacedApart ==
    ASSUME NEW q, q.pc \in {"delCommit", "delNotify"}
    PROVE  Placed(q)'
BY DEF Placed, Sides, Renewed, Delivered, Awaits, AtWork, SrcPcs, DstPcs, ExtPcs, Handing

LEMMA RecDelCommit ==
    ASSUME RecBase, NEW r \in Reqs, Solo(r), DelCommit(r)
    PROVE  RecInv'
<1>1. PICK p, q : p = req[r] /\ q = req'[r]
  OBVIOUS
<1>2. p.pc = "delCommit" /\ Goto(r, "delNotify") /\ DropDocument(p.doc) /\ UNCHANGED <<file, ocr>>
  BY <1>1 DEF DelCommit, At
<1>3. q.pc = "delNotify" /\ SameAsk(q, p)
  BY <1>1, <1>2, GotoFollows DEF RecBase, Known, Carries
<1>4. Apart({p.doc, p.into})
  BY ZenonT(60), <1>2, NoDocDead, DropApart, ApartMore DEF RecBase, Known
<1>5. /\ Working(p) /\ Working(q) /\ p.pc \notin AtWork /\ q.pc \notin AtWork
  BY <1>2, <1>3 DEF Working, Stopped, AtWork, SrcPcs, DstPcs, ExtPcs
<1>6. NoImages'
  BY <1>2 DEF NoImages, RecBase, RecInv
<1>7. QED
  BY <1>1, <1>2, <1>3, <1>4, <1>5, <1>6, PlacedApart, RecOn

LEMMA RecDelNotify ==
    ASSUME RecBase, NEW r \in Reqs, Solo(r), DelNotify(r)
    PROVE  RecInv'
<1>1. PICK p, q : p = req[r] /\ q = req'[r]
  OBVIOUS
<1>2. p.pc = "delNotify" /\ Goto(r, "done") /\ UNCHANGED <<store, file, ocr>>
  BY <1>1 DEF DelNotify, At
<1>3. q.pc = "done" /\ SameAsk(q, p)
  BY <1>1, <1>2, GotoFollows DEF RecBase, Known, Carries
<1>4. Apart({p.doc, p.into})
  <2>1. SameNumbers /\ live \subseteq live'
    BY <1>2 DEF SameNumbers, store
  <2>2. QED
    BY <2>1, SameApart, ApartMore
<1>5. Working(p) /\ Hand(p) = {}
  BY <1>2 DEF Working, Stopped, Hand, AtWork, SrcPcs, DstPcs, ExtPcs
<1>6. NoImages'
  BY <1>2 DEF NoImages, RecBase, RecInv
<1>7. QED
  BY <1>1, <1>2, <1>3, <1>4, <1>5, <1>6, RecEnd

-----------------------------------------------------------------------------
(* PagesRecoverable: requests that begin *)

\* As long as nobody works, every page is in a last version, or was dropped.
LEMMA AtHome ==
    ASSUME RecBase, NEW r \in Reqs, Solo(r), req[r].pc = "idle"
    PROVE  Home /\ AllWhole
<1>1. \A o \in Reqs : ~Working(req[o])
  BY DEF Solo, Working, Stopped
<1>2. QED
  BY <1>1 DEF RecBase, RecInv, Known, ViewInv

LEMMA RecStarts ==
    ASSUME RecBase, NEW r \in Reqs, Solo(r), NEW q, q = req'[r], req[r].pc = "idle", Working(q),
           UNCHANGED <<store, file, ocr>>, Remembers(q), Placed(q)',
           \A c \in Stored : InLast(c, {}) =>
               Given(c)' \/ InLast(c, {q.doc, q.into}) \/ c \in Hand(q)'
    PROVE  RecInv'
<1>1. Clean'
  BY DEF Clean, Solo, Others, RecBase, RecInv, Working, Stopped
<1>2. \A o \in Reqs : Remembers(req'[o])
  BY StillRemembered DEF Solo
<1>3. \A D : Apart(D)
  BY DEF Apart, LastVersions, Highest, VersionsOf, store
<1>4. Safe(q)'
  <2>1. PICK D : D = {q.doc, q.into}
    OBVIOUS
  <2>2. ASSUME NEW c \in Stored PROVE Given(c)' \/ InLast(c, D)' \/ c \in Hand(q)'
    <3>1. Given(c) \/ InLast(c, {})
      BY AtHome DEF Home
    <3>2. Given(c) => Given(c)'
      BY GivenKept DEF Solo
    <3>3. InLast(c, D) => InLast(c, D)'
      BY <1>3, InLastKept
    <3>4. QED
      BY <2>1, <3>1, <3>2, <3>3
  <2>3. QED
    BY <2>1, <2>2 DEF Safe
<1>5. ASSUME NEW o \in Reqs, Working(req'[o]) PROVE o = r
  BY <1>5 DEF Solo, Others
<1>6. Safe(req[r])' /\ Placed(req[r])' /\ Working(req'[r])
  BY <1>4
<1>7. \A o \in Reqs : Working(req[o])' => Safe(req[o])' /\ Placed(req[o])'
  BY <1>5, <1>6 DEF Working
<1>8. (\E o \in Reqs : Working(req[o]))'
  BY <1>6 DEF Working
<1>9. ocr' = {} /\ NoImages'
  BY DEF RecBase, RecInv, NoImages
<1>10. QED
  BY <1>1, <1>2, <1>7, <1>8, <1>9 DEF RecInv, Remembers

LEMMA RecBeginDelete ==
    ASSUME RecBase, NEW r \in Reqs, Solo(r), BeginDelete(r)
    PROVE  RecInv'
<1>1. PICK d \in live :
        req' = [req EXCEPT ![r] = [NoRequest EXCEPT
                    !.op = "delete", !.pc = "delCommit", !.doc = d,
                    !.gone = {v \in VersionsOf(d) : ver[v].pages # <<>>}]]
  BY DEF BeginDelete
<1>2. PICK gone : gone = {v \in VersionsOf(d) : ver[v].pages # <<>>}
  OBVIOUS
<1>3. PICK q : q = [NoRequest EXCEPT !.op = "delete", !.pc = "delCommit", !.doc = d, !.gone = gone]
  OBVIOUS
<1>4. q.op = "delete" /\ q.pc = "delCommit" /\ q.doc = d /\ q.gone = gone /\ q.into = NoDoc
  BY <1>3 DEF NoRequest
<1>5. req'[r] = q
  BY <1>1, <1>2, <1>3, OneChanged DEF RecBase, Known
<1>6. UNCHANGED <<store, file, ocr>> /\ req[r].pc = "idle"
  BY DEF BeginDelete, MayBegin, At
<1>7. ASSUME NEW c \in Stored, InLast(c, {})
      PROVE  Given(c)' \/ InLast(c, {q.doc, q.into})
  <2>1. PICK e \in live : \E v \in LastVersions(e) : c \in Range(file[v].pages)
    BY <1>7 DEF InLast
  <2>2. PICK v \in LastVersions(e) : c \in Range(file[v].pages)
    BY <2>1
  <2>3. v \in VersionsOf(e) /\ v \in VerIds /\ ver[v].doc = e /\ e # NoDoc
    BY NoDocDead DEF LastVersions, Highest, VersionsOf, RecBase, Known
  <2>4. CASE e = d
    <3>1. Whole(v)
      BY <1>6, <2>3, AtHome DEF AllWhole
    <3>2. ver[v].pages # <<>>
      <4>1. file[v].pages \in Seq(Content)
        BY <2>3 DEF RecBase, Known, TypeInv, StoreType, File
      <4>2. DOMAIN file[v].pages # {}
        BY <2>2 DEF Range
      <4>3. Len(file[v].pages) # 0
        BY <4>1, <4>2
      <4>4. QED
        BY <3>1, <4>3 DEF Whole
    <3>3. v \in gone
      BY <1>2, <2>3, <2>4, <3>2
    <3>4. c \in Drops(q)'
      BY <1>4, <1>6, <2>2, <3>3 DEF Drops
    <3>5. QED
      BY <1>5, <3>4, DropsNext DEF Given
  <2>5. CASE e # d
    <3>1. e \in live \ {q.doc, q.into}
      BY <1>4, <2>3, <2>5
    <3>2. QED
      BY <2>2, <3>1 DEF InLast
  <2>6. QED
    BY <2>4, <2>5
<1>8. Working(q) /\ Remembers(q)
  BY <1>4 DEF Working, Stopped, Remembers, MoveOps
<1>9. QED
  BY <1>4, <1>5, <1>6, <1>7, <1>8, PlacedApart, RecStarts


\* The pages a request begins with are of the last version of their document, as is
\* the version of the target page.
Selects(q) ==
    /\ q.pc = "srcRead" /\ q.out = {} /\ q.doc \in live /\ q.old \in LastVersions(q.doc)
    /\ IF q.op \in MoveOps
       THEN /\ q.into \in live \ {q.doc} /\ q.dst \in LastVersions(q.into)
            /\ q.at \in 1..Len(ver[q.dst].pages)
       ELSE q.into = NoDoc

LEMMA ChosenLast ==
    ASSUME ~StaleBase, TypeInv, NEW v \in Choosable
    PROVE  /\ v \in VerIds /\ ver[v].doc \in live
           /\ \A d : d = ver[v].doc => v \in LastVersions(d)
BY DEF Choosable

LEMMA SelectsLast ==
    ASSUME ~StaleBase, ~SameDocMove, RecBase, NEW r \in Reqs,
           BeginApply(r) \/ BeginExtract(r) \/ BeginMove(r)
    PROVE  Selects(req'[r])
<1>1. CASE BeginApply(r) \/ BeginExtract(r)
  <2>1. PICK op, v, items : /\ op \notin MoveOps /\ v \in Choosable
                            /\ req' = [req EXCEPT ![r] = Selected(op, v, items)]
    <3>1. CASE BeginApply(r)
      BY <3>1 DEF BeginApply, MoveOps
    <3>2. CASE BeginExtract(r)
      BY <3>2 DEF BeginExtract, MoveOps, ExtractOps
    <3>3. QED
      BY <1>1, <3>1, <3>2
  <2>2. PICK q : q = Selected(op, v, items)
    OBVIOUS
  <2>3. /\ q.pc = "srcRead" /\ q.old = v /\ q.doc = ver[v].doc /\ q.op = op /\ q.out = {}
        /\ q.into = NoDoc
    BY <2>2 DEF Selected, NoRequest
  <2>4. q.doc \in live /\ q.old \in LastVersions(q.doc)
    BY <2>1, <2>3, ChosenLast DEF RecBase, Known
  <2>5. req'[r] = q
    BY <2>1, <2>2, OneChanged DEF RecBase, Known
  <2>6. QED
    BY <2>1, <2>3, <2>4, <2>5 DEF Selects
<1>2. CASE BeginMove(r)
  <2>1. PICK op \in MoveOps :
          \E v, w \in Choosable :
          \E S \in Chosenable(v), i \in DOMAIN ver[w].pages :
          \E items \in ByNumber(ver[v].pages, S) :
              /\ SameDocMove \/ ver[v].doc # ver[w].doc
              /\ req' = [req EXCEPT ![r] = Targeted(Selected(op, v, items), w, i)]
    BY <1>2 DEF BeginMove
  <2>2. PICK v \in Choosable, w \in Choosable :
          \E S \in Chosenable(v), i \in DOMAIN ver[w].pages :
          \E items \in ByNumber(ver[v].pages, S) :
              /\ ver[v].doc # ver[w].doc
              /\ req' = [req EXCEPT ![r] = Targeted(Selected(op, v, items), w, i)]
    BY <2>1
  <2>3a. PICK i \in DOMAIN ver[w].pages : \E items :
              /\ ver[v].doc # ver[w].doc
              /\ req' = [req EXCEPT ![r] = Targeted(Selected(op, v, items), w, i)]
    BY <2>2
  <2>3. PICK items :
              /\ ver[v].doc # ver[w].doc
              /\ req' = [req EXCEPT ![r] = Targeted(Selected(op, v, items), w, i)]
    BY <2>3a
  <2>4. PICK s : s = Selected(op, v, items)
    OBVIOUS
  <2>5. PICK q : q = Targeted(s, w, i)
    OBVIOUS
  <2>6. /\ q.pc = "srcRead" /\ q.old = v /\ q.doc = ver[v].doc /\ q.op = op /\ q.out = {}
        /\ q.dst = w /\ q.into = ver[w].doc /\ q.at = ver[w].pages[i].number
    BY <2>4, <2>5 DEF Targeted, Selected, NoRequest
  <2>7. q.doc \in live /\ q.old \in LastVersions(q.doc)
    BY <2>2, <2>6, ChosenLast DEF RecBase, Known
  <2>8. w \in VerIds /\ q.into \in live /\ q.dst \in LastVersions(q.into)
    BY <2>2, <2>6, ChosenLast DEF RecBase, Known
  <2>9. q.at \in 1..Len(ver[w].pages)
    <3>1. ver[w].pages \in Seq(PageRow)
      BY <2>8 DEF RecBase, Known, TypeInv, StoreType, Version
    <3>2. i \in 1..Len(ver[w].pages)
      BY <3>1, LenProperties
    <3>3. ver[w].pages[i].number = i
      BY <2>8 DEF RecBase, Known, RowsInv, Rowed, Listed
    <3>4. QED
      BY <2>6, <3>2, <3>3
  <2>10. req'[r] = q
    BY <2>3, <2>4, <2>5, OneChanged DEF RecBase, Known
  <2>11. QED
    BY <2>3, <2>6, <2>7, <2>8, <2>9, <2>10 DEF Selects
<1>3. QED
  BY <1>1, <1>2

LEMMA RecSelects ==
    ASSUME ~StaleBase, ~SameDocMove, RecBase, NEW r \in Reqs, Solo(r),
           BeginApply(r) \/ BeginExtract(r) \/ BeginMove(r)
    PROVE  RecInv'
<1>1. PICK q : q = req'[r]
  OBVIOUS
<1>2. Selects(q)
  BY <1>1, SelectsLast
<1>3. UNCHANGED <<store, file, ocr>> /\ req[r].pc = "idle"
  BY DEF BeginApply, BeginExtract, BeginMove, MayBegin, At
<1>4. q.pc = "srcRead" /\ q.pc \in AtWork /\ q.pc \in SrcPcs /\ q.pc \notin Handing
  BY <1>2 DEF Selects, AtWork, SrcPcs, Handing, ExtPcs
<1>5. q.old \in VerIds /\ q.old \in LastVersions(q.doc) /\ q.doc \in Docs /\ q.doc # NoDoc
  BY <1>2, NoDocDead DEF Selects, LastVersions, Highest, VersionsOf, RecBase, Known
<1>6. q.op \in MoveOps => /\ q.dst \in VerIds /\ q.dst \in LastVersions(q.into)
                          /\ q.into \in Docs /\ q.into # NoDoc
  BY <1>2, NoDocDead DEF Selects, LastVersions, Highest, VersionsOf, RecBase, Known
<1>7. Remembers(q)
  BY <1>4, <1>5, <1>6 DEF Remembers
<1>8. Placed(q)'
  <2>1. Sides(q)'
    BY <1>2, <1>3 DEF Sides, Selects, store
  <2>2. Renewed(q)' /\ Awaits(q)'
    BY <1>4 DEF Renewed, Awaits
  <2>3. Delivered(q)'
    BY <1>2, <1>4 DEF Delivered, Selects
  <2>4. QED
    BY <2>1, <2>2, <2>3 DEF Placed
<1>9. ASSUME NEW c \in Stored, InLast(c, {})
      PROVE  Given(c)' \/ InLast(c, {q.doc, q.into}) \/ c \in Hand(q)'
  <2>1. PICK e \in live : \E v \in LastVersions(e) : c \in Range(file[v].pages)
    BY <1>9 DEF InLast
  <2>2. PICK v \in LastVersions(e) : c \in Range(file[v].pages)
    BY <2>1
  <2>3. CASE e = q.doc
    <3>1. v = q.old
      BY <1>5, <2>2, <2>3, OneLast
    <3>2. QED
      BY <1>3, <1>4, <2>2, <3>1 DEF Hand
  <2>4. CASE q.op \in MoveOps /\ e = q.into
    <3>1. v = q.dst
      BY <1>6, <2>2, <2>4, OneLast
    <3>2. CASE q.op = "mix"
      BY <1>3, <1>4, <2>2, <3>1, <3>2 DEF Hand
    <3>3. CASE q.op = "replace"
      <4>1. c \in Drops(q)'
        BY <1>3, <2>2, <3>1, <3>3 DEF Drops
      <4>2. QED
        BY <1>1, <4>1, DropsNext DEF Given
    <3>4. QED
      BY <2>4, <3>2, <3>3 DEF MoveOps
  <2>5. CASE e # q.doc /\ ~(q.op \in MoveOps /\ e = q.into)
    <3>1. e # NoDoc
      BY NoDocDead DEF RecBase, Known
    <3>2. e \in live \ {q.doc, q.into}
      BY <1>2, <2>5, <3>1 DEF Selects
    <3>3. QED
      BY <2>2, <3>2 DEF InLast
  <2>6. QED
    BY <2>3, <2>4, <2>5
<1>10. Working(q)
  BY <1>4 DEF Working, Stopped
<1>11. QED
  BY <1>1, <1>3, <1>7, <1>8, <1>9, <1>10, RecStarts

LEMMA RecCreate ==
    ASSUME RecBase, NEW r \in Reqs, Solo(r), Create(r)
    PROVE  RecInv'
<1>1. /\ \E d : CreateDocument(d)
      /\ req' = [req EXCEPT ![r] = [NoRequest EXCEPT !.op = "create", !.pc = "done"]]
      /\ UNCHANGED <<file, ocr>> /\ req[r].pc = "idle"
  BY DEF Create, MayBegin, At
<1>2. PICK q : q = [NoRequest EXCEPT !.op = "create", !.pc = "done"]
  OBVIOUS
<1>3. q.op = "create" /\ q.pc = "done"
  BY <1>2 DEF NoRequest
<1>4. req'[r] = q
  BY <1>1, <1>2, OneChanged DEF RecBase, Known
<1>5. PICK D : D = {} /\ Apart(D)
  BY <1>1, CreateLast
<1>6. Clean'
  BY <1>3, <1>4 DEF Clean, Solo, Others, RecBase, RecInv
<1>7. \A o \in Reqs : Remembers(req'[o])
  BY <1>3, <1>4, StillRemembered DEF Remembers, MoveOps, Solo
<1>8. Home'
  <2> SUFFICES ASSUME NEW c \in Stored PROVE Given(c)' \/ InLast(c, D)'
    BY <1>5 DEF Home
  <2>1. Given(c) \/ InLast(c, D)
    BY <1>1, <1>5, AtHome DEF Home
  <2>2. QED
    BY <1>1, <1>4, <1>5, <2>1, GivenKept, InLastKept DEF Solo
<1>9. \A o \in Reqs : ~Working(req'[o])
  BY <1>3, <1>4 DEF Solo, Others, Working, Stopped
<1>10. ocr' = {} /\ NoImages'
  BY <1>1 DEF RecBase, RecInv, NoImages
<1>11. QED
  BY <1>6, <1>7, <1>8, <1>9, <1>10 DEF RecInv, Working, Remembers


-----------------------------------------------------------------------------
(* PagesRecoverable: the theorem *)

\* A step that changes nothing but texts, and no request.
LEMMA RecSame ==
    ASSUME RecBase, OnlyPages, UNCHANGED <<live, file, ocr, req>>
    PROVE  RecInv'
<1>1. SameNumbers
  BY DEF OnlyPages, SameNumbers
<1>2. Apart({}) /\ \A d : VersionsOf(d)' = VersionsOf(d) /\ LastVersions(d)' = LastVersions(d)
  BY <1>1, SameApart
<1>3. ASSUME NEW c, Given(c) PROVE Given(c)'
  <2>1. PICK o \in Reqs : c \in Dropped(o)
    BY <1>3 DEF Given
  <2>2. PICK p : p = req[o] /\ p = req'[o]
    OBVIOUS
  <2>3. Others(o) /\ SameAsk(p, p)
    BY DEF Others, SameAsk, SameChoice
  <2>4. QED
    BY <1>3, <2>2, <2>3, GivenKept
<1>4. ASSUME NEW c, NEW D, InLast(c, D) PROVE InLast(c, D)'
  BY <1>2, <1>4, InLastKept DEF Apart
<1>5. ASSUME NEW o \in Reqs, Working(req[o]) PROVE Safe(req[o])' /\ Placed(req[o])'
  <2>1. PICK q : q = req[o] /\ q = req'[o]
    OBVIOUS
  <2>2. Safe(q) /\ Placed(q)
    BY <1>5, <2>1 DEF RecBase, RecInv
  <2>3. Hand(q)' = Hand(q)
    BY DEF Hand
  <2>4. Safe(q)'
    BY <1>3, <1>4, <2>2, <2>3 DEF Safe
  <2>5. Sides(q)'
    <3>1. CASE q.pc \in AtWork
      BY <2>1, <3>1, SidesKept DEF SameChoice
    <3>2. CASE q.pc \notin AtWork
      BY <3>2 DEF Sides, AtWork
    <3>3. QED
      BY <3>1, <3>2
  <2>6. Stays(q) <=> Stays(q)'
    BY DEF Stays
  <2>7. Renewed(q)'
    BY <1>2, <2>2, <2>6 DEF Placed, Renewed
  <2>8. Delivered(q)'
    BY <1>2, <2>2 DEF Placed, Delivered
  <2>9. Awaits(q)'
    <3>1. Unfilled(q) => Unfilled(q)'
      BY <1>2 DEF Unfilled, VersionsOf, OnlyPages
    <3>2. OutPages(q)' = OutPages(q) /\ \A j : Copied(q, j) <=> Copied(q, j)'
      BY DEF OutPages, Copied
    <3>3. QED
      BY <1>2, <2>2, <3>1, <3>2 DEF Placed, Awaits
  <2>10. QED
    BY <2>1, <2>4, <2>5, <2>7, <2>8, <2>9 DEF Placed
<1>6. (\A r \in Reqs : ~Working(req'[r])) => Home'
  <2>1. Home => Home'
    BY <1>3, <1>4 DEF Home
  <2>2. QED
    BY <2>1 DEF RecBase, RecInv
<1>7. Clean' /\ ocr' = {} /\ NoImages' /\ \A r \in Reqs : Remembers(req[r])'
  BY DEF RecBase, RecInv, Clean, NoImages, Remembers
<1>8. \A o \in Reqs : Working(req[o])' => Safe(req[o])' /\ Placed(req[o])'
  BY <1>5
<1>9. QED
  BY <1>6, <1>7, <1>8 DEF RecInv, Working

\* What may not happen for no page to get lost.
Careful ==
    /\ Sequential /\ ~Crashes /\ ~StaleBase /\ ~SameDocMove /\ ~SharedMedia /\ ~RedisPresent
    /\ UploadOps \cap Ops = {}

LEMMA RecNext ==
    ASSUME Careful, Alone, RecBase, [Next]_vars
    PROVE  RecInv'
<1> USE DEF Careful
<1>1. ASSUME NEW r \in Reqs, Begin(r) PROVE RecInv'
  <2>1. Solo(r) /\ ~BeginUpload(r)
    BY <1>1, SoloStep DEF RecBase, Known, BeginUpload, MayBegin
  <2>2. QED
    BY <1>1, <2>1, RecSelects, RecCreate, RecBeginDelete DEF Begin
<1>2. ASSUME NEW r \in Reqs, Step(r) PROVE RecInv'
  <2>1. ~(UpFile(r) \/ UpCommit(r) \/ UpNotify(r))
    BY DEF RecBase, Known, FreshInv, UpPcs, UpFile, UpCommit, UpNotify, At
  <2>2. Solo(r)
    BY <1>2, SoloStep DEF RecBase, Known
  <2>3. QED
    BY <1>2, <2>1, <2>2, RecReads, RecSrcInsert, RecSrcPdf, RecSrcText, RecSrcNotify,
       RecDstInsert, RecDstPdf, RecDstNotify, RecPurge, RecExtRead, RecExtDoc, RecExtPages,
       RecExtText, RecExtNotify, RecDelCommit, RecDelNotify DEF Step
<1>3. ASSUME NEW r \in Reqs, Crash(r) PROVE RecInv'
  BY <1>3 DEF Crash
<1>4. ASSUME NEW v \in VerIds, OcrDone(v) PROVE RecInv'
  <2>1. OnlyPages /\ UNCHANGED <<live, file, req>>
    BY <1>4, OcrOnly DEF RecBase, Known
  <2>2. UNCHANGED ocr
    BY <1>4 DEF OcrDone
  <2>3. QED
    BY <2>1, <2>2, RecSame
<1>5. CASE UNCHANGED vars
  BY <1>5, RecSame DEF vars, OnlyPages
<1>6. QED
  BY <1>1, <1>2, <1>3, <1>4, <1>5 DEF Next

LEMMA RecInit == Init => RecInv
<1> SUFFICES ASSUME Init PROVE RecInv
  OBVIOUS
<1>1. \A r \in Reqs : req[r] = NoRequest
  BY DEF Init
<1>2. \A r \in Reqs : ~Working(req[r]) /\ Remembers(req[r]) /\ req[r].pc = "idle"
  BY <1>1 DEF NoRequest, Working, Stopped, Remembers, MoveOps
<1>3. \A i \in DOMAIN Initial : i \in VerIds
  BY InitialType, BoundsAssumption DEF VerIds
<1>4. ASSUME NEW v \in VerIds
      PROVE  /\ file[v].kind # "image"
             /\ v \in DOMAIN Initial =>
                   /\ ver[v].doc = Initial[v].doc /\ ver[v].number = 1
                   /\ file[v].pages = Initial[v].pages
             /\ v \notin DOMAIN Initial => ver[v].doc = NoDoc
  BY DEF Init, NoFile, Pdf, NoVersion
<1>5. Home
  <2> SUFFICES ASSUME NEW c \in Stored PROVE InLast(c, {})
    BY DEF Home
  <2>1. PICK i \in DOMAIN Initial : c \in Range(Initial[i].pages)
    BY DEF Stored
  <2>2. PICK d : d = Initial[i].doc
    OBVIOUS
  <2>3. i \in VerIds /\ d \in live /\ d \in Docs /\ d # NoDoc
    BY <1>3, <2>2, InitialType, DocsAssumption DEF Init
  <2>4. \A v \in VersionsOf(d) : ver[v].number = 1
    BY <1>4, <2>3 DEF VersionsOf
  <2>5. i \in VersionsOf(d)
    BY <1>4, <2>2, <2>3 DEF VersionsOf
  <2>6. i \in LastVersions(d)
    BY <2>4, <2>5 DEF LastVersions, Highest
  <2>7. c \in Range(file[i].pages)
    BY <1>4, <2>1, <2>3
  <2>8. QED
    BY <2>3, <2>6, <2>7 DEF InLast
<1>6. ocr = {} /\ Clean /\ NoImages
  BY <1>2, <1>4 DEF Init, Clean, NoImages
<1>7. QED
  BY <1>2, <1>5, <1>6 DEF RecInv

\* Where a page is that a request has taken and not put anywhere yet.
LEMMA HandThere ==
    ASSUME TypeInv, HistoryInv, RowsInv, ViewInv, RecInv, NEW r \in Reqs, NEW q, q = req[r],
           Working(q), NEW c \in Hand(q)
    PROVE  \E v \in VerIds : ver[v].doc \in live /\ c \in Range(file[v].pages)
<1>1. q.pc \in AtWork
  BY DEF Hand
<1>2. Sees(q) /\ Knows(q) /\ Placed(q)
  BY DEF RecInv, ViewInv, RowsInv
<1>3. LocalsAt(q.pc, q) /\ Choice(q)
  BY <1>1, <1>2, LocalsOf DEF Knows, AtWork
<1>4. CASE c \in Range(file[q.old].pages)
  <2>1. q.old \in VerIds /\ ver[q.old].doc = q.doc /\ q.doc # NoDoc
    BY <1>1, <1>2, <1>3 DEF Sees, Sources, Choice
  <2>2. ver[q.old].doc \in live
    BY <2>1 DEF HistoryInv, Cascaded
  <2>3. QED
    BY <1>4, <2>1, <2>2
<1>5. CASE q.op = "mix" /\ c \in Range(file[q.dst].pages)
  <2>1. CASE q.pc \in SrcPcs \cup DstPcs
    <3>1. q.op \in MoveOps
      BY <1>5 DEF MoveOps
    <3>2. Destination(q)
      BY <1>2, <2>1, <3>1 DEF Knows
    <3>3. ver[q.dst].doc = q.into
      BY <1>2, <2>1, <3>1 DEF Sees, Sources
    <3>4. q.dst \in VerIds
      BY <1>3, <2>1, <3>1 DEF LocalsAt
    <3>5. ver[q.dst].doc \in live
      BY <3>2, <3>3, <3>4 DEF Destination, HistoryInv, Cascaded
    <3>6. QED
      BY <1>5, <3>4, <3>5
  <2>2. CASE q.pc \notin SrcPcs \cup DstPcs
    <3>1. q.pc = "purge"
      BY <1>1, <1>3, <1>5, <2>2 DEF LocalsAt, AtWork, ExtractOps
    <3>2. c \in OutPages(q)
      BY <1>2, <1>5, <3>1 DEF Placed, Awaits
    <3>3. PICK w \in q.out : c \in Range(file[w].pages)
      BY <3>2 DEF OutPages
    <3>4. PICK d \in live : w \in LastVersions(d)
      BY <1>2, <3>1, <3>3 DEF Placed, Delivered, Handing
    <3>5. w \in VerIds /\ ver[w].doc \in live
      BY <3>4 DEF LastVersions, Highest, VersionsOf
    <3>6. QED
      BY <3>3, <3>5
  <2>3. QED
    BY <2>1, <2>2
<1>6. QED
  BY <1>4, <1>5 DEF Hand

LEMMA RecoverNow ==
    ASSUME TypeInv, HistoryInv, RowsInv, ViewInv, RecInv
    PROVE  PagesRecoverable
<1>1. ASSUME NEW c, NEW D, InLast(c, D)
      PROVE  \E v \in VerIds : ver[v].doc \in live /\ c \in Range(file[v].pages)
  <2>1. PICK d \in live : \E v \in LastVersions(d) : c \in Range(file[v].pages)
    BY <1>1 DEF InLast
  <2>2. PICK v \in LastVersions(d) : c \in Range(file[v].pages)
    BY <2>1
  <2>3. v \in VerIds /\ ver[v].doc \in live
    BY <2>2 DEF LastVersions, Highest, VersionsOf
  <2>4. QED
    BY <2>2, <2>3
<1>2. ASSUME NEW i \in DOMAIN Initial, NEW c \in Range(Initial[i].pages)
      PROVE  \/ \E r \in Reqs : c \in Dropped(r)
             \/ \E v \in VerIds : ver[v].doc \in live /\ c \in Range(file[v].pages)
  <2>1. c \in Stored
    BY DEF Stored
  <2>2. CASE \A r \in Reqs : ~Working(req[r])
    BY <1>1, <2>1, <2>2 DEF RecInv, Home, Given
  <2>3. CASE \E r \in Reqs : Working(req[r])
    <3>0. PICK r \in Reqs : Working(req[r])
      BY <2>3
    <3>1. PICK q : q = req[r] /\ Working(q)
      BY <3>0
    <3>2. Safe(q)
      BY <3>1 DEF RecInv
    <3>3. Given(c) \/ (\E D : InLast(c, D)) \/ c \in Hand(q)
      BY <2>1, <3>2 DEF Safe
    <3>4. QED
      BY <1>1, <3>1, <3>3, HandThere DEF Given
  <2>4. QED
    BY <2>2, <2>3
<1>3. QED
  BY <1>2 DEF PagesRecoverable

\* No page gets lost, whatever is applied, moved, extracted, created and deleted and
\* whatever the text recognition does meanwhile: each page the system starts with was
\* dropped by a user, or is in the PDF of some version of a document that exists.
\* Clients wait for each answer and the server does not die, pages are chosen from the
\* last version and moved to another document, and there is neither a broker (every
\* extraction would end in an error) nor a media volume the OCR worker shares (moves and
\* extractions of pages with OCR data fail half way): without any one of these six
\* the code does lose pages.  Uploads are left out.
THEOREM NoPageLost ==
    ASSUME Sequential, ~Crashes, ~StaleBase, ~SameDocMove, ~SharedMedia, ~RedisPresent,
           UploadOps \cap Ops = {}
    PROVE  Spec => []PagesRecoverable
<1>1. Careful
  BY DEF Careful
<1>2. TypeInv /\ HistoryInv /\ RowsInv /\ ViewInv /\ RecInv => PagesRecoverable
  BY RecoverNow
<1>3. TypeInv /\ TypeInv' /\ HistoryInv /\ [Next]_vars => HistoryInv'
  BY HistoryNext
<1>4. TypeInv /\ TypeInv' /\ HistoryInv /\ FreshInv /\ [Next]_vars => FreshInv'
  BY FreshNext
<1>5. TypeInv /\ TypeInv' /\ HistoryInv /\ FreshInv /\ RowsInv /\ [Next]_vars => RowsInv'
  BY RowsNext
<1>6. TypeInv /\ HistoryInv /\ Alone /\ NumInv /\ [Next]_vars => Alone' /\ NumInv'
  BY AloneNext, NumNext DEF UploadOps
<1>7. /\ TypeInv /\ TypeInv' /\ HistoryInv /\ FreshInv /\ RowsInv /\ Alone /\ NumInv /\ ViewInv
      /\ [Next]_vars
      => ViewInv'
  BY ViewNext DEF Known
<1>8. /\ TypeInv /\ TypeInv' /\ HistoryInv /\ FreshInv /\ RowsInv /\ Alone /\ NumInv /\ ViewInv
      /\ RecInv /\ [Next]_vars
      => RecInv'
  <2> SUFFICES ASSUME TypeInv, TypeInv', HistoryInv, FreshInv, RowsInv, Alone, NumInv, ViewInv,
                      RecInv, [Next]_vars
               PROVE  RecInv'
    OBVIOUS
  <2>1. HistoryInv' /\ FreshInv' /\ RowsInv' /\ NumInv'
    BY <1>3, <1>4, <1>5, <1>6
  <2>2. Persists
    BY PersistsNext DEF RowsInv
  <2>3. QED
    BY <1>1, <2>1, <2>2, RecNext DEF RecBase, Known
<1>9. QED
  BY <1>2, <1>3, <1>4, <1>5, <1>6, <1>7, <1>8, TypeInvariant, HistoryInit, FreshInit, RowsInit,
     AloneInit, NumInit, ViewInit, RecInit, PTL DEF Spec

=============================================================================
