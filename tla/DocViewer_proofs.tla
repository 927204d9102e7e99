-------------------------- MODULE DocViewer_proofs ---------------------------
(***************************************************************************)
(* That the document viewer loses no page, shows no picture for a page it  *)
(* is not of and leaves no hole among the thumbnails, for any documents,   *)
(* any sizes of batches and any number of edits, calls and batches.        *)
(*                                                                         *)
(* The argument: only a page with a thumbnail can be pointed at, so what   *)
(* is selected, dragged or deleted has one (ShownOK), and two pages of a   *)
(* copy can be out of the order of the file only if both have (OrderOK).   *)
(* A batch of thumbnails is the next ones by number (DrawingOK), so the    *)
(* thumbnails there are of a version are of its first pages (HoleFree);    *)
(* and when a call answers, the new pages take the pictures of the pages   *)
(* whose places they have in the order that was sent (CallOK), which       *)
(* brings pictures of the right pages and again no hole.                   *)
(***************************************************************************)
EXTENDS DocViewer, FiniteSetTheorems, SequenceTheorems, TLAPS

-----------------------------------------------------------------------------
(* Sequences filtered, cut and put together *)

\* the elements of s stand in the relation R, each to all that come after it
Pairwise(s, R) == \A i, j \in DOMAIN s : i < j => <<s[i], s[j]>> \in R

LEMMA SeqFunction ==
    ASSUME NEW T, NEW n \in Nat, NEW f \in [1..n -> T]
    PROVE  f \in Seq(T) /\ Len(f) = n /\ DOMAIN f = 1..n
<1>1. f \in Seq(T)
  BY SeqDef
<1> QED BY <1>1, LenProperties

\* the places of I in 1..n in their order, as Filtered finds them by counting
LEMMA PlacesInOrder ==
    ASSUME NEW n \in Nat, NEW I \in SUBSET (1..n)
    PROVE  /\ IsFiniteSet(I) /\ Cardinality(I) \in Nat
           /\ \E at \in [1..Cardinality(I) -> I] :
                /\ \A k \in 1..Cardinality(I) : at[k] = CHOOSE i \in I : Cardinality({j \in I : j <= i}) = k
                /\ \A k, l \in 1..Cardinality(I) : k < l => at[k] < at[l]
                /\ \A i \in I : \E k \in 1..Cardinality(I) : at[k] = i
<1> DEFINE m == Cardinality(I)
           Before(i) == {j \in I : j <= i}
           count == [i \in I |-> Cardinality(Before(i))]
<1>1. IsFiniteSet(I) /\ m \in Nat
  <2>1. IsFiniteSet(1..n)
    BY FS_Interval
  <2> QED BY <2>1, FS_Subset, FS_CardinalityType
<1>2. ASSUME NEW i \in I PROVE IsFiniteSet(Before(i)) /\ Cardinality(Before(i)) \in 1..m
  <2>1. Before(i) \in SUBSET I
    OBVIOUS
  <2>2. IsFiniteSet(Before(i)) /\ Cardinality(Before(i)) <= m /\ Cardinality(Before(i)) \in Nat
    BY <1>1, <2>1, FS_Subset, FS_CardinalityType
  <2>3. i \in Before(i)
    OBVIOUS
  <2>4. Cardinality(Before(i)) # 0
    BY <2>2, <2>3, FS_EmptySet
  <2> QED BY <1>1, <2>2, <2>4
<1>3. ASSUME NEW i \in I, NEW h \in I, i < h PROVE count[i] < count[h]
  <2>1. Before(i) \in SUBSET Before(h) /\ h \in Before(h) /\ h \notin Before(i)
    <3>1. \A j \in I : j \in Int
      OBVIOUS
    <3>2. i < h /\ i <= h /\ h <= h /\ ~(h <= i)
      BY <1>3, <3>1
    <3>3. \A j \in I : j <= i => j <= h
      BY <1>3, <3>1
    <3> QED BY <3>2, <3>3
  <2>2. Cardinality(Before(i)) <= Cardinality(Before(h)) /\ Cardinality(Before(i)) # Cardinality(Before(h))
    BY <1>2, <2>1, FS_Subset
  <2> HIDE DEF Before
  <2> QED BY <1>2, <2>2
<1>4. count \in [I -> 1..m]
  BY <1>2
<1>5. count \in Injection(I, 1..m)
  <2> HIDE DEF count
  <2> QED BY <1>3, <1>4 DEF Injection, IsInjective
<1>6. IsFiniteSet(1..m) /\ Cardinality(1..m) = m
  BY <1>1, FS_Interval
<1>7. count \in Surjection(I, 1..m)
  <2> HIDE DEF count
  <2> QED BY <1>5, <1>6, FS_Injection
<1>8. ASSUME NEW k \in 1..m PROVE \E i \in I : count[i] = k
  <2> HIDE DEF count
  <2> QED BY <1>7 DEF Surjection
<1> DEFINE at == [k \in 1..m |-> CHOOSE i \in I : Cardinality(Before(i)) = k]
<1>9. ASSUME NEW k \in 1..m PROVE at[k] \in I /\ count[at[k]] = k
  <2>1. \E i \in I : Cardinality(Before(i)) = k
    BY <1>8
  <2> HIDE DEF Before
  <2> QED BY <2>1
<1>10. at \in [1..m -> I]
  BY <1>9
<1>11. ASSUME NEW k \in 1..m, NEW l \in 1..m, k < l PROVE at[k] < at[l]
  <2> HIDE DEF at, count
  <2>1. at[k] \in I /\ at[l] \in I /\ count[at[k]] = k /\ count[at[l]] = l
    BY <1>9
  <2>2. at[l] < at[k] => l < k
    BY <1>3, <2>1
  <2>3. at[k] \in Int /\ at[l] \in Int /\ at[k] # at[l]
    <3>1. \A i \in I : i \in Int
      OBVIOUS
    <3>2. k # l
      BY <1>1, <1>11
    <3> QED BY <2>1, <3>1, <3>2
  <2> QED BY <1>1, <1>11, <2>2, <2>3
<1>12. ASSUME NEW i \in I PROVE \E k \in 1..m : at[k] = i
  <2> HIDE DEF at, count
  <2>1. count[i] \in 1..m /\ at[count[i]] \in I /\ count[at[count[i]]] = count[i]
    BY <1>4, <1>9
  <2>2. at[count[i]] = i
    BY <1>5, <2>1 DEF Injection, IsInjective
  <2> QED BY <2>1, <2>2
<1> QED BY <1>1, <1>10, <1>11, <1>12

LEMMA SequenceIsFunction ==
    ASSUME NEW T, NEW s \in Seq(T)
    PROVE  s = [i \in 1..Len(s) |-> s[i]]
<1>1. s \in [1..Len(s) -> T]
  BY LenProperties
<1> QED BY <1>1

\* how many elements a filter takes
Taken(s, S) == Cardinality({i \in DOMAIN s : s[i] \in S})

LEMMA FilteredPlaces ==
    ASSUME NEW T, NEW s \in Seq(T), NEW S
    PROVE  /\ Taken(s, S) \in Nat
           /\ \E at \in [1..Taken(s, S) -> 1..Len(s)] :
                /\ Filtered(s, S) = [k \in 1..Taken(s, S) |-> s[at[k]]]
                /\ \A k \in 1..Taken(s, S) : s[at[k]] \in S
                /\ \A k, l \in 1..Taken(s, S) : k < l => at[k] < at[l]
                /\ \A i \in 1..Len(s) : s[i] \in S => \E k \in 1..Taken(s, S) : at[k] = i
<1>1. PICK n \in Nat : n = Len(s) /\ DOMAIN s = 1..n
  BY LenProperties
<1> DEFINE I == {i \in 1..n : s[i] \in S}
           m == Cardinality(I)
           At(k) == CHOOSE i \in I : Cardinality({j \in I : j <= i}) = k
<1>2. I \in SUBSET (1..n)
  OBVIOUS
<1>3. \A i \in 1..n : s[i] \in S <=> i \in I
  OBVIOUS
<1>4. m = Taken(s, S)
  BY <1>1 DEF Taken
<1>5. Filtered(s, S) = IF I = 1..n THEN s ELSE [k \in 1..m |-> s[At(k)]]
  BY <1>1 DEF Filtered
<1> HIDE DEF I
<1>6. m \in Nat
  BY <1>2, PlacesInOrder
<1>7. CASE I = 1..n
  <2> DEFINE at == [k \in 1..n |-> k]
  <2>1. m = n
    BY <1>7, FS_Interval
  <2>2. s = [k \in 1..n |-> s[k]]
    BY <1>1, SequenceIsFunction
  <2>3. at \in [1..m -> 1..n] /\ Filtered(s, S) = [k \in 1..m |-> s[at[k]]]
    BY <1>5, <1>7, <2>1, <2>2
  <2>4. \A k \in 1..m : at[k] = k /\ s[at[k]] \in S
    BY <1>3, <1>7, <2>1
  <2>5. \A k, l \in 1..m : k < l => at[k] < at[l]
    BY <2>4
  <2>6. \A i \in 1..n : s[i] \in S => \E k \in 1..m : at[k] = i
    BY <2>1, <2>4
  <2> HIDE DEF at, m
  <2> QED BY <1>1, <1>4, <1>6, <2>3, <2>4, <2>5, <2>6
<1>8. CASE I # 1..n
  <2>1. PICK at \in [1..m -> I] :
           /\ \A k \in 1..m : at[k] = At(k)
           /\ \A k, l \in 1..m : k < l => at[k] < at[l]
           /\ \A i \in I : \E k \in 1..m : at[k] = i
    BY <1>2, PlacesInOrder
  <2>2. Filtered(s, S) = [k \in 1..m |-> s[at[k]]]
    <3> HIDE DEF At
    <3> QED BY <1>5, <1>8, <2>1
  <2>3. at \in [1..m -> 1..n]
    BY <1>2, <2>1
  <2>4. \A k \in 1..m : s[at[k]] \in S
    BY <1>2, <1>3, <2>1
  <2>5. \A i \in 1..n : s[i] \in S => \E k \in 1..m : at[k] = i
    BY <1>3, <2>1
  <2> HIDE DEF m
  <2> QED BY <1>1, <1>4, <1>6, <2>1, <2>2, <2>3, <2>4, <2>5
<1> QED BY <1>7, <1>8

\* a filtered sequence has the elements that are in S
LEMMA FilteredElements ==
    ASSUME NEW T, NEW s \in Seq(T), NEW S
    PROVE  /\ Filtered(s, S) \in Seq(T) /\ Range(Filtered(s, S)) = Range(s) \cap S
           /\ Len(Filtered(s, S)) = Taken(s, S)
<1> DEFINE n == Len(s)
           m == Taken(s, S)
<1>1. n \in Nat /\ DOMAIN s = 1..n
  BY LenProperties
<1>2. m \in Nat
  BY FilteredPlaces
<1>3. PICK at \in [1..m -> 1..n] :
                    /\ Filtered(s, S) = [k \in 1..m |-> s[at[k]]]
                    /\ \A k \in 1..m : s[at[k]] \in S
                    /\ \A i \in 1..n : s[i] \in S => \E k \in 1..m : at[k] = i
  BY FilteredPlaces
<1>4. \A i \in 1..n : s[i] \in T
  BY ElementOfSeq
<1> HIDE DEF m, n
<1>5. Filtered(s, S) \in [1..m -> T]
  BY <1>3, <1>4
<1>6. Filtered(s, S) \in Seq(T) /\ Len(Filtered(s, S)) = m
  BY <1>2, <1>5, SeqFunction
<1>7. Range(Filtered(s, S)) = Range(s) \cap S
  BY <1>1, <1>3 DEF Range
<1> QED BY <1>6, <1>7 DEF m, n

LEMMA FilteredPairwise ==
    ASSUME NEW T, NEW s \in Seq(T), NEW S, NEW R, Pairwise(s, R)
    PROVE  Pairwise(Filtered(s, S), R)
<1> DEFINE n == Len(s)
           m == Taken(s, S)
<1>1. n \in Nat /\ DOMAIN s = 1..n
  BY LenProperties
<1>2. PICK at \in [1..m -> 1..n] :
                    /\ Filtered(s, S) = [k \in 1..m |-> s[at[k]]]
                    /\ \A k, l \in 1..m : k < l => at[k] < at[l]
  BY FilteredPlaces
<1> HIDE DEF m, n
<1> QED BY <1>1, <1>2 DEF Pairwise

\* a filter that takes all
LEMMA FilteredWhole ==
    ASSUME NEW T, NEW s \in Seq(T), NEW S, Range(s) \subseteq S
    PROVE  Len(Filtered(s, S)) = Len(s)
<1>1. Len(s) \in Nat /\ DOMAIN s = 1..Len(s)
  BY LenProperties
<1>2. {i \in DOMAIN s : s[i] \in S} = 1..Len(s)
  BY <1>1 DEF Range
<1>3. Cardinality(1..Len(s)) = Len(s)
  BY <1>1, FS_Interval
<1> QED BY <1>2, <1>3, FilteredElements DEF Taken

LEMMA ConcatElements ==
    ASSUME NEW T, NEW s \in Seq(T), NEW t \in Seq(T)
    PROVE  s \o t \in Seq(T) /\ Range(s \o t) = Range(s) \cup Range(t)
<1> DEFINE n == Len(s)
           m == Len(t)
           c == s \o t
<1>1. c \in Seq(T) /\ n \in Nat /\ m \in Nat /\ DOMAIN s = 1..n /\ DOMAIN t = 1..m /\ DOMAIN c = 1..(n + m)
  BY ConcatProperties, LenProperties
<1>2. \A i \in 1..(n + m) : c[i] = IF i <= n THEN s[i] ELSE t[i - n]
  BY ConcatProperties
<1>3. \A i \in 1..n : i \in 1..(n + m) /\ i <= n
  BY <1>1
<1>4. \A i \in 1..m : i + n \in 1..(n + m) /\ ~(i + n <= n) /\ (i + n) - n = i
  BY <1>1
<1>5. \A i \in 1..(n + m) : i \in 1..n \/ (~(i <= n) /\ i - n \in 1..m)
  BY <1>1
<1> HIDE DEF c, n, m
<1>6. Range(s) \subseteq Range(c)
  BY <1>1, <1>2, <1>3 DEF Range
<1>7. Range(t) \subseteq Range(c)
  <2> SUFFICES ASSUME NEW i \in 1..m PROVE t[i] \in Range(c)
    BY <1>1 DEF Range
  <2>1. c[i + n] = t[i]
    BY <1>1, <1>2, <1>4
  <2> QED BY <2>1, <1>1, <1>4 DEF Range
<1>8. Range(c) \subseteq Range(s) \cup Range(t)
  BY <1>1, <1>2, <1>5 DEF Range
<1> QED BY <1>1, <1>6, <1>7, <1>8 DEF c

LEMMA ConcatPairwise ==
    ASSUME NEW T, NEW s \in Seq(T), NEW t \in Seq(T), NEW R, Pairwise(s, R), Pairwise(t, R),
           \A x \in Range(s), y \in Range(t) : <<x, y>> \in R
    PROVE  Pairwise(s \o t, R)
<1> DEFINE n == Len(s)
           m == Len(t)
           c == s \o t
<1>1. n \in Nat /\ m \in Nat /\ DOMAIN s = 1..n /\ DOMAIN t = 1..m /\ DOMAIN c = 1..(n + m)
  BY ConcatProperties, LenProperties
<1>2. \A i \in 1..(n + m) : c[i] = IF i <= n THEN s[i] ELSE t[i - n]
  BY ConcatProperties
<1>3. \A i \in 1..n : s[i] \in Range(s)
  BY <1>1 DEF Range
<1>4. \A i \in 1..m : t[i] \in Range(t)
  BY <1>1 DEF Range
<1> HIDE DEF n, m, c
<1> SUFFICES ASSUME NEW i \in 1..(n + m), NEW j \in 1..(n + m), i < j PROVE <<c[i], c[j]>> \in R
  BY <1>1 DEF Pairwise, c
<1>5. CASE j <= n
  <2>1. i \in 1..n /\ j \in 1..n /\ c[i] = s[i] /\ c[j] = s[j]
    BY <1>1, <1>2, <1>5
  <2> QED BY <1>1, <2>1 DEF Pairwise
<1>6. CASE ~(j <= n) /\ i <= n
  <2>1. i \in 1..n /\ j - n \in 1..m /\ c[i] = s[i] /\ c[j] = t[j - n]
    BY <1>1, <1>2, <1>6
  <2> QED BY <1>3, <1>4, <2>1
<1>7. CASE ~(i <= n)
  <2>1. i - n \in 1..m /\ j - n \in 1..m /\ i - n < j - n /\ c[i] = t[i - n] /\ c[j] = t[j - n]
    <3>1. ~(j <= n)
      BY <1>1, <1>7
    <3>2. c[i] = t[i - n] /\ c[j] = t[j - n]
      BY <1>2, <1>7, <3>1
    <3> QED BY <1>1, <1>7, <3>1, <3>2
  <2> QED BY <1>1, <2>1 DEF Pairwise
<1> QED BY <1>1, <1>5, <1>6, <1>7

LEMMA SubSeqElements ==
    ASSUME NEW T, NEW s \in Seq(T), NEW a \in Nat \ {0}, NEW b \in Int, b <= Len(s)
    PROVE  /\ SubSeq(s, a, b) \in Seq(T)
           /\ Range(SubSeq(s, a, b)) = {s[i] : i \in a..b}
           /\ \A R : Pairwise(s, R) => Pairwise(SubSeq(s, a, b), R)
<1> DEFINE c == SubSeq(s, a, b)
           m == Len(c)
<1>1. Len(s) \in Nat /\ DOMAIN s = 1..Len(s)
  BY LenProperties
<1>2. \A i \in a..b : i \in 1..Len(s) /\ s[i] \in T
  BY <1>1, ElementOfSeq
<1>3. c \in Seq(T) /\ m = (IF a <= b THEN b - a + 1 ELSE 0) /\ \A i \in 1..(b - a + 1) : c[i] = s[a + i - 1]
  BY <1>2, SubSeqProperties
<1>4. DOMAIN c = 1..m
  BY <1>3, LenProperties
<1> HIDE DEF c, m
<1>5. \A i \in 1..m : c[i] = s[a + i - 1] /\ a + i - 1 \in a..b
  BY <1>3
<1>6. \A i \in a..b : i - a + 1 \in 1..m /\ a + (i - a + 1) - 1 = i
  BY <1>3
<1>7. Range(c) = {s[i] : i \in a..b}
  <2>1. Range(c) \subseteq {s[i] : i \in a..b}
    BY <1>4, <1>5 DEF Range
  <2>2. ASSUME NEW i \in a..b PROVE s[i] \in Range(c)
    <3>1. c[i - a + 1] = s[i]
      BY <1>5, <1>6
    <3> QED BY <1>4, <1>6, <3>1 DEF Range
  <2> QED BY <2>1, <2>2
<1>8. ASSUME NEW R, Pairwise(s, R) PROVE Pairwise(c, R)
  <2> SUFFICES ASSUME NEW i \in 1..m, NEW j \in 1..m, i < j PROVE <<c[i], c[j]>> \in R
    BY <1>4 DEF Pairwise
  <2>1. a + i - 1 \in a..b /\ a + j - 1 \in a..b /\ a + i - 1 < a + j - 1
    BY <1>3, <1>5
  <2>2. a + i - 1 \in DOMAIN s /\ a + j - 1 \in DOMAIN s
    BY <1>1, <1>2, <2>1
  <2>3. <<s[a + i - 1], s[a + j - 1]>> \in R
    BY <1>8, <2>1, <2>2 DEF Pairwise
  <2> QED BY <1>5, <2>3
<1> QED BY <1>3, <1>7, <1>8 DEF c

-----------------------------------------------------------------------------
(* The inductive invariant of the viewer *)

Vers == Docs \X (Nat \ {0})
Sheet == [sheet : Vers, angle : 0..3]
AnyPage == Docs \X Nat \X Nat
PageSet(v) == Range(PageIds(v))
Has(p) == HasPicture(p, "sm")
Entry(S) == [id : S, angle : Int]
ByNumber == {r \in AnyPage \X AnyPage : Number(r[1]) < Number(r[2])}

\* the versions on the server, whose files do not change, and what the panels show of them
ServerOK ==
    /\ \A v \in DOMAIN content :
          v \in Vers /\ content[v] \in Seq(Sheet) /\ content[v] # <<>> /\ (v[2] <= head[v[1]] \/ head[v[1]] = 0)
    /\ head \in [Docs -> Nat]
    /\ \A d \in Docs : head[d] # 0 => <<d, head[d]>> \in DOMAIN content
    /\ mixed \subseteq DOMAIN content
    /\ pdf = NoVersion \/ pdf \in DOMAIN content
ScreenOK ==
    /\ viewers \in [Panes -> Docs \cup {"commander", "closed"}] /\ viewers["main"] # "closed"

\* a document has versions in the client only once its last version was answered
CopiesOK ==
    /\ DOMAIN docVers \subseteq DOMAIN content /\ DOMAIN deleted = DOMAIN docVers
    /\ lastVersion \in [Docs -> Nat] /\ latest \in [Docs -> Nat]
    /\ \A d \in Docs : lastVersion[d] # 0 => <<d, lastVersion[d]>> \in DOMAIN docVers
    /\ \A d \in Docs : latest[d] # 0 => <<d, latest[d]>> \in DOMAIN docVers
    /\ \A v \in DOMAIN docVers : lastVersion[v[1]] # 0 /\ docVers[v] \in Seq(Entry(PageSet(v)))

\* each page that is selected, dragged or deleted was shown as a thumbnail
ShownOK ==
    /\ DOMAIN picked = Panes /\ \A side \in Panes : \A p \in picked[side] : Has(p)
    /\ drag \in Seq(AnyPage)
    /\ \A p \in Range(drag) : Has(p) /\ VersionOf(p) = VersionOf(Head(drag))
                              /\ VersionOf(p) \in DOMAIN docVers /\ p \in PageSet(VersionOf(p))
    /\ \A v \in DOMAIN docVers : \A p \in deleted[v] : Has(p)

PicturesOK ==
    /\ \A p \in DOMAIN pictures :
          VersionOf(p) \in DOMAIN docVers /\ p \in PageSet(VersionOf(p)) /\ DOMAIN pictures[p] = Sizes
    /\ PicturesFollow

\* a page before one of a batch of thumbnails has its picture or is of the batch
DrawingOK ==
    /\ \A k \in DOMAIN batchNo : batchNo[k] \in Nat \ {0}
    /\ \A j \in drawing :
        /\ j.ver \in DOMAIN docVers /\ j.size \in Sizes /\ j.batch \in Nat \ {0}
        /\ Range(j.pages) \subseteq PageSet(j.ver)
        /\ j.size = "sm" /\ j.ver \notin mixed =>
              \A q \in Range(j.pages) : \A p \in PageSet(j.ver) :
                 Number(p) < Number(q) => Has(p) \/ p \in Range(j.pages)

\* the pages with thumbnails are the first of the file, those deleted counted
HoleFree ==
    \A v \in DOMAIN docVers \ mixed : \A p, q \in PageSet(v) : Has(q) /\ Number(p) < Number(q) => Has(p)

\* only pages with thumbnails are ever moved among the others
Before ==
    {r \in Entry(AnyPage) \X Entry(AnyPage) :
        Number(r[1].id) < Number(r[2].id) \/ (Has(r[1].id) /\ Has(r[2].id))}
OrderOK == \A v \in DOMAIN docVers \ mixed : Pairwise(docVers[v], Before)

\* what an answer brings is not there before it, and its pictures are carried from the right pages
Carries(c) ==
    \E v \in DOMAIN docVers :
        /\ c.srcOf \in Seq(Entry(PageSet(v))) /\ Len(c.srcOf) = Len(content[c.src])
        /\ \A i \in 1..Len(c.srcOf) : content[c.src][i] = Turned(ContentOf(c.srcOf[i].id), c.srcOf[i].angle)
        /\ v \notin mixed => Pairwise(c.srcOf, Before)
CallOK(c) ==
    /\ \A v \in NewVersions(c) : v \in DOMAIN content /\ v \notin DOMAIN docVers /\ lastVersion[v[1]] # 0
    /\ c.kind = "move" => c.dst # NoVersion
    /\ c.dst # NoVersion => c.dst \in mixed /\ c.dst # c.src
    /\ c.src # NoVersion /\ c.src \notin mixed => Carries(c)
CallsOK ==
    /\ \A c \in pageCalls : CallOK(c)
    /\ \A b, c \in pageCalls : b # c => NewVersions(b) \cap NewVersions(c) = {}

ViewerInv ==
    /\ ServerOK /\ ScreenOK /\ CopiesOK /\ PagesKept /\ ShownOK /\ PicturesOK
    /\ DrawingOK /\ HoleFree /\ OrderOK /\ CallsOK

-----------------------------------------------------------------------------
(* Pages and pictures *)

LEMMA PageParts ==
    ASSUME NEW a, NEW b, NEW i
    PROVE  VersionOf(<<a, b, i>>) = <<a, b>> /\ Number(<<a, b, i>>) = i
BY DEF VersionOf, Number

LEMMA VersionParts ==
    ASSUME NEW v \in DOMAIN content, ServerOK
    PROVE  /\ v = <<v[1], v[2]>> /\ v[1] \in Docs /\ v[2] \in Nat \ {0} /\ v # NoVersion /\ v[1] # "none"
           /\ content[v] \in Seq(Sheet) /\ Len(content[v]) \in Nat \ {0} /\ DOMAIN content[v] = 1..Len(content[v])
           /\ \A i \in 1..Len(content[v]) : content[v][i] \in Sheet
<1>1. v \in Vers /\ content[v] \in Seq(Sheet) /\ content[v] # <<>>
  BY DEF ServerOK
<1>2. v = <<v[1], v[2]>> /\ v[1] \in Docs /\ v[2] \in Nat \ {0}
  BY <1>1 DEF Vers
<1>3. v[1] # "none"
  BY <1>2, DocViewerAssumption
<1>4. v # NoVersion
  BY <1>2 DEF NoVersion
<1>5. Len(content[v]) \in Nat \ {0} /\ DOMAIN content[v] = 1..Len(content[v])
  BY <1>1, EmptySeq, LenProperties
<1>6. \A i \in 1..Len(content[v]) : content[v][i] \in Sheet
  BY <1>1, ElementOfSeq
<1> QED BY <1>1, <1>2, <1>3, <1>4, <1>5, <1>6

LEMMA SheetIsPicture == ASSUME NEW x \in Sheet PROVE x # NoPicture
<1>1. x.sheet \in Docs \X (Nat \ {0})
  BY DEF Sheet, Vers
<1>2. NoPicture.sheet = <<"none", 0>>
  BY DEF NoPicture, NoVersion
<1>3. <<"none", 0>> \notin Docs \X (Nat \ {0})
  OBVIOUS
<1> QED BY <1>1, <1>2, <1>3

LEMMA PagesOfVersion ==
    ASSUME NEW v \in DOMAIN content, ServerOK
    PROVE  /\ PageIds(v) \in Seq(PageSet(v)) /\ Len(PageIds(v)) = Len(content[v]) /\ DOMAIN PageIds(v) = 1..Len(content[v])
           /\ \A i \in 1..Len(content[v]) : /\ PageIds(v)[i] = <<v[1], v[2], i>> /\ <<v[1], v[2], i>> \in PageSet(v)
                                      /\ PageIds(v)[i] \in PageSet(v) /\ Number(PageIds(v)[i]) = i
           /\ PageSet(v) \subseteq AnyPage /\ PageSet(v) # {}
           /\ \A p \in PageSet(v) : /\ VersionOf(p) = v /\ Number(p) \in 1..Len(content[v])
                                    /\ p = <<v[1], v[2], Number(p)>> /\ ContentOf(p) = content[v][Number(p)] /\ ContentOf(p) \in Sheet
<1> DEFINE n == Len(content[v])
<1>1. v = <<v[1], v[2]>> /\ v[1] \in Docs /\ v[2] \in Nat \ {0} /\ n \in Nat \ {0} /\ DOMAIN content[v] = 1..n
      /\ \A i \in 1..n : content[v][i] \in Sheet
  BY VersionParts
<1> HIDE DEF n
<1>2. PageIds(v) = [i \in 1..n |-> <<v[1], v[2], i>>]
  BY <1>1 DEF PageIds
<1>3. PageSet(v) = {<<v[1], v[2], i>> : i \in 1..n}
  BY <1>2 DEF PageSet, Range
<1>4. PageIds(v) \in [1..n -> PageSet(v)]
  BY <1>2, <1>3
<1>5. PageIds(v) \in Seq(PageSet(v)) /\ Len(PageIds(v)) = n /\ DOMAIN PageIds(v) = 1..n
  BY <1>1, <1>4, SeqFunction
<1>6. ASSUME NEW i \in 1..n
      PROVE  /\ PageIds(v)[i] = <<v[1], v[2], i>> /\ <<v[1], v[2], i>> \in PageSet(v)
             /\ PageIds(v)[i] \in PageSet(v) /\ Number(PageIds(v)[i]) = i
  <2>1. PageIds(v)[i] = <<v[1], v[2], i>> /\ <<v[1], v[2], i>> \in PageSet(v)
    BY <1>2, <1>3
  <2> QED BY <2>1, PageParts
<1>7. \A i \in 1..n : <<v[1], v[2], i>> \in AnyPage
  BY <1>1 DEF AnyPage
<1>8. ASSUME NEW p \in PageSet(v)
      PROVE  /\ VersionOf(p) = v /\ Number(p) \in 1..n /\ p = <<v[1], v[2], Number(p)>>
             /\ ContentOf(p) = content[v][Number(p)] /\ ContentOf(p) \in Sheet
  <2>1. PICK i \in 1..n : p = <<v[1], v[2], i>>
    BY <1>3
  <2>2. VersionOf(p) = v /\ Number(p) = i
    BY <1>1, <2>1, PageParts
  <2> QED BY <1>1, <2>1, <2>2 DEF ContentOf
<1>9. PageSet(v) # {}
  <2>1. 1 \in 1..n
    BY <1>1
  <2> QED BY <1>6, <2>1
<1> QED BY <1>3, <1>5, <1>6, <1>7, <1>8, <1>9 DEF n

LEMMA PagesInOrder ==
    ASSUME NEW v \in DOMAIN content, ServerOK
    PROVE  Pairwise(PageIds(v), ByNumber)
<1>1. \A i \in DOMAIN PageIds(v) : PageIds(v)[i] \in AnyPage /\ Number(PageIds(v)[i]) = i /\ i \in Nat
  <2>1. DOMAIN PageIds(v) = 1..Len(content[v]) /\ Len(content[v]) \in Nat /\ PageSet(v) \subseteq AnyPage
        /\ \A i \in 1..Len(content[v]) : PageIds(v)[i] \in PageSet(v) /\ Number(PageIds(v)[i]) = i
    BY PagesOfVersion, VersionParts
  <2> QED BY <2>1
<1> QED BY <1>1 DEF Pairwise, ByNumber

\* pages in the order of their numbers are different pages
LEMMA ByNumberInjective ==
    ASSUME NEW s, NEW n \in Nat, DOMAIN s = 1..n, Pairwise(s, ByNumber)
    PROVE  IsInjective(s)
<1> SUFFICES ASSUME NEW i \in 1..n, NEW j \in 1..n, s[i] = s[j], i < j PROVE FALSE
  BY DEF IsInjective
<1>1. <<s[i], s[j]>> \in ByNumber
  BY DEF Pairwise
<1>2. Number(s[i]) < Number(s[j]) /\ s[i] \in AnyPage
  BY <1>1 DEF ByNumber
<1>3. Number(s[i]) \in Nat
  BY <1>2 DEF AnyPage, Number
<1> QED BY <1>2, <1>3

LEMMA InjectiveLen ==
    ASSUME NEW T, NEW s \in Seq(T), IsInjective(s)
    PROVE  IsFiniteSet(Range(s)) /\ Cardinality(Range(s)) = Len(s)
<1>1. Len(s) \in Nat /\ DOMAIN s = 1..Len(s)
  BY LenProperties
<1>2. IsFiniteSet(1..Len(s)) /\ Cardinality(1..Len(s)) = Len(s)
  BY <1>1, FS_Interval
<1>3. s \in [1..Len(s) -> Range(s)]
  <2>1. s \in [1..Len(s) -> T]
    BY LenProperties
  <2> QED BY <1>1, <2>1 DEF Range
<1>4. s \in Surjection(1..Len(s), Range(s)) /\ s \in Injection(1..Len(s), Range(s))
  BY <1>1, <1>3 DEF Surjection, Injection, Range, IsInjective
<1> QED BY <1>2, <1>4, FS_Surjection

LEMMA EntryParts ==
    ASSUME NEW S, NEW s \in Seq(Entry(S))
    PROVE  /\ Len(s) \in Nat /\ DOMAIN s = 1..Len(s)
           /\ \A i \in 1..Len(s) : s[i] \in Entry(S) /\ s[i].id \in S /\ s[i].angle \in Int
           /\ \A x \in Range(s) : x \in Entry(S) /\ x.id \in S
<1>1. Len(s) \in Nat /\ DOMAIN s = 1..Len(s) /\ \A i \in 1..Len(s) : s[i] \in Entry(S)
  BY LenProperties, ElementOfSeq
<1>2. \A x \in Entry(S) : x.id \in S /\ x.angle \in Int
  BY DEF Entry
<1> QED BY <1>1, <1>2 DEF Range

LEMMA InitialCopy ==
    ASSUME NEW v \in DOMAIN content, ServerOK
    PROVE  /\ InitialPages(v) \in Seq(Entry(PageSet(v))) /\ IdsOf(InitialPages(v)) = PageIds(v)
           /\ PageIds(v) # <<>> /\ IsInjective(PageIds(v))
           /\ Pairwise(InitialPages(v), Before)
<1> DEFINE n == Len(content[v])
<1>1. n \in Nat \ {0} /\ DOMAIN content[v] = 1..n
  BY VersionParts
<1>2. PageIds(v) \in Seq(PageSet(v)) /\ Len(PageIds(v)) = n /\ DOMAIN PageIds(v) = 1..n /\ PageSet(v) \subseteq AnyPage
      /\ \A i \in 1..n : PageIds(v)[i] \in PageSet(v) /\ Number(PageIds(v)[i]) = i
  BY PagesOfVersion
<1> HIDE DEF n
<1>3. InitialPages(v) = [i \in 1..n |-> [id |-> PageIds(v)[i], angle |-> 0]]
  BY <1>1 DEF InitialPages
<1>4. InitialPages(v) \in [1..n -> Entry(PageSet(v))]
  BY <1>2, <1>3 DEF Entry
<1>5. InitialPages(v) \in Seq(Entry(PageSet(v))) /\ DOMAIN InitialPages(v) = 1..n
  BY <1>1, <1>4, SeqFunction
<1>6. IdsOf(InitialPages(v)) = [i \in 1..n |-> PageIds(v)[i]]
  BY <1>3 DEF IdsOf
<1>7. IdsOf(InitialPages(v)) = PageIds(v)
  <2>1. PageIds(v) \in [1..n -> PageSet(v)]
    BY <1>2, LenProperties
  <2> QED BY <1>6, <2>1
<1>8. PageIds(v) # <<>>
  BY <1>1, <1>2
<1>9. IsInjective(PageIds(v))
  BY <1>1, <1>2, PagesInOrder, ByNumberInjective
<1>10. Pairwise(InitialPages(v), Before)
  <2> SUFFICES ASSUME NEW i \in 1..n, NEW j \in 1..n, i < j
               PROVE  <<InitialPages(v)[i], InitialPages(v)[j]>> \in Before
    BY <1>5 DEF Pairwise
  <2>1. \A k \in 1..n : InitialPages(v)[k] \in Entry(AnyPage) /\ Number(InitialPages(v)[k].id) = k
    BY <1>2, <1>3 DEF Entry
  <2> QED BY <2>1 DEF Before
<1> QED BY <1>5, <1>7, <1>8, <1>9, <1>10

\* the pages left of a version, by number
LEMMA SortedPagesLeft ==
    ASSUME NEW v \in DOMAIN docVers, ServerOK, CopiesOK, PagesKept
    PROVE  /\ SortedPages(v) \in Seq(PageSet(v)) /\ Range(SortedPages(v)) = PageSet(v) \ deleted[v]
           /\ Pairwise(SortedPages(v), ByNumber) /\ IsInjective(SortedPages(v))
           /\ Len(SortedPages(v)) = Len(docVers[v])
           /\ IdsOf(docVers[v]) \in Seq(PageSet(v)) /\ Range(IdsOf(docVers[v])) = PageSet(v) \ deleted[v]
           /\ IsInjective(IdsOf(docVers[v])) /\ Len(IdsOf(docVers[v])) = Len(docVers[v])
<1> DEFINE ids == IdsOf(docVers[v])
           sorted == SortedPages(v)
<1>1. v \in DOMAIN content /\ docVers[v] \in Seq(Entry(PageSet(v)))
  BY DEF CopiesOK
<1>2. IsInjective(ids) /\ Range(ids) = PageSet(v) \ deleted[v]
  BY DEF PagesKept, PageSet
<1>3. ids \in Seq(PageSet(v)) /\ Len(ids) = Len(docVers[v])
  <2>1. Len(docVers[v]) \in Nat /\ DOMAIN docVers[v] = 1..Len(docVers[v]) /\ \A i \in 1..Len(docVers[v]) : docVers[v][i].id \in PageSet(v)
    BY <1>1, EntryParts
  <2>2. ids \in [1..Len(docVers[v]) -> PageSet(v)]
    BY <2>1 DEF IdsOf
  <2> QED BY <2>1, <2>2, SeqFunction
<1>4. PageIds(v) \in Seq(PageSet(v)) /\ Pairwise(PageIds(v), ByNumber) /\ Range(PageIds(v)) = PageSet(v)
  BY <1>1, PagesOfVersion, PagesInOrder DEF PageSet
<1>5. sorted \in Seq(PageSet(v)) /\ Range(sorted) = PageSet(v) \cap Range(ids) /\ Pairwise(sorted, ByNumber)
  BY <1>4, FilteredElements, FilteredPairwise DEF SortedPages
<1>6. IsInjective(sorted)
  BY <1>5, LenProperties, ByNumberInjective
<1>7. Range(sorted) = Range(ids)
  BY <1>2, <1>5
<1>8. Len(sorted) = Len(ids)
  BY <1>3, <1>2, <1>5, <1>6, <1>7, InjectiveLen
<1> QED BY <1>2, <1>3, <1>5, <1>6, <1>7, <1>8

LEMMA CurrentVersion ==
    ASSUME NEW side \in Panes, Known(side), ServerOK, CopiesOK, ScreenOK
    PROVE  /\ CurrentDocVer(side) \in DOMAIN docVers /\ CurrentDocVer(side) \in DOMAIN content
           /\ viewers[side] \in Docs /\ viewers[side] = CurrentDocVer(side)[1]
           /\ CurrentDocVer(side)[2] = latest[viewers[side]] /\ latest[viewers[side]] # 0
<1>1. viewers[side] \in Docs /\ latest[viewers[side]] # 0 /\ CurrentDocVer(side) = <<viewers[side], latest[viewers[side]]>>
  BY DEF Known, CurrentDocVer
<1> QED BY <1>1 DEF CopiesOK

\* a page the user can point at
LEMMA ThumbnailShown ==
    ASSUME NEW side \in Panes, NEW p \in Range(Thumbnails(side)), ServerOK, CopiesOK, ScreenOK, PagesKept
    PROVE  /\ ViewerDisplayed(side) /\ Known(side) /\ Has(p)
           /\ p \in Range(IdsOf(docVers[CurrentDocVer(side)])) /\ p \in PageSet(CurrentDocVer(side))
<1> DEFINE v == CurrentDocVer(side)
<1>1. ViewerDisplayed(side)
  <2>1. Range(<<>>) = {}
    BY DEF Range
  <2> QED BY <2>1 DEF Thumbnails
<1>2. Known(side)
  BY <1>1 DEF ViewerDisplayed
<1>3. v \in DOMAIN docVers
  BY <1>2, CurrentVersion
<1>4. p \in Range(ListedPages(v, "sm"))
  BY <1>1 DEF Thumbnails
<1>5. IdsOf(docVers[v]) \in Seq(PageSet(v)) /\ Range(IdsOf(docVers[v])) \subseteq PageSet(v)
  BY <1>3, SortedPagesLeft
<1>6. Range(ListedPages(v, "sm")) = Range(IdsOf(docVers[v])) \cap {q \in DOMAIN pictures : HasPicture(q, "sm")}
  BY <1>5, FilteredElements DEF ListedPages
<1> QED BY <1>1, <1>2, <1>4, <1>5, <1>6 DEF Has

LEMMA SelectedShown ==
    ASSUME NEW side \in Panes, Known(side), ServerOK, CopiesOK, ScreenOK, PagesKept, ShownOK
    PROVE  LET v == CurrentDocVer(side)
           IN  /\ SelectedPages(side) \in Seq(Entry(PageSet(v)))
               /\ Range(SelectedPages(side)) = {p \in Range(docVers[v]) : p.id \in picked[side]}
               /\ \A p \in Range(SelectedPages(side)) : Has(p.id) /\ p.id \in PageSet(v)
<1> DEFINE v == CurrentDocVer(side)
           S == {p \in Range(docVers[v]) : p.id \in picked[side]}
<1>1. v \in DOMAIN docVers /\ docVers[v] \in Seq(Entry(PageSet(v)))
  BY CurrentVersion DEF CopiesOK
<1>2. SelectedPages(side) = Filtered(docVers[v], S)
  BY DEF SelectedPages
<1>3. SelectedPages(side) \in Seq(Entry(PageSet(v))) /\ Range(SelectedPages(side)) = Range(docVers[v]) \cap S
  BY <1>1, <1>2, FilteredElements
<1>4. \A p \in Range(docVers[v]) : p.id \in PageSet(v)
  BY <1>1, EntryParts
<1> QED BY <1>3, <1>4 DEF ShownOK

-----------------------------------------------------------------------------
(* What a step of the server leaves as it is *)

Extends == \A v \in DOMAIN content : v \in DOMAIN content' /\ content'[v] = content[v]

ServerStep ==
    /\ Extends
    /\ \A v \in DOMAIN content' \ DOMAIN content : \E d \in Docs :
          /\ head[d] # 0 /\ v = NewVersion(d) /\ head'[d] = head[d] + 1
          /\ content'[v] \in Seq(Sheet) /\ content'[v] # <<>>
    /\ head' \in [Docs -> Nat]
    /\ \A d \in Docs : \/ head'[d] \in {head[d], 0}
                       \/ head[d] # 0 /\ head'[d] = head[d] + 1 /\ NewVersion(d) \in DOMAIN content'
    /\ mixed \subseteq mixed' /\ mixed' \subseteq DOMAIN content'
    /\ pdf' = pdf

LEMMA PagesStay ==
    ASSUME ServerOK, Extends, NEW v \in DOMAIN content
    PROVE  /\ PageIds(v)' = PageIds(v) /\ PageSet(v)' = PageSet(v) /\ InitialPages(v)' = InitialPages(v)
           /\ \A p \in PageSet(v) : ContentOf(p)' = ContentOf(p)
<1>1. content'[v] = content[v]
  BY DEF Extends
<1>2. PageIds(v)' = PageIds(v)
  BY <1>1 DEF PageIds
<1>3. InitialPages(v)' = InitialPages(v)
  BY <1>1, <1>2 DEF InitialPages
<1>4. \A p \in PageSet(v) : VersionOf(p) = v
  BY PagesOfVersion
<1>5. \A p \in PageSet(v) : ContentOf(p)' = ContentOf(p)
  BY <1>1, <1>4 DEF ContentOf
<1> QED BY <1>2, <1>3, <1>5 DEF PageSet

LEMMA NewVersionIsNew ==
    ASSUME ServerOK, NEW d \in Docs, head[d] # 0
    PROVE  /\ NewVersion(d) \notin DOMAIN content /\ NewVersion(d) \in Vers /\ NewVersion(d) # NoVersion
           /\ NewVersion(d)[1] = d /\ NewVersion(d)[2] = head[d] + 1
<1>1. head[d] \in Nat
  BY DEF ServerOK
<1>2. NewVersion(d)[1] = d /\ NewVersion(d)[2] = head[d] + 1
  BY DEF NewVersion
<1>3. NewVersion(d) \in Vers
  BY <1>1 DEF NewVersion, Vers
<1>4. NewVersion(d) \notin DOMAIN content
  BY <1>1, <1>2 DEF ServerOK
<1>5. NewVersion(d) # NoVersion
  BY <1>1, <1>2 DEF NoVersion
<1> QED BY <1>2, <1>3, <1>4, <1>5

LEMMA ServerStepOK ==
    ASSUME ServerOK, ServerStep
    PROVE  ServerOK'
<1>1. ASSUME NEW v \in DOMAIN content'
      PROVE  v \in Vers /\ content'[v] \in Seq(Sheet) /\ content'[v] # <<>> /\ (v[2] <= head'[v[1]] \/ head'[v[1]] = 0)
  <2>1. CASE v \in DOMAIN content
    <3>1. v \in Vers /\ content'[v] \in Seq(Sheet) /\ content'[v] # <<>> /\ (v[2] <= head[v[1]] \/ head[v[1]] = 0)
      BY <2>1 DEF ServerStep, Extends, ServerOK
    <3>2. v[1] \in Docs /\ v[2] \in Nat /\ head[v[1]] \in Nat /\ head'[v[1]] \in Nat
      BY <3>1 DEF Vers, ServerOK, ServerStep
    <3>3. head'[v[1]] \in {head[v[1]], 0} \/ (head[v[1]] # 0 /\ head'[v[1]] = head[v[1]] + 1)
      BY <3>2 DEF ServerStep
    <3> QED BY <3>1, <3>2, <3>3
  <2>2. CASE v \notin DOMAIN content
    <3>1. PICK d \in Docs : /\ head[d] # 0 /\ v = NewVersion(d) /\ head'[d] = head[d] + 1
                            /\ content'[v] \in Seq(Sheet) /\ content'[v] # <<>>
      BY <2>2 DEF ServerStep
    <3>2. head[d] \in Nat
      BY DEF ServerOK
    <3> QED BY <3>1, <3>2, NewVersionIsNew
  <2> QED BY <2>1, <2>2
<1>2. ASSUME NEW d \in Docs, head'[d] # 0 PROVE <<d, head'[d]>> \in DOMAIN content'
  <2>1. CASE head'[d] = head[d]
    BY <1>2, <2>1 DEF ServerOK, ServerStep, Extends
  <2>2. CASE head'[d] = head[d] + 1 /\ NewVersion(d) \in DOMAIN content'
    BY <2>2 DEF NewVersion
  <2> QED BY <1>2, <2>1, <2>2 DEF ServerStep
<1>3. head' \in [Docs -> Nat] /\ mixed' \subseteq DOMAIN content'
  BY DEF ServerStep
<1>4. pdf' = NoVersion \/ pdf' \in DOMAIN content'
  BY DEF ServerStep, Extends, ServerOK
<1> QED BY <1>1, <1>2, <1>3, <1>4 DEF ServerOK

\* the client is as it was
LEMMA ClientStays ==
    ASSUME ViewerInv, ServerStep,
           UNCHANGED <<lastVersion, docVers, deleted, latest, picked, drag, pictures, drawing, batchNo>>
    PROVE  /\ CopiesOK' /\ PagesKept' /\ ShownOK' /\ PicturesOK' /\ DrawingOK' /\ HoleFree' /\ OrderOK'
           /\ \A c \in pageCalls : CallOK(c)'
<1> USE DEF ViewerInv
<1>1. Extends /\ ServerOK /\ mixed \subseteq mixed'
  BY DEF ServerStep
<1>2. ASSUME NEW v \in DOMAIN docVers
      PROVE  /\ v \in DOMAIN content /\ v \in DOMAIN content' /\ PageIds(v)' = PageIds(v) /\ PageSet(v)' = PageSet(v)
             /\ \A p \in PageSet(v) : ContentOf(p)' = ContentOf(p)
  BY <1>1, PagesStay DEF CopiesOK, Extends
<1>3. \A p : Has(p)' <=> Has(p)
  BY DEF Has, HasPicture
<1>4. Before' = Before
  BY DEF Has, HasPicture, Before
<1>5. CopiesOK'
  BY <1>2 DEF CopiesOK
<1>6. PagesKept'
  BY <1>2 DEF PagesKept
<1>7. ShownOK'
  BY <1>2, <1>3 DEF ShownOK
<1>8. PicturesOK'
  <2>1. PicturesFollow'
    BY <1>1, <1>2 DEF PicturesOK, PicturesFollow
  <2> QED BY <1>2, <2>1 DEF PicturesOK
<1>9. DrawingOK'
  BY <1>1, <1>2, <1>3 DEF DrawingOK
<1>10. HoleFree'
  BY <1>1, <1>2, <1>3 DEF HoleFree
<1>11. OrderOK'
  BY <1>1, <1>4 DEF OrderOK
<1>12. ASSUME NEW c \in pageCalls PROVE CallOK(c)'
  <2>1. CallOK(c)
    BY DEF CallsOK
  <2>2. \A v \in NewVersions(c) : v \in DOMAIN content'
    BY <1>1, <2>1 DEF CallOK, Extends
  <2>3. ASSUME c.src # NoVersion, c.src \notin mixed' PROVE Carries(c)'
    <3>1. c.src \in DOMAIN content /\ Carries(c)
      BY <1>1, <2>1, <2>3 DEF CallOK, NewVersions
    <3>2. PICK v \in DOMAIN docVers :
            /\ c.srcOf \in Seq(Entry(PageSet(v))) /\ Len(c.srcOf) = Len(content[c.src])
            /\ \A i \in 1..Len(c.srcOf) : content[c.src][i] = Turned(ContentOf(c.srcOf[i].id), c.srcOf[i].angle)
            /\ v \notin mixed => Pairwise(c.srcOf, Before)
      BY <3>1 DEF Carries
    <3>3. content'[c.src] = content[c.src]
      BY <1>1, <3>1 DEF Extends
    <3>4. \A i \in 1..Len(c.srcOf) : ContentOf(c.srcOf[i].id)' = ContentOf(c.srcOf[i].id)
      BY <1>2, <3>2, EntryParts
    <3>5. \A i \in 1..Len(c.srcOf) : content'[c.src][i] = Turned(ContentOf(c.srcOf[i].id), c.srcOf[i].angle)'
      BY <3>2, <3>3, <3>4 DEF Turned
    <3> QED BY <1>1, <1>2, <1>4, <3>2, <3>3, <3>5 DEF Carries
  <2> QED BY <1>1, <2>1, <2>2, <2>3 DEF CallOK, NewVersions
<1> QED BY <1>5, <1>6, <1>7, <1>8, <1>9, <1>10, <1>11, <1>12

LEMMA CallSent ==
    ASSUME ViewerInv, NEW c, pageCalls' = pageCalls \cup {c}, \A b \in pageCalls : CallOK(b)', CallOK(c)',
           NewVersions(c) \cap DOMAIN content = {}
    PROVE  CallsOK'
<1>1. \A b \in pageCalls : NewVersions(b) \subseteq DOMAIN content
  BY DEF ViewerInv, CallsOK, CallOK
<1>2. \A b, d \in pageCalls : b # d => NewVersions(b) \cap NewVersions(d) = {}
  BY DEF ViewerInv, CallsOK
<1>3. \A b, d \in pageCalls \cup {c} : b # d => NewVersions(b) \cap NewVersions(d) = {}
  BY <1>1, <1>2
<1> QED BY <1>3 DEF CallsOK, NewVersions

-----------------------------------------------------------------------------
(* Calls to the server *)

StoredPages == UNION {PageSet(v) : v \in DOMAIN content}

LEMMA TurnedSheet ==
    ASSUME NEW x \in Sheet, NEW a \in Int
    PROVE  Turned(x, a) \in Sheet /\ Turned(x, 0) = x
BY DEF Turned, Sheet

LEMMA NotEmpty == ASSUME NEW s, Range(s) # {} PROVE s # <<>>
BY DEF Range

LEMMA ContentsOfPages ==
    ASSUME ServerOK, NEW ids \in Seq(StoredPages)
    PROVE  /\ Contents(ids) \in Seq(Sheet) /\ Len(Contents(ids)) = Len(ids)
           /\ \A i \in 1..Len(ids) : Contents(ids)[i] = ContentOf(ids[i])
           /\ ids # <<>> => Contents(ids) # <<>>
<1>1. \A p \in StoredPages : ContentOf(p) \in Sheet
  BY PagesOfVersion DEF StoredPages
<1>2. Len(ids) \in Nat /\ DOMAIN ids = 1..Len(ids) /\ \A i \in 1..Len(ids) : ids[i] \in StoredPages
  BY LenProperties, ElementOfSeq
<1>3. Contents(ids) = [i \in 1..Len(ids) |-> ContentOf(ids[i])]
  BY <1>2 DEF Contents
<1>4. Contents(ids) \in [1..Len(ids) -> Sheet]
  BY <1>1, <1>2, <1>3
<1>5. Contents(ids) \in Seq(Sheet) /\ Len(Contents(ids)) = Len(ids)
  BY <1>2, <1>4, SeqFunction
<1>6. ids # <<>> => Contents(ids) # <<>>
  BY <1>5, EmptySeq
<1> QED BY <1>3, <1>5, <1>6

LEMMA OneNewVersion ==
    ASSUME ServerOK, NEW d \in Docs, head[d] # 0, NEW file \in Seq(Sheet), file # <<>>,
           content' = Put(content, NewVersion(d), file), head' = [head EXCEPT ![d] = @ + 1],
           mixed \subseteq mixed', mixed' \subseteq DOMAIN content \cup {NewVersion(d)}, pdf' = pdf
    PROVE  /\ ServerStep /\ NewVersion(d) \in DOMAIN content' /\ content'[NewVersion(d)] = file
<1>1. NewVersion(d) \notin DOMAIN content
  BY NewVersionIsNew
<1>2. DOMAIN content' = DOMAIN content \cup {NewVersion(d)} /\ content'[NewVersion(d)] = file
      /\ \A v \in DOMAIN content : content'[v] = content[v]
  BY <1>1 DEF Put
<1>3. Extends
  BY <1>2 DEF Extends
<1>4. head \in [Docs -> Nat]
  BY DEF ServerOK
<1>5. head' \in [Docs -> Nat] /\ head'[d] = head[d] + 1 /\ \A e \in Docs : e # d => head'[e] = head[e]
  BY <1>4
<1> QED BY <1>2, <1>3, <1>5 DEF ServerStep

LEMMA SomeoneSavesInv ==
    ASSUME ViewerInv, NEW d \in Docs, SomeoneSaves(d)
    PROVE  ViewerInv'
<1> USE DEF ViewerInv
<1> DEFINE old == content[<<d, head[d]>>]
           file == Append(Tail(old), Head(old))
<1>1. head[d] # 0 /\ content' = Put(content, NewVersion(d), file) /\ head' = [head EXCEPT ![d] = @ + 1]
      /\ UNCHANGED <<screen, copies, latest, pageCalls, images, mixed>>
  BY DEF SomeoneSaves
<1>2. <<d, head[d]>> \in DOMAIN content
  BY <1>1 DEF ServerOK
<1>3. old \in Seq(Sheet) /\ old # <<>>
  BY <1>2 DEF ServerOK
<1> HIDE DEF old
<1>4. file \in Seq(Sheet) /\ file # <<>>
  <2>1. Head(old) \in Sheet /\ Tail(old) \in Seq(Sheet)
    BY <1>3, HeadTailProperties
  <2> QED BY <2>1, AppendProperties
<1> HIDE DEF file
<1>5. mixed' = mixed /\ mixed \subseteq DOMAIN content /\ pdf' = pdf
  BY <1>1 DEF images, ServerOK
<1>6. ServerStep
  BY <1>1, <1>4, <1>5, OneNewVersion
<1>7. ServerOK'
  BY <1>6, ServerStepOK
<1>8. /\ CopiesOK' /\ PagesKept' /\ ShownOK' /\ PicturesOK' /\ DrawingOK' /\ HoleFree' /\ OrderOK'
      /\ \A c \in pageCalls : CallOK(c)'
  BY <1>1, <1>6, ClientStays DEF screen, copies, images
<1>9. CallsOK'
  BY <1>1, <1>8 DEF CallsOK, NewVersions
<1>10. ScreenOK'
  BY <1>1 DEF ScreenOK, screen
<1> QED BY <1>7, <1>8, <1>9, <1>10

LEMMA DeleteEntireDocumentInv ==
    ASSUME ViewerInv, NEW side \in Panes, DeleteEntireDocument(side)
    PROVE  ViewerInv'
<1> USE DEF ViewerInv
<1>1. /\ viewers' = [viewers EXCEPT !["main"] = "commander"] /\ ViewerDisplayed(side)
      /\ UNCHANGED <<content, lastVersion, picked, drag, copies, latest, pageCalls, images, mixed>>
  BY DEF DeleteEntireDocument
<1>2. viewers[side] \in Docs
  BY <1>1, CurrentVersion DEF ViewerDisplayed
<1>3. head' = head \/ head' = [head EXCEPT ![viewers[side]] = 0]
  BY DEF DeleteEntireDocument
<1>4. ServerStep
  <2>1. head \in [Docs -> Nat] /\ mixed \subseteq DOMAIN content
    BY DEF ServerOK
  <2>2. head' \in [Docs -> Nat] /\ \A d \in Docs : head'[d] \in {head[d], 0}
    BY <1>2, <1>3, <2>1
  <2> QED BY <1>1, <2>1, <2>2 DEF ServerStep, Extends, images
<1>5. ServerOK'
  BY <1>4, ServerStepOK
<1>6. /\ CopiesOK' /\ PagesKept' /\ ShownOK' /\ PicturesOK' /\ DrawingOK' /\ HoleFree' /\ OrderOK'
      /\ \A c \in pageCalls : CallOK(c)'
  BY <1>1, <1>4, ClientStays DEF copies, images
<1>7. CallsOK'
  BY <1>1, <1>6 DEF CallsOK, NewVersions
<1>8. ScreenOK'
  BY <1>1 DEF ScreenOK, Panes
<1> QED BY <1>5, <1>6, <1>7, <1>8

\* the save of a copy carries each picture from the page it was made of
LEMMA ApplyPageChangesInv ==
    ASSUME ViewerInv, NEW side \in Panes, ApplyPageChanges(side)
    PROVE  ViewerInv'
<1> USE DEF ViewerInv
<1>v. PICK v : v = CurrentDocVer(side)
  OBVIOUS
<1>p. PICK pageData : pageData = docVers[v]
  OBVIOUS
<1>n. PICK new : new = NewVersion(v[1])
  OBVIOUS
<1>c. PICK c : c = PageCall("save", side, new, pageData, NoVersion, <<>>)
  OBVIOUS
<1> DEFINE d == v[1]
           file == [i \in DOMAIN pageData |-> Turned(ContentOf(pageData[i].id), pageData[i].angle)]
<1>1. /\ ViewerDisplayed(side) /\ head[d] # 0
      /\ content' = Put(content, new, file) /\ head' = [head EXCEPT ![d] = @ + 1] /\ mixed' = mixed
      /\ pageCalls' = pageCalls \cup {c} /\ UNCHANGED <<screen, copies, latest, images>>
  BY <1>v, <1>p, <1>n, <1>c DEF ApplyPageChanges, Send
<1>2. v \in DOMAIN docVers /\ v \in DOMAIN content
  BY <1>1, <1>v, CurrentVersion DEF ViewerDisplayed
<1>3. d \in Docs /\ pageData \in Seq(Entry(PageSet(v))) /\ lastVersion[d] # 0
  BY <1>2, <1>p, VersionParts DEF CopiesOK
<1>4. c.kind = "save" /\ c.src = new /\ c.srcOf = pageData /\ c.dst = NoVersion
  BY <1>c DEF PageCall
<1>5. pageData # <<>>
  <2>1. IdsOf(docVers[v]) # <<>>
    BY <1>2 DEF PagesKept
  <2>2. Len(IdsOf(docVers[v])) = Len(docVers[v]) /\ IdsOf(docVers[v]) \in Seq(PageSet(v))
    BY <1>2, SortedPagesLeft
  <2> QED BY <1>3, <1>p, <2>1, <2>2, EmptySeq
<1>6. ASSUME NEW x \in Entry(PageSet(v)) PROVE Turned(ContentOf(x.id), x.angle) \in Sheet
  <2>1. x.id \in PageSet(v) /\ x.angle \in Int
    BY DEF Entry
  <2> QED BY <1>2, <2>1, PagesOfVersion, TurnedSheet
<1>7. file \in Seq(Sheet) /\ Len(file) = Len(pageData) /\ file # <<>>
  <2>1. Len(pageData) \in Nat /\ DOMAIN pageData = 1..Len(pageData) /\ \A i \in 1..Len(pageData) : pageData[i] \in Entry(PageSet(v))
    BY <1>3, EntryParts
  <2>2. file \in [1..Len(pageData) -> Sheet]
    BY <1>6, <2>1
  <2>3. file \in Seq(Sheet) /\ Len(file) = Len(pageData)
    BY <2>1, <2>2, SeqFunction
  <2> QED BY <1>3, <1>5, <2>3, EmptySeq
<1>8. mixed \subseteq DOMAIN content /\ pdf' = pdf
  BY <1>1 DEF images, ServerOK
<1>9. ServerStep /\ new \in DOMAIN content' /\ content'[new] = file
  <2> HIDE DEF file
  <2> QED BY <1>1, <1>3, <1>7, <1>8, <1>n, OneNewVersion
<1>10. new \notin DOMAIN content /\ new[1] = d /\ new # NoVersion
  BY <1>1, <1>3, <1>n, NewVersionIsNew
<1>11. ServerOK'
  BY <1>9, ServerStepOK
<1>12. /\ CopiesOK' /\ PagesKept' /\ ShownOK' /\ PicturesOK' /\ DrawingOK' /\ HoleFree' /\ OrderOK'
       /\ \A b \in pageCalls : CallOK(b)'
  BY <1>1, <1>9, ClientStays DEF screen, copies, images
<1>13. docVers' = docVers /\ lastVersion' = lastVersion
  BY <1>1 DEF copies, screen
<1>14. Carries(c)'
  <2>1. PageSet(v)' = PageSet(v) /\ \A p \in PageSet(v) : ContentOf(p)' = ContentOf(p)
    BY <1>2, <1>9, PagesStay DEF ServerStep
  <2>2. ASSUME NEW i \in 1..Len(pageData)
        PROVE  content'[new][i] = Turned(ContentOf(pageData[i].id)', pageData[i].angle)
    <3>1. pageData[i].id \in PageSet(v) /\ i \in DOMAIN pageData
      BY <1>3, EntryParts
    <3> QED BY <1>9, <2>1, <3>1
  <2>3. v \notin mixed => Pairwise(pageData, Before)
    BY <1>2, <1>p DEF OrderOK
  <2>4. Before' = Before
    BY <1>1 DEF Has, HasPicture, Before, images
  <2> SUFFICES /\ v \in DOMAIN docVers' /\ c.srcOf \in Seq(Entry(PageSet(v)')) /\ Len(c.srcOf) = Len(content'[c.src])
               /\ \A i \in 1..Len(c.srcOf) : content'[c.src][i] = Turned(ContentOf(c.srcOf[i].id)', c.srcOf[i].angle)
               /\ v \notin mixed' => Pairwise(c.srcOf, Before')
    BY DEF Carries
  <2> QED BY <1>1, <1>2, <1>3, <1>4, <1>7, <1>9, <1>13, <2>1, <2>2, <2>3, <2>4
<1>15. CallOK(c)'
  BY <1>2, <1>3, <1>4, <1>9, <1>10, <1>13, <1>14 DEF CallOK, NewVersions, CopiesOK
<1>16. NewVersions(c) \cap DOMAIN content = {}
  BY <1>4, <1>10 DEF NewVersions
<1>17. CallsOK'
  BY <1>1, <1>12, <1>15, <1>16, CallSent
<1>18. ScreenOK'
  BY <1>1 DEF ScreenOK, screen
<1> QED BY <1>11, <1>12, <1>17, <1>18

LEMMA DraggedPages ==
    ASSUME ViewerInv, drag # <<>>, NEW w, w = VersionOf(Head(drag)), NEW d, d = Head(drag)[1]
    PROVE  /\ w \in DOMAIN docVers /\ w \in DOMAIN content /\ d \in Docs /\ d = w[1] /\ lastVersion[d] # 0
           /\ KeptPages(drag) \in Seq(PageSet(w)) /\ Pairwise(KeptPages(drag), ByNumber)
           /\ Moved(drag) \in Seq(PageSet(w)) /\ Range(Moved(drag)) # {}
<1> USE DEF ViewerInv
<1>1. drag \in Seq(AnyPage) /\ Head(drag) \in Range(drag)
  <2>1. drag \in Seq(AnyPage)
    BY DEF ShownOK
  <2>2. 1 \in DOMAIN drag /\ Head(drag) = drag[1]
    BY <2>1, LenProperties, EmptySeq
  <2> QED BY <2>1, <2>2 DEF Range
<1>2. w \in DOMAIN docVers /\ Head(drag) \in PageSet(w)
  BY <1>1 DEF ShownOK
<1>3. w \in DOMAIN content /\ lastVersion[w[1]] # 0
  BY <1>2 DEF CopiesOK
<1>4. d = w[1]
  BY DEF VersionOf
<1>5. d \in Docs
  BY <1>3, <1>4, VersionParts
<1>6. PageIds(w) \in Seq(PageSet(w)) /\ Pairwise(PageIds(w), ByNumber) /\ Range(PageIds(w)) = PageSet(w)
  BY <1>3, PagesOfVersion, PagesInOrder DEF PageSet
<1>7. KeptPages(drag) \in Seq(PageSet(w)) /\ Pairwise(KeptPages(drag), ByNumber)
  BY <1>6, FilteredElements, FilteredPairwise DEF KeptPages, WithoutPages
<1>8. Moved(drag) \in Seq(PageSet(w)) /\ Range(Moved(drag)) = PageSet(w) \cap Range(drag)
  BY <1>6, FilteredElements DEF Moved
<1> QED BY <1>1, <1>2, <1>3, <1>4, <1>5, <1>7, <1>8

\* pages put in front of one another by number, with no turn yet
LEMMA UnturnedOrder ==
    ASSUME NEW S, S \subseteq AnyPage, NEW ids \in Seq(S), Pairwise(ids, ByNumber)
    PROVE  /\ Unturned(ids) \in Seq(Entry(S)) /\ Len(Unturned(ids)) = Len(ids)
           /\ \A i \in 1..Len(ids) : Unturned(ids)[i].id = ids[i] /\ Unturned(ids)[i].angle = 0 /\ ids[i] \in S
           /\ Pairwise(Unturned(ids), Before)
<1>1. Len(ids) \in Nat /\ DOMAIN ids = 1..Len(ids) /\ \A i \in 1..Len(ids) : ids[i] \in S
  BY LenProperties, ElementOfSeq
<1>2. Unturned(ids) = [i \in 1..Len(ids) |-> [id |-> ids[i], angle |-> 0]]
  BY <1>1 DEF Unturned
<1>3. Unturned(ids) \in [1..Len(ids) -> Entry(S)]
  BY <1>1, <1>2 DEF Entry
<1>4. Unturned(ids) \in Seq(Entry(S)) /\ Len(Unturned(ids)) = Len(ids) /\ DOMAIN Unturned(ids) = 1..Len(ids)
  BY <1>1, <1>3, SeqFunction
<1>5. \A i \in 1..Len(ids) : Unturned(ids)[i].id = ids[i] /\ Unturned(ids)[i].angle = 0
  BY <1>2
<1>6. Pairwise(Unturned(ids), Before)
  <2> SUFFICES ASSUME NEW i \in 1..Len(ids), NEW j \in 1..Len(ids), i < j
               PROVE  <<Unturned(ids)[i], Unturned(ids)[j]>> \in Before
    BY <1>4 DEF Pairwise
  <2>1. <<ids[i], ids[j]>> \in ByNumber
    BY <1>1 DEF Pairwise
  <2>2. Number(ids[i]) < Number(ids[j])
    BY <2>1 DEF ByNumber
  <2>3. Unturned(ids)[i] \in Entry(AnyPage) /\ Unturned(ids)[j] \in Entry(AnyPage)
    BY <1>1, <1>2 DEF Entry
  <2> QED BY <1>5, <2>2, <2>3 DEF Before
<1> QED BY <1>1, <1>4, <1>5, <1>6

\* unless the source is in mixed, the client takes for its pages those that stay
LEMMA SourceCarries ==
    ASSUME ViewerInv, drag # <<>>, Extends, UNCHANGED <<docVers, pictures>>,
           NEW c, c.src = SourceAfter(drag), c.src # NoVersion, c.src \notin mixed', SourceMixed(drag) \subseteq mixed',
           c.srcOf = Unturned(GetSourceOrderedPageIDs(Head(drag)[1], Range(drag))),
           content'[c.src] = Contents(KeptPages(drag))
    PROVE  Carries(c)'
<1> USE DEF ViewerInv
<1>w. PICK w : w = VersionOf(Head(drag))
  OBVIOUS
<1>k. PICK kept : kept = KeptPages(drag)
  OBVIOUS
<1>1. w \in DOMAIN docVers /\ w \in DOMAIN content /\ kept \in Seq(PageSet(w)) /\ Pairwise(kept, ByNumber)
  BY <1>w, <1>k, DraggedPages
<1>2. c.srcOf = Unturned(kept)
  BY <1>k DEF SourceMixed
<1>3. PageSet(w) \subseteq AnyPage /\ \A p \in PageSet(w) : ContentOf(p) \in Sheet
  BY <1>1, PagesOfVersion
<1>4. /\ c.srcOf \in Seq(Entry(PageSet(w))) /\ Len(c.srcOf) = Len(kept)
      /\ \A i \in 1..Len(kept) : c.srcOf[i].id = kept[i] /\ c.srcOf[i].angle = 0 /\ kept[i] \in PageSet(w)
      /\ Pairwise(c.srcOf, Before)
  <2>1. PICK S : S = PageSet(w)
    OBVIOUS
  <2>2. /\ Unturned(kept) \in Seq(Entry(S)) /\ Len(Unturned(kept)) = Len(kept)
        /\ \A i \in 1..Len(kept) : Unturned(kept)[i].id = kept[i] /\ Unturned(kept)[i].angle = 0 /\ kept[i] \in S
        /\ Pairwise(Unturned(kept), Before)
    BY <1>1, <1>3, <2>1, UnturnedOrder
  <2> QED BY <1>2, <2>1, <2>2
<1>5. PageSet(w)' = PageSet(w) /\ \A p \in PageSet(w) : ContentOf(p)' = ContentOf(p)
  BY <1>1, PagesStay
<1>6. kept \in Seq(StoredPages)
  BY <1>1, SeqMonotonic DEF StoredPages
<1>7. Len(content'[c.src]) = Len(kept) /\ \A i \in 1..Len(kept) : content'[c.src][i] = ContentOf(kept[i])
  BY <1>k, <1>6, ContentsOfPages
<1>8. ASSUME NEW i \in 1..Len(kept)
      PROVE  content'[c.src][i] = Turned(ContentOf(c.srcOf[i].id)', c.srcOf[i].angle)
  <2>1. c.srcOf[i].id = kept[i] /\ c.srcOf[i].angle = 0 /\ kept[i] \in PageSet(w)
    BY <1>4
  <2>2. Turned(ContentOf(kept[i]), 0) = ContentOf(kept[i])
    BY <1>3, <2>1, TurnedSheet
  <2> QED BY <1>5, <1>7, <2>1, <2>2
<1>9. Before' = Before
  BY DEF Has, HasPicture, Before
<1> SUFFICES /\ w \in DOMAIN docVers' /\ c.srcOf \in Seq(Entry(PageSet(w)')) /\ Len(c.srcOf) = Len(content'[c.src])
             /\ \A i \in 1..Len(c.srcOf) : content'[c.src][i] = Turned(ContentOf(c.srcOf[i].id)', c.srcOf[i].angle)
             /\ w \notin mixed' => Pairwise(c.srcOf, Before')
  BY DEF Carries
<1> QED BY <1>1, <1>4, <1>5, <1>7, <1>8, <1>9

LEMMA ExtractPagesInv ==
    ASSUME ViewerInv, NEW side \in Panes, ExtractPages(side)
    PROVE  ViewerInv'
<1> USE DEF ViewerInv
<1>d. PICK d : d = Head(drag)[1]
  OBVIOUS
<1>s. PICK src : src = SourceAfter(drag)
  OBVIOUS
<1>c. PICK c : c = PageCall("extract", side, src, Unturned(GetSourceOrderedPageIDs(d, Range(drag))), NoVersion, <<>>)
  OBVIOUS
<1>1. /\ drag # <<>> /\ head[d] # 0
      /\ content' = IF src = NoVersion THEN content ELSE Put(content, src, Contents(KeptPages(drag)))
      /\ head' = [head EXCEPT ![d] = IF src = NoVersion THEN 0 ELSE @ + 1]
      /\ mixed' = mixed \cup SourceMixed(drag)
      /\ pageCalls' = pageCalls \cup {c} /\ UNCHANGED <<screen, copies, latest, images>>
  BY <1>d, <1>s, <1>c DEF ExtractPages, Send
<1>2. PICK w : w = VersionOf(Head(drag)) /\ w \in DOMAIN content /\ d \in Docs /\ lastVersion[d] # 0
               /\ KeptPages(drag) \in Seq(PageSet(w))
  BY <1>1, <1>d, DraggedPages
<1>3. Contents(KeptPages(drag)) \in Seq(Sheet) /\ (KeptPages(drag) # <<>> => Contents(KeptPages(drag)) # <<>>)
  <2>1. KeptPages(drag) \in Seq(StoredPages)
    BY <1>2, SeqMonotonic DEF StoredPages
  <2> QED BY <2>1, ContentsOfPages
<1>4. src # NoVersion => src = NewVersion(d) /\ KeptPages(drag) # <<>>
  BY <1>d, <1>s DEF SourceAfter
<1>5. SourceMixed(drag) \subseteq {src} \ {NoVersion}
  BY <1>s DEF SourceMixed
<1>6. pdf' = pdf /\ mixed \subseteq DOMAIN content /\ head \in [Docs -> Nat]
  BY <1>1 DEF images, ServerOK
<1>7. ServerStep /\ (src # NoVersion => src \in DOMAIN content' /\ content'[src] = Contents(KeptPages(drag)))
  <2>1. CASE src = NoVersion
    <3>1. head' \in [Docs -> Nat] /\ \A e \in Docs : head'[e] \in {head[e], 0}
      BY <1>1, <1>2, <1>6, <2>1
    <3> QED BY <1>1, <1>5, <1>6, <2>1, <3>1 DEF ServerStep, Extends
  <2>2. CASE src # NoVersion
    BY <1>1, <1>2, <1>3, <1>4, <1>5, <1>6, <2>2, OneNewVersion
  <2> QED BY <2>1, <2>2
<1>8. ServerOK'
  BY <1>7, ServerStepOK
<1>9. /\ CopiesOK' /\ PagesKept' /\ ShownOK' /\ PicturesOK' /\ DrawingOK' /\ HoleFree' /\ OrderOK'
      /\ \A b \in pageCalls : CallOK(b)'
  BY <1>1, <1>7, ClientStays DEF screen, copies, images
<1>10. src # NoVersion => src \notin DOMAIN content /\ src[1] = d
  BY <1>1, <1>2, <1>4, NewVersionIsNew
<1>11. c.kind = "extract" /\ c.src = src /\ c.dst = NoVersion /\ c.srcOf = Unturned(GetSourceOrderedPageIDs(d, Range(drag)))
  BY <1>c DEF PageCall
<1>12. ASSUME src # NoVersion, src \notin mixed' PROVE Carries(c)'
  BY <1>1, <1>7, <1>11, <1>12, <1>d, <1>s, SourceCarries DEF copies, images, ServerStep
<1>13. CallOK(c)'
  BY <1>1, <1>2, <1>7, <1>10, <1>11, <1>12 DEF CallOK, NewVersions, CopiesOK, copies, screen
<1>14. NewVersions(c) \cap DOMAIN content = {}
  BY <1>10, <1>11 DEF NewVersions
<1>15. CallsOK'
  BY <1>1, <1>9, <1>13, <1>14, CallSent
<1>16. ScreenOK'
  BY <1>1 DEF ScreenOK, screen
<1> QED BY <1>8, <1>9, <1>15, <1>16

LEMMA ThreeParts ==
    ASSUME NEW T, NEW r \in Seq(T), NEW s \in Seq(T), NEW t \in Seq(T)
    PROVE  r \o s \o t \in Seq(T) /\ Range(s) \subseteq Range(r \o s \o t)
<1>1. r \o s \in Seq(T) /\ Range(r \o s) = Range(r) \cup Range(s)
  BY ConcatElements
<1>2. PICK u : u = r \o s
  OBVIOUS
<1>3. u \in Seq(T) /\ Range(s) \subseteq Range(u)
  BY <1>1, <1>2
<1>4. u \o t \in Seq(T) /\ Range(u \o t) = Range(u) \cup Range(t)
  BY <1>3, ConcatElements
<1> QED BY <1>2, <1>3, <1>4

LEMMA TransferPagesInv ==
    ASSUME ViewerInv, NEW side \in Panes, NEW target \in Range(Thumbnails(side)), NEW strategy,
           TransferPages(side, target, strategy)
    PROVE  ViewerInv'
<1> USE DEF ViewerInv
<1>d. PICK d : d = Head(drag)[1]
  OBVIOUS
<1>t. PICK t : t = CurrentDocVer(side)
  OBVIOUS
<1>n. PICK new : new = NewVersion(t[1])
  OBVIOUS
<1>s. PICK src : src = SourceAfter(drag)
  OBVIOUS
<1>c. PICK c : c = PageCall("move", side, src, Unturned(GetSourceOrderedPageIDs(d, Range(drag))),
                            new, Unturned(GetTargetOrderedPageIDs(t[1], drag, target, strategy)))
  OBVIOUS
<1> DEFINE old == PageIds(t)
           at == Number(target)
           mix == SubSeq(old, 1, at - 1) \o Moved(drag) \o SubSeq(old, at, Len(old))
           result == IF strategy = "replace" THEN Moved(drag) ELSE mix
<1>1. /\ drag # <<>> /\ head[d] # 0 /\ head[t[1]] # 0 /\ d # t[1]
      /\ content' = IF src = NoVersion THEN Put(content, new, Contents(result))
                    ELSE Put(Put(content, new, Contents(result)), src, Contents(KeptPages(drag)))
      /\ head' = [head EXCEPT ![d] = IF src = NoVersion THEN 0 ELSE @ + 1, ![t[1]] = @ + 1]
      /\ mixed' = mixed \cup SourceMixed(drag) \cup {new}
      /\ pageCalls' = pageCalls \cup {c} /\ UNCHANGED <<screen, copies, latest, images>>
  BY <1>d, <1>t, <1>n, <1>s, <1>c DEF TransferPages, Send
<1>2. PICK w : w = VersionOf(Head(drag)) /\ w \in DOMAIN content /\ d \in Docs /\ lastVersion[d] # 0
               /\ KeptPages(drag) \in Seq(PageSet(w)) /\ Moved(drag) \in Seq(PageSet(w)) /\ Range(Moved(drag)) # {}
  BY <1>1, <1>d, DraggedPages
<1>3. t \in DOMAIN docVers /\ t \in DOMAIN content /\ target \in PageSet(t)
  BY <1>t, ThumbnailShown, CurrentVersion
<1>4. t[1] \in Docs /\ lastVersion[t[1]] # 0
  BY <1>3, VersionParts DEF CopiesOK
<1>5. KeptPages(drag) \in Seq(StoredPages) /\ Moved(drag) \in Seq(StoredPages)
  BY <1>2, SeqMonotonic DEF StoredPages
<1>6. result \in Seq(StoredPages) /\ result # <<>>
  <2>1. old \in Seq(StoredPages) /\ Len(old) \in Nat /\ at \in 1..Len(old)
    <3>1. old \in Seq(PageSet(t)) /\ Len(old) = Len(content[t]) /\ at \in 1..Len(content[t])
      BY <1>3, PagesOfVersion
    <3>2. PageSet(t) \subseteq StoredPages
      BY <1>3 DEF StoredPages
    <3> QED BY <3>1, <3>2, SeqMonotonic, LenProperties
  <2> HIDE DEF old, at
  <2>2. SubSeq(old, 1, at - 1) \in Seq(StoredPages) /\ SubSeq(old, at, Len(old)) \in Seq(StoredPages)
    <3>1. 1 \in Nat \ {0} /\ at - 1 \in Int /\ at - 1 <= Len(old) /\ at \in Nat \ {0} /\ Len(old) \in Int /\ Len(old) <= Len(old)
      BY <2>1
    <3> QED BY <2>1, <3>1, SubSeqElements
  <2>4. mix \in Seq(StoredPages) /\ Range(Moved(drag)) \subseteq Range(mix)
    BY <1>5, <2>2, ThreeParts
  <2>5. mix # <<>> /\ Moved(drag) # <<>>
    <3> HIDE DEF mix
    <3> QED BY <1>2, <2>4, NotEmpty
  <2> QED BY <1>5, <2>4, <2>5
<1>7. Contents(result) \in Seq(Sheet) /\ Contents(result) # <<>> /\ Contents(KeptPages(drag)) \in Seq(Sheet)
      /\ (KeptPages(drag) # <<>> => Contents(KeptPages(drag)) # <<>>)
  <2> HIDE DEF result
  <2> QED BY <1>5, <1>6, ContentsOfPages
<1> HIDE DEF result
<1>8. src # NoVersion => src = NewVersion(d) /\ KeptPages(drag) # <<>>
  BY <1>d, <1>s DEF SourceAfter
<1>9. SourceMixed(drag) \subseteq {src} \ {NoVersion}
  BY <1>s DEF SourceMixed
<1>10. pdf' = pdf /\ mixed \subseteq DOMAIN content /\ head \in [Docs -> Nat]
  BY <1>1 DEF images, ServerOK
<1>11. new \notin DOMAIN content /\ new # NoVersion /\ new[1] = t[1]
  BY <1>1, <1>4, <1>n, NewVersionIsNew
<1>12. src # NoVersion => src \notin DOMAIN content /\ src[1] = d
  BY <1>1, <1>2, <1>8, NewVersionIsNew
<1>13. src # new
  BY <1>1, <1>11, <1>12
<1>14. DOMAIN content' = DOMAIN content \cup ({new, src} \ {NoVersion})
       /\ content'[new] = Contents(result) /\ (src # NoVersion => content'[src] = Contents(KeptPages(drag)))
       /\ \A v \in DOMAIN content : content'[v] = content[v]
  BY <1>1, <1>11, <1>12, <1>13 DEF Put
<1>15. head' \in [Docs -> Nat] /\ head'[t[1]] = head[t[1]] + 1 /\ head'[d] = (IF src = NoVersion THEN 0 ELSE head[d] + 1)
       /\ \A e \in Docs \ {d, t[1]} : head'[e] = head[e]
  BY <1>1, <1>2, <1>4, <1>10
<1>16. ServerStep
  <2>1. Extends
    BY <1>14 DEF Extends
  <2>2. ASSUME NEW v \in DOMAIN content' \ DOMAIN content
        PROVE  \E e \in Docs : /\ head[e] # 0 /\ v = NewVersion(e) /\ head'[e] = head[e] + 1
                               /\ content'[v] \in Seq(Sheet) /\ content'[v] # <<>>
    <3>1. CASE v = new
      BY <1>1, <1>4, <1>7, <1>14, <1>15, <1>n, <3>1
    <3>2. CASE v = src /\ src # NoVersion
      BY <1>1, <1>2, <1>7, <1>8, <1>14, <1>15, <3>2
    <3> QED BY <1>14, <3>1, <3>2
  <2>3. ASSUME NEW e \in Docs
        PROVE  \/ head'[e] \in {head[e], 0}
               \/ head[e] # 0 /\ head'[e] = head[e] + 1 /\ NewVersion(e) \in DOMAIN content'
    <3>1. CASE e = t[1]
      BY <1>1, <1>11, <1>14, <1>15, <1>n, <3>1
    <3>2. CASE e = d
      BY <1>1, <1>8, <1>14, <1>15, <3>2
    <3> QED BY <1>15, <3>1, <3>2
  <2>4. mixed \subseteq mixed' /\ mixed' \subseteq DOMAIN content'
    BY <1>1, <1>9, <1>10, <1>11, <1>14
  <2> QED BY <1>10, <1>15, <2>1, <2>2, <2>3, <2>4 DEF ServerStep
<1>17. ServerOK'
  BY <1>16, ServerStepOK
<1>18. /\ CopiesOK' /\ PagesKept' /\ ShownOK' /\ PicturesOK' /\ DrawingOK' /\ HoleFree' /\ OrderOK'
       /\ \A b \in pageCalls : CallOK(b)'
  BY <1>1, <1>16, ClientStays DEF screen, copies, images
<1>19. c.kind = "move" /\ c.src = src /\ c.dst = new /\ c.srcOf = Unturned(GetSourceOrderedPageIDs(d, Range(drag)))
  BY <1>c DEF PageCall
<1>20. ASSUME src # NoVersion, src \notin mixed' PROVE Carries(c)'
  BY <1>1, <1>14, <1>16, <1>19, <1>20, <1>d, <1>s, SourceCarries DEF copies, images, ServerStep
<1>21. CallOK(c)'
  <2>1. docVers' = docVers /\ lastVersion' = lastVersion /\ DOMAIN docVers \subseteq DOMAIN content
    BY <1>1 DEF copies, screen, CopiesOK
  <2>2. NewVersions(c) = {src, new} \ {NoVersion}
    BY <1>19 DEF NewVersions
  <2>3. new \in mixed'
    BY <1>1
  <2>4. \A v \in NewVersions(c) : v \in DOMAIN content' /\ v \notin DOMAIN docVers /\ lastVersion[v[1]] # 0
    BY <1>2, <1>4, <1>11, <1>12, <1>14, <2>1, <2>2
  <2> SUFFICES /\ \A v \in NewVersions(c) : v \in DOMAIN content' /\ v \notin DOMAIN docVers' /\ lastVersion'[v[1]] # 0
               /\ c.kind = "move" => c.dst # NoVersion
               /\ c.dst # NoVersion => c.dst \in mixed' /\ c.dst # c.src
               /\ c.src # NoVersion /\ c.src \notin mixed' => Carries(c)'
    BY DEF CallOK, NewVersions
  <2> QED BY <1>11, <1>13, <1>19, <1>20, <2>1, <2>3, <2>4
<1>22. NewVersions(c) \cap DOMAIN content = {}
  BY <1>11, <1>12, <1>19 DEF NewVersions
<1>23. CallsOK'
  BY <1>1, <1>18, <1>21, <1>22, CallSent
<1>24. ScreenOK'
  BY <1>1 DEF ScreenOK, screen
<1> QED BY <1>17, <1>18, <1>23, <1>24

-----------------------------------------------------------------------------
(* Editing the copy of a version *)

Distinct == {r \in Entry(AnyPage) \X Entry(AnyPage) : r[1].id # r[2].id}

LEMMA IdsOfCopy ==
    ASSUME NEW S, S \subseteq AnyPage, NEW s \in Seq(Entry(S))
    PROVE  /\ IdsOf(s) \in Seq(S) /\ Len(IdsOf(s)) = Len(s) /\ Range(IdsOf(s)) = {x.id : x \in Range(s)}
           /\ IsInjective(IdsOf(s)) <=> Pairwise(s, Distinct)
<1>1. Len(s) \in Nat /\ DOMAIN s = 1..Len(s) /\ \A i \in 1..Len(s) : s[i] \in Entry(S) /\ s[i].id \in S
  BY EntryParts
<1>2. IdsOf(s) = [i \in 1..Len(s) |-> s[i].id]
  BY <1>1 DEF IdsOf
<1>3. IdsOf(s) \in [1..Len(s) -> S]
  BY <1>1, <1>2
<1>4. IdsOf(s) \in Seq(S) /\ Len(IdsOf(s)) = Len(s) /\ DOMAIN IdsOf(s) = 1..Len(s)
  BY <1>1, <1>3, SeqFunction
<1>5. Range(IdsOf(s)) = {x.id : x \in Range(s)}
  BY <1>1, <1>2, <1>4 DEF Range
<1>6. \A i \in 1..Len(s) : s[i] \in Entry(AnyPage)
  BY <1>1 DEF Entry
<1>7. ASSUME IsInjective(IdsOf(s)) PROVE Pairwise(s, Distinct)
  BY <1>1, <1>2, <1>4, <1>6, <1>7 DEF IsInjective, Pairwise, Distinct
<1>8. ASSUME Pairwise(s, Distinct) PROVE IsInjective(IdsOf(s))
  <2> SUFFICES ASSUME NEW i \in 1..Len(s), NEW j \in 1..Len(s), s[i].id = s[j].id, i < j PROVE FALSE
    BY <1>1, <1>2, <1>4 DEF IsInjective
  <2>1. <<s[i], s[j]>> \in Distinct
    BY <1>1, <1>8 DEF Pairwise
  <2> QED BY <2>1 DEF Distinct
<1> QED BY <1>4, <1>5, <1>7, <1>8

LEMMA SinglePairwise ==
    ASSUME NEW T, NEW x \in T
    PROVE  <<x>> \in Seq(T) /\ Range(<<x>>) = {x} /\ \A R : Pairwise(<<x>>, R)
BY DEF Range, Pairwise

\* the parts that reorder of utils.ts puts together
PutTogether(T, arr, sources, target, position) ==
    \E k \in DOMAIN arr, A, moved, at, B, mid \in Seq(T) :
        /\ arr[k].id = target
        /\ Reorder(arr, sources, target, position) = A \o mid \o B
        /\ mid = IF position = "before" THEN moved \o at ELSE at \o moved
        /\ Range(A) = {arr[i] : i \in 1..(k - 1)} \cap {p \in Range(arr) : p.id \notin sources}
        /\ Range(at) = {arr[k]} \cap {p \in Range(arr) : p.id \notin sources}
        /\ Range(B) = {arr[i] : i \in (k + 1)..Len(arr)} \cap {p \in Range(arr) : p.id \notin sources}
        /\ Range(moved) = {p \in Range(arr) : p.id \in sources}
        /\ \A R : Pairwise(arr, R) => Pairwise(A, R) /\ Pairwise(moved, R) /\ Pairwise(at, R) /\ Pairwise(B, R)

LEMMA ReorderParts ==
    ASSUME NEW T, NEW arr \in Seq(T), NEW sources, NEW target, NEW position,
           \E i \in DOMAIN arr : arr[i].id = target
    PROVE  PutTogether(T, arr, sources, target, position)
<1> DEFINE Others(s) == Filtered(s, {p \in Range(s) : p.id \notin sources})
<1>1. PICK k : k = CHOOSE i \in DOMAIN arr : arr[i].id = target
  OBVIOUS
<1>2. k \in DOMAIN arr /\ arr[k].id = target
  BY <1>1
<1>3. Len(arr) \in Nat /\ DOMAIN arr = 1..Len(arr) /\ \A i \in 1..Len(arr) : arr[i] \in T /\ arr[i] \in Range(arr)
  <2>1. Len(arr) \in Nat /\ DOMAIN arr = 1..Len(arr) /\ \A i \in 1..Len(arr) : arr[i] \in T
    BY LenProperties, ElementOfSeq
  <2> QED BY <2>1 DEF Range
<1>4. PICK A0 : A0 = SubSeq(arr, 1, k - 1)
  OBVIOUS
<1>5. PICK B0 : B0 = SubSeq(arr, k + 1, Len(arr))
  OBVIOUS
<1>6. PICK C0 : C0 = <<arr[k]>>
  OBVIOUS
<1>7. A0 \in Seq(T) /\ Range(A0) = {arr[i] : i \in 1..(k - 1)} /\ \A R : Pairwise(arr, R) => Pairwise(A0, R)
  <2>1. 1 \in Nat \ {0} /\ k - 1 \in Int /\ k - 1 <= Len(arr)
    BY <1>2, <1>3
  <2> QED BY <1>4, <2>1, SubSeqElements
<1>8. B0 \in Seq(T) /\ Range(B0) = {arr[i] : i \in (k + 1)..Len(arr)} /\ \A R : Pairwise(arr, R) => Pairwise(B0, R)
  <2>1. PICK first, last : first = k + 1 /\ last = Len(arr)
    OBVIOUS
  <2>2. first \in Nat \ {0} /\ last \in Int /\ last <= Len(arr)
    BY <1>2, <1>3, <2>1
  <2>3. /\ SubSeq(arr, first, last) \in Seq(T) /\ Range(SubSeq(arr, first, last)) = {arr[i] : i \in first..last}
        /\ \A R : Pairwise(arr, R) => Pairwise(SubSeq(arr, first, last), R)
    BY <2>2, SubSeqElements
  <2> QED BY <1>5, <2>1, <2>3
<1>9. C0 \in Seq(T) /\ Range(C0) = {arr[k]} /\ \A R : Pairwise(C0, R)
  BY <1>2, <1>3, <1>6, SinglePairwise
<1>10. Range(A0) \subseteq Range(arr) /\ Range(B0) \subseteq Range(arr) /\ Range(C0) \subseteq Range(arr)
  <2>1. \A i \in 1..(k - 1) : i \in 1..Len(arr)
    BY <1>2, <1>3
  <2>2. \A i \in (k + 1)..Len(arr) : i \in 1..Len(arr)
    BY <1>2, <1>3
  <2> QED BY <1>2, <1>3, <1>7, <1>8, <1>9, <2>1, <2>2
<1>11. ASSUME NEW s \in Seq(T), Range(s) \subseteq Range(arr)
       PROVE  /\ Others(s) \in Seq(T) /\ Range(Others(s)) = Range(s) \cap {p \in Range(arr) : p.id \notin sources}
              /\ \A R : Pairwise(s, R) => Pairwise(Others(s), R)
  <2>1. Others(s) \in Seq(T) /\ Range(Others(s)) = Range(s) \cap {p \in Range(s) : p.id \notin sources}
        /\ \A R : Pairwise(s, R) => Pairwise(Others(s), R)
    BY FilteredElements, FilteredPairwise
  <2> HIDE DEF Others
  <2> QED BY <1>11, <2>1
<1>12. PICK moved : moved = Filtered(arr, {p \in Range(arr) : p.id \in sources})
  OBVIOUS
<1>13. moved \in Seq(T) /\ Range(moved) = {p \in Range(arr) : p.id \in sources}
       /\ \A R : Pairwise(arr, R) => Pairwise(moved, R)
  <2>1. moved \in Seq(T) /\ Range(moved) = Range(arr) \cap {p \in Range(arr) : p.id \in sources}
    BY <1>12, FilteredElements
  <2>2. \A R : Pairwise(arr, R) => Pairwise(moved, R)
    BY <1>12, FilteredPairwise
  <2> QED BY <2>1, <2>2
<1>14. PICK A : A = Others(A0)
  OBVIOUS
<1>15. PICK B : B = Others(B0)
  OBVIOUS
<1>16. PICK at : at = Others(C0)
  OBVIOUS
<1>17. PICK mid : mid = IF position = "before" THEN moved \o at ELSE at \o moved
  OBVIOUS
<1>18. Reorder(arr, sources, target, position) = A \o mid \o B
  BY <1>1, <1>4, <1>5, <1>6, <1>12, <1>14, <1>15, <1>16, <1>17 DEF Reorder
<1> HIDE DEF Others
<1>19. /\ A \in Seq(T) /\ Range(A) = {arr[i] : i \in 1..(k - 1)} \cap {p \in Range(arr) : p.id \notin sources}
       /\ \A R : Pairwise(arr, R) => Pairwise(A, R)
  BY <1>7, <1>10, <1>11, <1>14
<1>20. /\ B \in Seq(T) /\ Range(B) = {arr[i] : i \in (k + 1)..Len(arr)} \cap {p \in Range(arr) : p.id \notin sources}
       /\ \A R : Pairwise(arr, R) => Pairwise(B, R)
  BY <1>8, <1>10, <1>11, <1>15
<1>21. /\ at \in Seq(T) /\ Range(at) = {arr[k]} \cap {p \in Range(arr) : p.id \notin sources}
       /\ \A R : Pairwise(at, R)
  BY <1>9, <1>10, <1>11, <1>16
<1>22. mid \in Seq(T)
  BY <1>13, <1>17, <1>21, ConcatElements
<1> QED BY <1>2, <1>13, <1>17, <1>18, <1>19, <1>20, <1>21, <1>22 DEF PutTogether

\* nothing is lost or comes twice; R is a relation that holds of any two pages when either is moved
LEMMA ReorderKeeps ==
    ASSUME NEW T, NEW arr \in Seq(T), NEW sources, NEW target, NEW position,
           \E i \in DOMAIN arr : arr[i].id = target
    PROVE  /\ Reorder(arr, sources, target, position) \in Seq(T)
           /\ Range(Reorder(arr, sources, target, position)) = Range(arr)
           /\ \A R :
                /\ Pairwise(arr, R)
                /\ \A t, m, x \in Range(arr) :
                      t.id = target /\ m.id \in sources /\ x.id \notin sources =>
                         /\ <<x, t>> \in R => <<x, m>> \in R
                         /\ <<x, m>> \in R => <<m, x>> \in R
                         /\ x = t => <<x, m>> \in R
                => Pairwise(Reorder(arr, sources, target, position), R)
<1>2. PICK k \in DOMAIN arr, A \in Seq(T), moved \in Seq(T), at \in Seq(T), B \in Seq(T), mid \in Seq(T) :
             /\ arr[k].id = target
             /\ Reorder(arr, sources, target, position) = A \o mid \o B
             /\ mid = IF position = "before" THEN moved \o at ELSE at \o moved
             /\ Range(A) = {arr[i] : i \in 1..(k - 1)} \cap {p \in Range(arr) : p.id \notin sources}
             /\ Range(at) = {arr[k]} \cap {p \in Range(arr) : p.id \notin sources}
             /\ Range(B) = {arr[i] : i \in (k + 1)..Len(arr)} \cap {p \in Range(arr) : p.id \notin sources}
             /\ Range(moved) = {p \in Range(arr) : p.id \in sources}
             /\ \A R : Pairwise(arr, R) => Pairwise(A, R) /\ Pairwise(moved, R) /\ Pairwise(at, R) /\ Pairwise(B, R)
  <2>1. PutTogether(T, arr, sources, target, position)
    BY ReorderParts
  <2> QED BY <2>1 DEF PutTogether
<1>3. Len(arr) \in Nat /\ DOMAIN arr = 1..Len(arr) /\ k \in 1..Len(arr) /\ \A i \in 1..Len(arr) : arr[i] \in Range(arr)
  <2>1. Len(arr) \in Nat /\ DOMAIN arr = 1..Len(arr)
    BY LenProperties
  <2> QED BY <2>1 DEF Range
<1>4. mid \in Seq(T) /\ Range(mid) = Range(moved) \cup Range(at)
  <2>1. CASE position = "before"
    BY <1>2, <2>1, ConcatElements
  <2>2. CASE position # "before"
    BY <1>2, <2>2, ConcatElements
  <2> QED BY <2>1, <2>2
<1>5. PICK front : front = A \o mid
  OBVIOUS
<1>6. front \in Seq(T) /\ Range(front) = Range(A) \cup Range(mid)
  BY <1>4, <1>5, ConcatElements
<1>7. PICK all : all = front \o B
  OBVIOUS
<1>8. all \in Seq(T) /\ Range(all) = Range(front) \cup Range(B)
  BY <1>6, <1>7, ConcatElements
<1>9. Reorder(arr, sources, target, position) = all
  BY <1>2, <1>5, <1>7
<1>10. Range(all) = Range(arr)
  <2>1. Range(all) \subseteq Range(arr)
    BY <1>2, <1>4, <1>6, <1>8
  <2>2. ASSUME NEW x \in Range(arr) PROVE x \in Range(all)
    <3>1. PICK i \in 1..Len(arr) : x = arr[i]
      BY <1>3 DEF Range
    <3>2. i \in 1..(k - 1) \/ i = k \/ i \in (k + 1)..Len(arr)
      BY <1>3
    <3>3. x.id \in sources => x \in Range(moved)
      BY <1>2
    <3>4. x.id \notin sources => x \in Range(A) \/ x \in Range(at) \/ x \in Range(B)
      BY <1>2, <3>1, <3>2
    <3> QED BY <1>4, <1>6, <1>8, <3>3, <3>4
  <2> QED BY <2>1, <2>2
<1>11. ASSUME NEW R, Pairwise(arr, R),
              \A t, m, x \in Range(arr) :
                      t.id = target /\ m.id \in sources /\ x.id \notin sources =>
                         /\ <<x, t>> \in R => <<x, m>> \in R
                         /\ <<x, m>> \in R => <<m, x>> \in R
                         /\ x = t => <<x, m>> \in R
       PROVE  Pairwise(all, R)
  <2>1. Pairwise(A, R) /\ Pairwise(moved, R) /\ Pairwise(at, R) /\ Pairwise(B, R)
    BY <1>2, <1>11
  <2>2. \A i, j \in 1..Len(arr) : i < j => <<arr[i], arr[j]>> \in R
    BY <1>3, <1>11 DEF Pairwise
  <2>3. ASSUME NEW x \in Range(A) PROVE <<x, arr[k]>> \in R /\ x.id \notin sources /\ x \in Range(arr)
    <3>1. PICK i \in 1..(k - 1) : x = arr[i]
      BY <1>2
    <3>2. i \in 1..Len(arr) /\ i < k
      BY <1>3
    <3> QED BY <1>2, <1>3, <2>2, <3>1, <3>2
  <2>4. \A x \in Range(moved) : x.id \in sources /\ x \in Range(arr)
    BY <1>2
  <2>5. \A x \in Range(at) : x.id \notin sources /\ x = arr[k] /\ x \in Range(arr)
    BY <1>2
  <2>6. ASSUME NEW x \in Range(B) PROVE /\ x.id \notin sources /\ x \in Range(arr) /\ <<arr[k], x>> \in R
                                        /\ \A i \in 1..k : <<arr[i], x>> \in R
    <3>1. PICK i \in (k + 1)..Len(arr) : x = arr[i]
      BY <1>2
    <3>2. i \in 1..Len(arr) /\ k < i /\ k \in 1..k /\ \A j \in 1..k : j \in 1..Len(arr) /\ j < i
      BY <1>3
    <3> QED BY <1>2, <1>3, <2>2, <3>1, <3>2
  <2>7. ASSUME NEW m \in Range(moved), NEW x \in Range(B) PROVE <<m, x>> \in R
    <3>1. PICK i \in 1..Len(arr) : m = arr[i]
      BY <1>3, <2>4 DEF Range
    <3>2. PICK j \in 1..Len(arr) : x = arr[j]
      BY <1>3, <2>6 DEF Range
    <3>3. i # j
      BY <2>4, <2>6, <3>1, <3>2
    <3>4. <<m, x>> \in R \/ <<x, m>> \in R
      BY <1>3, <2>2, <3>1, <3>2, <3>3
    <3> QED BY <1>2, <1>3, <1>11, <2>4, <2>6, <3>4
  <2>8. ASSUME NEW x \in Range(A), NEW m \in Range(moved) PROVE <<x, m>> \in R
    BY <1>2, <1>3, <1>11, <2>3, <2>4
  <2>9. ASSUME NEW x \in Range(at), NEW m \in Range(moved) PROVE <<x, m>> \in R /\ <<m, x>> \in R
    BY <1>2, <1>3, <1>11, <2>4, <2>5
  <2>10. Pairwise(mid, R)
    <3>1. CASE position = "before"
      BY <1>2, <2>1, <2>9, <3>1, ConcatPairwise
    <3>2. CASE position # "before"
      BY <1>2, <2>1, <2>9, <3>2, ConcatPairwise
    <3> QED BY <3>1, <3>2
  <2>11. \A x \in Range(A), y \in Range(mid) : <<x, y>> \in R
    BY <1>4, <2>3, <2>5, <2>8
  <2>12. Pairwise(front, R)
    BY <1>4, <1>5, <2>1, <2>10, <2>11, ConcatPairwise
  <2>13. \A x \in Range(front), y \in Range(B) : <<x, y>> \in R
    <3>1. ASSUME NEW x \in Range(A), NEW y \in Range(B) PROVE <<x, y>> \in R
      <4>1. PICK i \in 1..(k - 1) : x = arr[i]
        BY <1>2
      <4>2. i \in 1..k
        BY <1>3
      <4> QED BY <2>6, <4>1, <4>2
    <3> QED BY <1>4, <1>6, <2>5, <2>6, <2>7, <3>1
  <2> QED BY <1>6, <1>7, <2>1, <2>12, <2>13, ConcatPairwise
<1> QED BY <1>8, <1>9, <1>10, <1>11

\* a step that only picks pages or starts a batch
LEMMA OnlyPickedOrDrawn ==
    ASSUME ViewerInv, ShownOK', DrawingOK',
           UNCHANGED <<server, viewers, lastVersion, copies, latest, pageCalls, pictures, pdf, mixed>>
    PROVE  ViewerInv'
<1> USE DEF ViewerInv, server, copies
<1>1. Before' = Before
  BY DEF Has, HasPicture, Before
<1>2. \A p : Has(p)' <=> Has(p)
  BY DEF Has, HasPicture
<1>3. \A v : PageIds(v)' = PageIds(v) /\ PageSet(v)' = PageSet(v)
  BY DEF PageIds, PageSet
<1>4. \A p : ContentOf(p)' = ContentOf(p)
  BY DEF ContentOf
<1>5. ServerOK' /\ ScreenOK' /\ CopiesOK'
  BY <1>3 DEF ServerOK, ScreenOK, CopiesOK
<1>6. PagesKept' /\ PicturesOK'
  BY <1>3, <1>4 DEF PagesKept, PicturesOK, PicturesFollow
<1>7. HoleFree' /\ OrderOK'
  BY <1>1, <1>2, <1>3 DEF HoleFree, OrderOK
<1>8. CallsOK'
  <2>1. ASSUME NEW c \in pageCalls PROVE CallOK(c)'
    <3>1. CallOK(c)
      BY DEF CallsOK
    <3>2. Carries(c) => Carries(c)'
      BY <1>1, <1>3, <1>4 DEF Carries, Turned
    <3> QED BY <3>1, <3>2 DEF CallOK, NewVersions
  <2> QED BY <2>1 DEF CallsOK, NewVersions
<1> QED BY <1>5, <1>6, <1>7, <1>8

LEMMA PickInv ==
    ASSUME ViewerInv, ShownOK', UNCHANGED <<server, viewers, lastVersion, copies, latest, pageCalls, images, mixed>>
    PROVE  ViewerInv'
<1>1. DrawingOK'
  BY DEF ViewerInv, DrawingOK, Has, HasPicture, PageSet, PageIds, images, server, copies
<1> QED BY <1>1, OnlyPickedOrDrawn DEF images

LEMMA OnCheckPageInv ==
    ASSUME ViewerInv, NEW side \in Panes, NEW p \in Range(Thumbnails(side)), OnCheckPage(side, p)
    PROVE  ViewerInv'
<1> USE DEF ViewerInv
<1>1. /\ picked' = [picked EXCEPT ![side] = IF p \in @ THEN @ \ {p} ELSE @ \cup {p}]
      /\ UNCHANGED <<server, viewers, lastVersion, copies, latest, drag, pageCalls, images, mixed>>
  BY DEF OnCheckPage
<1>2. Has(p)
  BY ThumbnailShown
<1>3. \A q : Has(q)' <=> Has(q)
  BY <1>1 DEF Has, HasPicture, images
<1>4. DOMAIN picked' = Panes /\ \A s \in Panes : \A q \in picked'[s] : Has(q)
  BY <1>1, <1>2 DEF ShownOK
<1>5. \A v : PageSet(v)' = PageSet(v)
  BY <1>1 DEF PageSet, PageIds, server
<1>6. ShownOK'
  BY <1>1, <1>3, <1>4, <1>5 DEF ShownOK, copies
<1> QED BY <1>1, <1>6, PickInv

\* all that is dragged is of the version the panel shows
LEMMA OnDragStartInv ==
    ASSUME ViewerInv, NEW side \in Panes, NEW p \in Range(Thumbnails(side)), OnDragStart(side, p)
    PROVE  ViewerInv'
<1> USE DEF ViewerInv
<1>v. PICK v : v = CurrentDocVer(side)
  OBVIOUS
<1>1. /\ drag' = <<p>> \o IdsOf(SelectedPages(side))
      /\ UNCHANGED <<server, viewers, lastVersion, picked, copies, latest, pageCalls, images, mixed>>
  BY DEF OnDragStart
<1>2. Has(p) /\ Known(side) /\ p \in PageSet(v)
  BY <1>v, ThumbnailShown
<1>3. v \in DOMAIN docVers /\ v \in DOMAIN content
  BY <1>2, <1>v, CurrentVersion
<1>4. PageSet(v) \subseteq AnyPage /\ \A q \in PageSet(v) : VersionOf(q) = v
  BY <1>3, PagesOfVersion
<1>5. PICK sel : sel = SelectedPages(side)
  OBVIOUS
<1>6. sel \in Seq(Entry(PageSet(v))) /\ \A x \in Range(sel) : Has(x.id) /\ x.id \in PageSet(v)
  BY <1>2, <1>5, <1>v, SelectedShown
<1>7. PICK ids : ids = IdsOf(sel)
  OBVIOUS
<1>8. ids \in Seq(PageSet(v)) /\ \A q \in Range(ids) : Has(q) /\ q \in PageSet(v)
  <2>1. ids \in Seq(PageSet(v)) /\ Range(ids) = {x.id : x \in Range(sel)}
    BY <1>4, <1>6, <1>7, IdsOfCopy
  <2> QED BY <1>6, <2>1
<1>9. PICK one : one = <<p>>
  OBVIOUS
<1>10. one \in Seq(PageSet(v)) /\ Range(one) = {p} /\ Len(one) = 1 /\ one[1] = p
  BY <1>2, <1>9, SinglePairwise
<1>11. drag' = one \o ids
  BY <1>1, <1>5, <1>7, <1>9
<1>12. one \o ids \in Seq(PageSet(v)) /\ Range(one \o ids) = {p} \cup Range(ids)
  BY <1>8, <1>10, ConcatElements
<1>13. Head(one \o ids) = p
  <2>1. Len(one \o ids) = Len(one) + Len(ids) /\ Len(ids) \in Nat
        /\ \A i \in 1..(Len(one) + Len(ids)) : (one \o ids)[i] = IF i <= Len(one) THEN one[i] ELSE ids[i - Len(one)]
    <3>1. Len(ids) \in Nat
      BY <1>8, LenProperties
    <3> QED BY <1>8, <1>10, <3>1, ConcatProperties
  <2>2. 1 \in 1..(Len(one) + Len(ids)) /\ 1 <= Len(one)
    BY <1>10, <2>1
  <2>3. (one \o ids)[1] = p
    BY <1>10, <2>1, <2>2
  <2>4. PICK u : u = one \o ids
    OBVIOUS
  <2>5. u \in Seq(PageSet(v)) /\ Len(u) \in Nat /\ Len(u) # 0 /\ u[1] = p
    BY <1>10, <1>12, <2>1, <2>3, <2>4
  <2>6. Head(u) = u[1]
    BY <2>5
  <2> QED BY <2>4, <2>5, <2>6
<1>14. \A q : Has(q)' <=> Has(q)
  BY <1>1 DEF Has, HasPicture, images
<1>15. \A w : PageSet(w)' = PageSet(w)
  BY <1>1 DEF PageSet, PageIds, server
<1>16. drag' \in Seq(AnyPage)
  BY <1>4, <1>11, <1>12, SeqMonotonic
<1>17. \A q \in Range(drag') : Has(q) /\ VersionOf(q) = v /\ q \in PageSet(v)
  BY <1>2, <1>4, <1>8, <1>11, <1>12
<1>18. VersionOf(Head(drag')) = v
  BY <1>2, <1>4, <1>11, <1>13
<1>19. ShownOK'
  BY <1>1, <1>3, <1>14, <1>15, <1>16, <1>17, <1>18 DEF ShownOK, copies
<1> QED BY <1>1, <1>19, PickInv

\* a new copy of a version, with the pages it may have
LEMMA CopyEdited ==
    ASSUME ViewerInv, UNCHANGED <<server, viewers, lastVersion, latest, pageCalls, images, mixed>>,
           NEW v \in DOMAIN docVers, NEW pages \in Seq(Entry(PageSet(v))),
           docVers' = [docVers EXCEPT ![v] = pages],
           DOMAIN deleted' = DOMAIN deleted, \A w \in DOMAIN docVers : w # v => deleted'[w] = deleted[w],
           pages # <<>>, Pairwise(pages, Distinct), {x.id : x \in Range(pages)} = PageSet(v) \ deleted'[v],
           \A p \in deleted'[v] : Has(p), v \notin mixed => Pairwise(pages, Before),
           DOMAIN picked' = Panes, \A side \in Panes : \A p \in picked'[side] : Has(p),
           drag' \in {drag, <<>>}
    PROVE  ViewerInv'
<1> USE DEF ViewerInv, server, images
<1>1. Before' = Before
  BY DEF Has, HasPicture, Before
<1>2. \A p : Has(p)' <=> Has(p)
  BY DEF Has, HasPicture
<1>3. \A w : PageIds(w)' = PageIds(w) /\ PageSet(w)' = PageSet(w)
  BY DEF PageIds, PageSet
<1>4. \A p : ContentOf(p)' = ContentOf(p)
  BY DEF ContentOf
<1>5. DOMAIN docVers' = DOMAIN docVers /\ docVers'[v] = pages
      /\ \A w \in DOMAIN docVers : w # v => docVers'[w] = docVers[w]
  OBVIOUS
<1>6. ServerOK' /\ ScreenOK'
  BY DEF ServerOK, ScreenOK
<1>7. CopiesOK'
  BY <1>3, <1>5 DEF CopiesOK
<1>8. PagesKept'
  <2> SUFFICES ASSUME NEW w \in DOMAIN docVers
               PROVE  /\ IdsOf(docVers'[w]) # <<>> /\ IsInjective(IdsOf(docVers'[w]))
                      /\ Range(IdsOf(docVers'[w])) = PageSet(w) \ deleted'[w]
    BY <1>3, <1>5 DEF PagesKept, PageSet, IdsOf
  <2>1. CASE w # v
    BY <1>5, <2>1 DEF PagesKept, PageSet
  <2>2. CASE w = v
    <3>1. PageSet(v) \subseteq AnyPage
      BY PagesOfVersion DEF CopiesOK
    <3>2. IdsOf(pages) \in Seq(PageSet(v)) /\ Len(IdsOf(pages)) = Len(pages) /\ Range(IdsOf(pages)) = PageSet(v) \ deleted'[v]
          /\ IsInjective(IdsOf(pages))
      BY <3>1, IdsOfCopy
    <3>3. IdsOf(pages) # <<>>
      BY <3>2, EmptySeq
    <3> QED BY <1>5, <2>2, <3>2, <3>3
  <2> QED BY <2>1, <2>2
<1>9. ShownOK'
  <2>1. Range(<<>>) = {} /\ <<>> \in Seq(AnyPage)
    BY EmptySeq DEF Range
  <2> QED BY <1>2, <1>3, <1>5, <2>1 DEF ShownOK, CopiesOK
<1>10. PicturesOK'
  BY <1>3, <1>4, <1>5 DEF PicturesOK, PicturesFollow
<1>11. DrawingOK' /\ HoleFree'
  BY <1>2, <1>3, <1>5 DEF DrawingOK, HoleFree
<1>12. OrderOK'
  BY <1>1, <1>5 DEF OrderOK
<1>13. CallsOK'
  <2>1. ASSUME NEW c \in pageCalls PROVE CallOK(c)'
    <3>1. CallOK(c)
      BY DEF CallsOK
    <3>2. Carries(c) => Carries(c)'
      BY <1>1, <1>3, <1>4, <1>5 DEF Carries, Turned
    <3> QED BY <1>5, <3>1, <3>2 DEF CallOK, NewVersions
  <2> QED BY <2>1 DEF CallsOK, NewVersions
<1> QED BY <1>6, <1>7, <1>8, <1>9, <1>10, <1>11, <1>12, <1>13

\* what is so of the copy a panel shows
LEMMA ShownCopy ==
    ASSUME ViewerInv, NEW side \in Panes, ViewerDisplayed(side), NEW v, v = CurrentDocVer(side)
    PROVE  /\ Known(side) /\ v \in DOMAIN docVers /\ v \in DOMAIN content /\ PageSet(v) \subseteq AnyPage
           /\ docVers[v] \in Seq(Entry(PageSet(v))) /\ docVers[v] # <<>> /\ Pairwise(docVers[v], Distinct)
           /\ {x.id : x \in Range(docVers[v])} = PageSet(v) \ deleted[v]
           /\ v \notin mixed => Pairwise(docVers[v], Before)
           /\ \A p \in deleted[v] : Has(p)
           /\ DOMAIN picked = Panes /\ \A s \in Panes : \A p \in picked[s] : Has(p)
           /\ DOMAIN deleted = DOMAIN docVers
<1> USE DEF ViewerInv
<1>1. Known(side) /\ v \in DOMAIN docVers /\ v \in DOMAIN content
  BY CurrentVersion DEF ViewerDisplayed
<1>2. PageSet(v) \subseteq AnyPage
  BY <1>1, PagesOfVersion
<1>3. docVers[v] \in Seq(Entry(PageSet(v))) /\ DOMAIN deleted = DOMAIN docVers
  BY <1>1 DEF CopiesOK
<1>4. IsInjective(IdsOf(docVers[v])) /\ Range(IdsOf(docVers[v])) = PageSet(v) \ deleted[v]
      /\ IdsOf(docVers[v]) # <<>> /\ IdsOf(docVers[v]) \in Seq(PageSet(v)) /\ Len(IdsOf(docVers[v])) = Len(docVers[v])
  BY <1>1, SortedPagesLeft DEF PagesKept
<1>5. docVers[v] # <<>>
  BY <1>3, <1>4, EmptySeq
<1>6. Pairwise(docVers[v], Distinct) /\ {x.id : x \in Range(docVers[v])} = PageSet(v) \ deleted[v]
  BY <1>2, <1>3, <1>4, IdsOfCopy
<1> QED BY <1>1, <1>2, <1>3, <1>5, <1>6 DEF OrderOK, ShownOK

LEMMA PagesResetedInv ==
    ASSUME ViewerInv, NEW side \in Panes, PagesReseted(side)
    PROVE  ViewerInv'
<1> USE DEF ViewerInv
<1>v. PICK v : v = CurrentDocVer(side)
  OBVIOUS
<1>p. PICK pages : pages = InitialPages(v)
  OBVIOUS
<1>1. /\ ViewerDisplayed(side) /\ docVers' = [docVers EXCEPT ![v] = pages] /\ deleted' = [deleted EXCEPT ![v] = {}]
      /\ UNCHANGED <<server, viewers, lastVersion, latest, pageCalls, images, mixed, picked, drag>>
  BY <1>v, <1>p DEF PagesReseted, EditCopy
<1>2. v \in DOMAIN docVers /\ v \in DOMAIN content /\ PageSet(v) \subseteq AnyPage /\ DOMAIN deleted = DOMAIN docVers
      /\ DOMAIN picked = Panes /\ \A s \in Panes : \A p \in picked[s] : Has(p)
  BY <1>1, <1>v, ShownCopy
<1>3. pages \in Seq(Entry(PageSet(v))) /\ IdsOf(pages) = PageIds(v) /\ PageIds(v) # <<>> /\ IsInjective(IdsOf(pages))
      /\ Pairwise(pages, Before)
  BY <1>2, <1>p, InitialCopy
<1>4. Pairwise(pages, Distinct) /\ {x.id : x \in Range(pages)} = PageSet(v) /\ Len(IdsOf(pages)) = Len(pages) /\ IdsOf(pages) \in Seq(PageSet(v))
  BY <1>2, <1>3, IdsOfCopy DEF PageSet
<1>5. pages # <<>>
  BY <1>3, <1>4, EmptySeq
<1>6. deleted'[v] = {} /\ DOMAIN deleted' = DOMAIN deleted /\ \A w \in DOMAIN docVers : w # v => deleted'[w] = deleted[w]
  BY <1>1, <1>2
<1> QED BY <1>1, <1>2, <1>3, <1>4, <1>5, <1>6, CopyEdited

LEMMA PagesRotatedInv ==
    ASSUME ViewerInv, NEW side \in Panes, NEW angle \in Int, PagesRotated(side, angle)
    PROVE  ViewerInv'
<1> USE DEF ViewerInv
<1>v. PICK v : v = CurrentDocVer(side)
  OBVIOUS
<1>c. PICK copy : copy = docVers[v]
  OBVIOUS
<1>p. PICK pages : pages = [i \in DOMAIN copy |->
        IF copy[i] \in Range(SelectedPages(side)) THEN [copy[i] EXCEPT !.angle = @ + angle] ELSE copy[i]]
  OBVIOUS
<1>1. /\ ViewerDisplayed(side) /\ docVers' = [docVers EXCEPT ![v] = pages]
      /\ UNCHANGED <<server, viewers, lastVersion, latest, pageCalls, images, mixed, picked, drag, deleted>>
  BY <1>v, <1>c, <1>p DEF PagesRotated, EditCopy
<1>2. /\ v \in DOMAIN docVers /\ v \in DOMAIN content /\ PageSet(v) \subseteq AnyPage
      /\ copy \in Seq(Entry(PageSet(v))) /\ copy # <<>> /\ Pairwise(copy, Distinct)
      /\ {x.id : x \in Range(copy)} = PageSet(v) \ deleted[v]
      /\ v \notin mixed => Pairwise(copy, Before)
      /\ \A p \in deleted[v] : Has(p)
      /\ DOMAIN picked = Panes /\ \A s \in Panes : \A p \in picked[s] : Has(p)
  BY <1>1, <1>v, <1>c, ShownCopy
<1>3. Len(copy) \in Nat /\ DOMAIN copy = 1..Len(copy)
      /\ \A i \in 1..Len(copy) : copy[i] \in Entry(PageSet(v))
  BY <1>2, EntryParts
<1>4. \A x \in Entry(PageSet(v)) : [x EXCEPT !.angle = @ + angle] \in Entry(PageSet(v)) /\ [x EXCEPT !.angle = @ + angle].id = x.id
  BY DEF Entry
<1>5. pages \in [1..Len(copy) -> Entry(PageSet(v))] /\ \A i \in 1..Len(copy) : pages[i].id = copy[i].id
  BY <1>3, <1>4, <1>p
<1>6. pages \in Seq(Entry(PageSet(v))) /\ Len(pages) = Len(copy) /\ DOMAIN pages = 1..Len(copy)
  BY <1>3, <1>5, SeqFunction
<1>7. pages # <<>>
  BY <1>2, <1>6, EmptySeq
<1>8. IdsOf(pages) = IdsOf(copy)
  BY <1>3, <1>5, <1>6 DEF IdsOf
<1>9. Pairwise(pages, Distinct) /\ {x.id : x \in Range(pages)} = PageSet(v) \ deleted[v]
  BY <1>2, <1>6, <1>8, IdsOfCopy
<1>10. v \notin mixed => Pairwise(pages, Before)
  <2>1. \A i \in 1..Len(copy) : pages[i] \in Entry(AnyPage)
    BY <1>2, <1>5 DEF Entry
  <2> SUFFICES ASSUME v \notin mixed, NEW i \in 1..Len(copy), NEW j \in 1..Len(copy), i < j
               PROVE  <<pages[i], pages[j]>> \in Before
    BY <1>6 DEF Pairwise
  <2>2. <<copy[i], copy[j]>> \in Before
    BY <1>2, <1>3 DEF Pairwise
  <2>3. pages[i].id = copy[i].id /\ pages[j].id = copy[j].id
    BY <1>5
  <2> QED BY <2>1, <2>2, <2>3 DEF Before
<1> QED BY <1>1, <1>2, <1>6, <1>7, <1>9, <1>10, CopyEdited

LEMMA PagesDeletedInv ==
    ASSUME ViewerInv, NEW side \in Panes, PagesDeleted(side)
    PROVE  ViewerInv'
<1> USE DEF ViewerInv
<1>v. PICK v : v = CurrentDocVer(side)
  OBVIOUS
<1>c. PICK copy : copy = docVers[v]
  OBVIOUS
<1>g. PICK gone : gone = Range(SelectedPages(side))
  OBVIOUS
<1>p. PICK pages : pages = Filtered(copy, Range(copy) \ gone)
  OBVIOUS
<1>1. /\ ViewerDisplayed(side) /\ docVers' = [docVers EXCEPT ![v] = pages] /\ ~AllSelected(side)
      /\ deleted' = [deleted EXCEPT ![v] = @ \cup {p.id : p \in gone}]
      /\ picked' = [picked EXCEPT ![side] = {}]
      /\ UNCHANGED <<server, viewers, lastVersion, latest, pageCalls, images, mixed, drag>>
  BY <1>v, <1>c, <1>g, <1>p DEF PagesDeleted, EditCopy
<1>2. /\ v \in DOMAIN docVers /\ v \in DOMAIN content /\ PageSet(v) \subseteq AnyPage /\ Known(side)
      /\ copy \in Seq(Entry(PageSet(v))) /\ copy # <<>> /\ Pairwise(copy, Distinct)
      /\ {x.id : x \in Range(copy)} = PageSet(v) \ deleted[v]
      /\ v \notin mixed => Pairwise(copy, Before)
      /\ \A p \in deleted[v] : Has(p)
      /\ DOMAIN picked = Panes /\ \A s \in Panes : \A p \in picked[s] : Has(p)
      /\ DOMAIN deleted = DOMAIN docVers
  BY <1>1, <1>v, <1>c, ShownCopy
<1>3. gone = {x \in Range(copy) : x.id \in picked[side]} /\ \A x \in gone : Has(x.id)
  BY <1>2, <1>v, <1>c, <1>g, SelectedShown
<1>4. pages \in Seq(Entry(PageSet(v))) /\ Range(pages) = Range(copy) \cap (Range(copy) \ gone)
      /\ Pairwise(pages, Distinct) /\ (v \notin mixed => Pairwise(pages, Before))
  BY <1>2, <1>p, FilteredElements, FilteredPairwise
<1>5. Range(pages) # {}
  <2> SUFFICES ASSUME Range(copy) \subseteq gone PROVE FALSE
    BY <1>4
  <2>1. SelectedPages(side) = Filtered(copy, {x \in Range(copy) : x.id \in picked[side]})
    BY <1>v, <1>c DEF SelectedPages
  <2>2. Len(SelectedPages(side)) = Len(copy)
    <3>1. Range(copy) \subseteq {x \in Range(copy) : x.id \in picked[side]}
      BY <1>3
    <3> QED BY <1>2, <2>1, <3>1, FilteredWhole
  <2> QED BY <1>1, <2>2, <1>v, <1>c DEF AllSelected
<1>6. pages # <<>>
  BY <1>5, NotEmpty
<1>7. \A x, y \in Range(copy) : x.id = y.id => x = y
  <2>1. DOMAIN copy = 1..Len(copy) /\ Len(copy) \in Nat
    BY <1>2, EntryParts
  <2>2. \A i, j \in 1..Len(copy) : i < j => copy[i].id # copy[j].id
    BY <1>2, <2>1 DEF Pairwise, Distinct
  <2>3. \A i, j \in 1..Len(copy) : copy[i].id = copy[j].id => i = j
    BY <2>1, <2>2
  <2> QED BY <2>1, <2>3 DEF Range
<1>8. deleted'[v] = deleted[v] \cup {x.id : x \in gone} /\ DOMAIN deleted' = DOMAIN deleted
      /\ \A w \in DOMAIN docVers : w # v => deleted'[w] = deleted[w]
  BY <1>1, <1>2
<1>9. {x.id : x \in Range(pages)} = PageSet(v) \ deleted'[v]
  <2>1. {x.id : x \in Range(pages)} = {x.id : x \in Range(copy)} \ {x.id : x \in gone}
    BY <1>3, <1>4, <1>7
  <2> QED BY <1>2, <1>8, <2>1
<1>10. \A p \in deleted'[v] : Has(p)
  BY <1>2, <1>3, <1>8
<1>11. DOMAIN picked' = Panes /\ \A s \in Panes : \A p \in picked'[s] : Has(p)
  BY <1>1, <1>2
<1> QED BY <1>1, <1>2, <1>4, <1>6, <1>8, <1>9, <1>10, <1>11, CopyEdited

\* pages with thumbnails are moved before or after one with a thumbnail, over pages with thumbnails
LEMMA PagesDroppedInv ==
    ASSUME ViewerInv, NEW side \in Panes, NEW target \in Range(Thumbnails(side)), NEW position,
           PagesDroppedInDoc(side, target, position)
    PROVE  ViewerInv'
<1> USE DEF ViewerInv
<1>v. PICK v : v = CurrentDocVer(side)
  OBVIOUS
<1>c. PICK copy : copy = docVers[v]
  OBVIOUS
<1>s. PICK sources : sources = Range(drag)
  OBVIOUS
<1>p. PICK pages : pages = Reorder(copy, sources, target, position)
  OBVIOUS
<1>1. /\ docVers' = [docVers EXCEPT ![v] = pages] /\ drag' = <<>>
      /\ UNCHANGED <<server, viewers, lastVersion, latest, pageCalls, images, mixed, picked, deleted>>
  BY <1>v, <1>c, <1>s, <1>p DEF PagesDroppedInDoc, EditCopy
<1>2. ViewerDisplayed(side) /\ Has(target) /\ target \in Range(IdsOf(copy))
  BY <1>v, <1>c, ThumbnailShown
<1>3. /\ v \in DOMAIN docVers /\ v \in DOMAIN content /\ PageSet(v) \subseteq AnyPage
      /\ copy \in Seq(Entry(PageSet(v))) /\ copy # <<>> /\ Pairwise(copy, Distinct)
      /\ {x.id : x \in Range(copy)} = PageSet(v) \ deleted[v]
      /\ v \notin mixed => Pairwise(copy, Before)
      /\ \A p \in deleted[v] : Has(p)
      /\ DOMAIN picked = Panes /\ \A s \in Panes : \A p \in picked[s] : Has(p)
  BY <1>2, <1>v, <1>c, ShownCopy
<1>4. \E i \in DOMAIN copy : copy[i].id = target
  BY <1>2 DEF IdsOf, Range
<1>5. \A p \in sources : Has(p)
  BY <1>s DEF ShownOK
<1>6. PICK T : T = Entry(PageSet(v))
  OBVIOUS
<1>7. /\ pages \in Seq(T) /\ Range(pages) = Range(copy)
      /\ \A R : /\ Pairwise(copy, R)
                /\ \A t, m, x \in Range(copy) :
                      t.id = target /\ m.id \in sources /\ x.id \notin sources =>
                         /\ <<x, t>> \in R => <<x, m>> \in R
                         /\ <<x, m>> \in R => <<m, x>> \in R
                         /\ x = t => <<x, m>> \in R
                => Pairwise(pages, R)
  BY <1>3, <1>4, <1>6, <1>p, ReorderKeeps
<1>8. \A x \in Range(copy) : x \in Entry(AnyPage) /\ x.id \in PageSet(v)
  BY <1>3, EntryParts DEF Entry
<1>9. Pairwise(pages, Distinct)
  <2>1. \A t, m, x \in Range(copy) :
           t.id = target /\ m.id \in sources /\ x.id \notin sources =>
              /\ <<x, t>> \in Distinct => <<x, m>> \in Distinct
              /\ <<x, m>> \in Distinct => <<m, x>> \in Distinct
              /\ x = t => <<x, m>> \in Distinct
    BY <1>8 DEF Distinct
  <2> QED BY <1>3, <1>7, <2>1
<1>10. ASSUME v \notin mixed PROVE Pairwise(pages, Before)
  <2>1. \A p, q \in PageSet(v) : Has(q) /\ Number(p) < Number(q) => Has(p)
    BY <1>3, <1>10 DEF HoleFree
  <2>2. ASSUME NEW t \in Range(copy), NEW m \in Range(copy), NEW x \in Range(copy),
               t.id = target, m.id \in sources
        PROVE  /\ <<x, t>> \in Before => <<x, m>> \in Before
               /\ <<x, m>> \in Before => <<m, x>> \in Before
               /\ x = t => <<x, m>> \in Before
    <3>1. Has(m.id) /\ Has(t.id)
      BY <1>2, <1>5, <2>2
    <3>2. <<x, t>> \in Before \/ <<x, m>> \in Before \/ x = t => Has(x.id)
      BY <1>8, <2>1, <3>1 DEF Before
    <3>3. Has(x.id) => <<x, m>> \in Before /\ <<m, x>> \in Before
      BY <1>8, <3>1 DEF Before
    <3> QED BY <3>2, <3>3
  <2> QED BY <1>3, <1>7, <1>10, <2>2
<1>11. pages # <<>>
  <2>1. Range(copy) # {}
    BY <1>4 DEF Range
  <2> QED BY <1>7, <2>1, NotEmpty
<1> QED BY <1>1, <1>3, <1>6, <1>7, <1>9, <1>10, <1>11, CopyEdited

-----------------------------------------------------------------------------
(* Drawing batches of pictures *)

LEMMA MinOfTwo ==
    ASSUME NEW a \in Int, NEW b \in Int
    PROVE  Min({a, b}) \in Int /\ Min({a, b}) <= a /\ Min({a, b}) <= b
<1>1. \E x \in {a, b} : \A y \in {a, b} : x <= y
  <2>1. CASE a <= b
    BY <2>1
  <2>2. CASE ~(a <= b)
    BY <2>2
  <2> QED BY <2>1, <2>2
<1> QED BY <1>1 DEF Min

\* as many of the pages that are left as there are thumbnails, from the first on, have thumbnails
LEMMA ThumbnailsFirst ==
    ASSUME ViewerInv, NEW v \in DOMAIN docVers \ mixed,
           NEW i \in 1..Len(SortedPages(v)), i <= Len(ListedPages(v, "sm"))
    PROVE  Has(SortedPages(v)[i])
<1> USE DEF ViewerInv
<1> DEFINE Different == {r \in AnyPage \X AnyPage : r[1] # r[2]}
<1>h. PICK S : S = {p \in DOMAIN pictures : HasPicture(p, "sm")}
  OBVIOUS
<1>s. PICK sorted : sorted = SortedPages(v)
  OBVIOUS
<1>i. PICK ids : ids = IdsOf(docVers[v])
  OBVIOUS
<1>l. PICK listed : listed = ListedPages(v, "sm")
  OBVIOUS
<1>1. v \in DOMAIN content /\ PageSet(v) \subseteq AnyPage
  BY PagesOfVersion DEF CopiesOK
<1>2. /\ sorted \in Seq(PageSet(v)) /\ Range(sorted) = PageSet(v) \ deleted[v] /\ Pairwise(sorted, ByNumber)
      /\ ids \in Seq(PageSet(v)) /\ Range(ids) = PageSet(v) \ deleted[v] /\ IsInjective(ids)
  BY <1>s, <1>i, SortedPagesLeft
<1>3. \A p : p \in S <=> Has(p)
  BY <1>h DEF Has, HasPicture
<1>4. listed = Filtered(ids, S)
  BY <1>h, <1>i, <1>l DEF ListedPages
<1>5. Pairwise(ids, Different)
  <2>1. DOMAIN ids = 1..Len(ids) /\ \A h \in 1..Len(ids) : ids[h] \in AnyPage
    BY <1>1, <1>2, LenProperties, ElementOfSeq
  <2>2. \A h, k \in 1..Len(ids) : h < k => ids[h] # ids[k]
    <3>1. Len(ids) \in Nat
      BY <1>2, LenProperties
    <3> QED BY <1>2, <2>1, <3>1 DEF IsInjective
  <2> QED BY <2>1, <2>2 DEF Pairwise
<1> HIDE DEF Different
<1>6. listed \in Seq(PageSet(v)) /\ Range(listed) = Range(ids) \cap S /\ Pairwise(listed, Different)
  BY <1>2, <1>4, <1>5, FilteredElements, FilteredPairwise
<1>7. IsInjective(listed)
  <2>1. Len(listed) \in Nat /\ DOMAIN listed = 1..Len(listed)
    BY <1>6, LenProperties
  <2>2. \A h, k \in 1..Len(listed) : h < k => listed[h] # listed[k]
    BY <1>6, <2>1 DEF Pairwise, Different
  <2> QED BY <2>1, <2>2 DEF IsInjective
<1>8. PICK have : have = Filtered(sorted, S)
  OBVIOUS
<1>9. have \in Seq(PageSet(v)) /\ Range(have) = Range(sorted) \cap S /\ Pairwise(have, ByNumber) /\ Len(have) = Taken(sorted, S)
  BY <1>2, <1>8, FilteredElements, FilteredPairwise
<1>10. IsInjective(have)
  BY <1>9, LenProperties, ByNumberInjective
<1>11. Len(listed) = Taken(sorted, S)
  <2>1. Range(listed) = Range(have)
    BY <1>2, <1>6, <1>9
  <2> QED BY <1>6, <1>7, <1>9, <1>10, <2>1, InjectiveLen
<1>12. PICK n : n = Len(sorted)
  OBVIOUS
<1>13. n \in Nat /\ DOMAIN sorted = 1..n /\ \A k \in 1..n : sorted[k] \in PageSet(v)
  BY <1>2, <1>12, LenProperties, ElementOfSeq
<1> SUFFICES ASSUME ~Has(sorted[i]) PROVE FALSE
  BY <1>s
<1>14. i \in 1..n /\ i <= Len(listed)
  BY <1>s, <1>12, <1>l
<1>15. \A k \in 1..n : Has(sorted[k]) => k < i
  <2> SUFFICES ASSUME NEW k \in 1..n, Has(sorted[k]), i < k PROVE FALSE
    BY <1>13, <1>14
  <2>1. <<sorted[i], sorted[k]>> \in ByNumber
    BY <1>2, <1>13, <1>14 DEF Pairwise
  <2>2. Number(sorted[i]) < Number(sorted[k])
    BY <2>1 DEF ByNumber
  <2> QED BY <1>13, <1>14, <2>2 DEF HoleFree
<1>16. PICK D : D = {k \in DOMAIN sorted : sorted[k] \in S}
  OBVIOUS
<1>17. D \in SUBSET (1..(i - 1))
  BY <1>3, <1>13, <1>14, <1>15, <1>16
<1>18. IsFiniteSet(1..(i - 1)) /\ Cardinality(1..(i - 1)) = i - 1
  BY <1>13, <1>14, FS_Interval
<1>19. Cardinality(D) <= i - 1
  BY <1>17, <1>18, FS_Subset
<1>20. Len(listed) = Cardinality(D) /\ Len(listed) \in Nat
  BY <1>6, <1>11, <1>16, LenProperties DEF Taken
<1> QED BY <1>13, <1>14, <1>19, <1>20

\* a batch leaves no hole when the pages before it have pictures
LEMMA StartDrawingInv ==
    ASSUME ViewerInv, NEW v \in DOMAIN docVers, NEW size \in Sizes, NEW batch \in Nat \ {0}, NEW count \in Nat, NEW marked,
           StartDrawing(v, size, batch, count, marked),
           NEW first \in Nat, first = (IF count > 0 THEN count ELSE (batch - 1) * BatchSize[size]),
           size = "sm" /\ v \notin mixed =>
              \A i \in 1..Len(SortedPages(v)) : i <= first => Has(SortedPages(v)[i])
    PROVE  ViewerInv'
<1> USE DEF ViewerInv
<1>s. PICK sorted : sorted = SortedPages(v)
  OBVIOUS
<1>l. PICK last : last = Min({first + BatchSize[size], Len(docVers[v])})
  OBVIOUS
<1>j. PICK j : j = [ver |-> v, size |-> size, batch |-> batch, marked |-> marked, pages |-> SubSeq(sorted, first + 1, last)]
  OBVIOUS
<1>1. /\ drawing' = drawing \cup {j}
      /\ UNCHANGED <<server, screen, copies, latest, pageCalls, pictures, pdf, batchNo, mixed>>
  BY <1>s, <1>l, <1>j DEF StartDrawing
<1>2. v \in DOMAIN content
  BY DEF CopiesOK
<1>3. /\ sorted \in Seq(PageSet(v)) /\ Range(sorted) = PageSet(v) \ deleted[v]
      /\ Pairwise(sorted, ByNumber) /\ Len(sorted) = Len(docVers[v])
  BY <1>s, SortedPagesLeft
<1>4. PICK n : n = Len(sorted)
  OBVIOUS
<1>5. n \in Nat /\ DOMAIN sorted = 1..n /\ \A i \in 1..n : sorted[i] \in PageSet(v)
  BY <1>3, <1>4, LenProperties, ElementOfSeq
<1>6. last \in Int /\ last <= n
  <2>1. first + BatchSize[size] \in Int /\ Len(docVers[v]) \in Int
    BY <1>3, <1>4, <1>5, DocViewerAssumption
  <2> QED BY <1>3, <1>4, <1>l, <2>1, MinOfTwo
<1>7. Range(SubSeq(sorted, first + 1, last)) = {sorted[i] : i \in (first + 1)..last}
  <2>1. PICK from : from = first + 1
    OBVIOUS
  <2>2. from \in Nat \ {0} /\ last <= Len(sorted)
    BY <1>4, <1>6, <2>1
  <2>3. Range(SubSeq(sorted, from, last)) = {sorted[i] : i \in from..last}
    BY <1>3, <1>6, <2>2, SubSeqElements
  <2> QED BY <2>1, <2>3
<1>8. j.ver = v /\ j.size = size /\ j.batch = batch /\ Range(j.pages) = {sorted[i] : i \in (first + 1)..last}
  BY <1>7, <1>j
<1>9. \A i \in (first + 1)..last : i \in 1..n /\ first < i
  BY <1>5, <1>6
<1>10. Range(j.pages) \subseteq PageSet(v)
  BY <1>5, <1>8, <1>9
<1>11. ASSUME size = "sm", v \notin mixed, NEW q \in Range(j.pages), NEW p \in PageSet(v), Number(p) < Number(q)
       PROVE  Has(p) \/ p \in Range(j.pages)
  <2>1. PICK i \in (first + 1)..last : q = sorted[i]
    BY <1>8
  <2>2. CASE p \in deleted[v]
    BY <2>2 DEF ShownOK
  <2>3. CASE p \notin deleted[v]
    <3>1. PICK h \in 1..n : p = sorted[h]
      BY <1>3, <1>5, <2>3 DEF Range
    <3>2. i \in 1..n
      BY <1>9
    <3>3. Number(p) \in Nat /\ Number(q) \in Nat
      <4>1. p \in PageSet(v) /\ q \in PageSet(v)
        BY <1>10
      <4>2. Number(p) \in 1..Len(content[v]) /\ Number(q) \in 1..Len(content[v])
        BY <1>2, <4>1, PagesOfVersion
      <4> QED BY <4>2
    <3>4. i < h => <<q, p>> \in ByNumber
      BY <1>3, <1>5, <2>1, <3>1, <3>2 DEF Pairwise
    <3>5. ~(i < h)
      BY <1>11, <3>3, <3>4 DEF ByNumber
    <3>6. h <= i
      BY <3>2, <3>5
    <3>7. h <= first => Has(p)
      BY <1>11, <1>s, <1>4, <3>1
    <3>8. ~(h <= first) => h \in (first + 1)..last
      BY <1>6, <2>1, <3>6
    <3> QED BY <1>8, <3>1, <3>7, <3>8
  <2> QED BY <2>2, <2>3
<1>12. \A q : Has(q)' <=> Has(q)
  BY <1>1 DEF Has, HasPicture
<1>13. \A w : PageSet(w)' = PageSet(w)
  BY <1>1 DEF PageSet, PageIds, server
<1>14. DrawingOK'
  <2>1. ASSUME NEW k \in drawing'
        PROVE  /\ k.ver \in DOMAIN docVers /\ k.size \in Sizes /\ k.batch \in Nat \ {0}
               /\ Range(k.pages) \subseteq PageSet(k.ver)
               /\ k.size = "sm" /\ k.ver \notin mixed =>
                     \A q \in Range(k.pages) : \A p \in PageSet(k.ver) :
                        Number(p) < Number(q) => Has(p) \/ p \in Range(k.pages)
    <3>1. CASE k \in drawing
      BY <3>1 DEF DrawingOK
    <3>2. CASE k = j
      BY <1>8, <1>10, <1>11, <3>2
    <3> QED BY <1>1, <3>1, <3>2
  <2> QED BY <1>1, <1>12, <1>13, <2>1 DEF DrawingOK, copies
<1>15. ShownOK'
  BY <1>1, <1>12, <1>13 DEF ShownOK, screen, copies
<1> QED BY <1>1, <1>14, <1>15, OnlyPickedOrDrawn DEF screen

LEMMA FirstOfBatch ==
    ASSUME NEW size \in Sizes, NEW batch \in Nat \ {0}
    PROVE  (batch - 1) * BatchSize[size] \in Nat
<1>1. batch - 1 \in Nat /\ BatchSize[size] \in Nat
  BY DocViewerAssumption
<1> QED BY <1>1

LEMMA NextBatchType ==
    ASSUME ViewerInv, NEW v, NEW size
    PROVE  NextBatch(v, size) \in Nat \ {0}
<1>1. PICK k : k = <<v, size>>
  OBVIOUS
<1>2. NextBatch(v, size) = IF k \in DOMAIN batchNo THEN batchNo[k] + 1 ELSE 2
  BY <1>1 DEF NextBatch
<1>3. k \in DOMAIN batchNo => batchNo[k] \in Nat \ {0}
  BY DEF ViewerInv, DrawingOK
<1> QED BY <1>2, <1>3

LEMMA GenerateFirstPreviewsInv ==
    ASSUME ViewerInv, NEW side \in Panes, GenerateFirstPreviews(side)
    PROVE  ViewerInv'
<1>1. PICK v : v = CurrentDocVer(side)
  OBVIOUS
<1>2. v \in DOMAIN docVers /\ StartDrawing(v, "md", 1, 0, FALSE)
  BY <1>1, CurrentVersion DEF GenerateFirstPreviews, ViewerInv
<1>3. "md" \in Sizes /\ 1 \in Nat \ {0} /\ 0 \in Nat
  BY DEF Sizes
<1>4. PICK first : first = (IF 0 > 0 THEN 0 ELSE (1 - 1) * BatchSize["md"])
  OBVIOUS
<1>5. first \in Nat
  BY <1>3, <1>4, FirstOfBatch
<1> QED BY <1>2, <1>3, <1>4, <1>5, StartDrawingInv

LEMMA FirstThumbnailsInv ==
    ASSUME ViewerInv, NEW side \in Panes, FirstThumbnails(side)
    PROVE  ViewerInv'
<1>1. PICK v : v = CurrentDocVer(side)
  OBVIOUS
<1>2. v \in DOMAIN docVers /\ StartDrawing(v, "sm", 1, 0, TRUE)
  BY <1>1, CurrentVersion DEF FirstThumbnails, ViewerDisplayed, ViewerInv
<1>3. "sm" \in Sizes /\ 1 \in Nat \ {0} /\ 0 \in Nat
  BY DEF Sizes
<1>4. PICK first : first = (IF 0 > 0 THEN 0 ELSE (1 - 1) * BatchSize["sm"])
  OBVIOUS
<1>5. first = 0
  <2>1. BatchSize["sm"] \in Nat
    BY <1>3, DocViewerAssumption
  <2> QED BY <1>4, <2>1
<1>6. \A i \in 1..Len(SortedPages(v)) : i <= first => Has(SortedPages(v)[i])
  BY <1>5
<1> QED BY <1>2, <1>3, <1>4, <1>5, <1>6, StartDrawingInv

LEMMA MorePagesInv ==
    ASSUME ViewerInv, NEW side \in Panes, MorePages(side)
    PROVE  ViewerInv'
<1>1. PICK v : v = CurrentDocVer(side)
  OBVIOUS
<1>2. PICK batch : batch = NextBatch(v, "md")
  OBVIOUS
<1>3. v \in DOMAIN docVers /\ StartDrawing(v, "md", batch, 0, TRUE)
  BY <1>1, <1>2, CurrentVersion DEF MorePages, ViewerDisplayed, ViewerInv
<1>4. batch \in Nat \ {0}
  BY <1>2, NextBatchType
<1>5. "md" \in Sizes /\ (batch - 1) * BatchSize["md"] \in Nat
  BY <1>4, FirstOfBatch DEF Sizes
<1> QED BY <1>3, <1>4, <1>5, StartDrawingInv

LEMMA MoreThumbnailsInv ==
    ASSUME ViewerInv, NEW side \in Panes, MoreThumbnails(side)
    PROVE  ViewerInv'
<1>1. PICK v : v = CurrentDocVer(side)
  OBVIOUS
<1>2. PICK batch, count : batch = NextBatch(v, "sm") /\ count = Len(ListedPages(v, "sm"))
  OBVIOUS
<1>3. v \in DOMAIN docVers /\ StartDrawing(v, "sm", batch, count, TRUE) /\ ListedPages(v, "sm") # <<>>
  BY <1>1, <1>2, CurrentVersion DEF MoreThumbnails, ScrolledToLast, Thumbnails, ViewerDisplayed, ViewerInv
<1>4. batch \in Nat \ {0}
  BY <1>2, NextBatchType
<1>5. count \in Nat /\ count > 0
  <2>1. IdsOf(docVers[v]) \in Seq(PageSet(v))
    BY <1>3, SortedPagesLeft DEF ViewerInv
  <2>2. ListedPages(v, "sm") \in Seq(PageSet(v))
    BY <2>1, FilteredElements DEF ListedPages
  <2> QED BY <1>2, <1>3, <2>2, EmptySeq
<1>6. ASSUME v \notin mixed, NEW i \in 1..Len(SortedPages(v)), i <= count PROVE Has(SortedPages(v)[i])
  BY <1>2, <1>3, <1>6, ThumbnailsFirst
<1> QED BY <1>3, <1>4, <1>5, <1>6, StartDrawingInv DEF Sizes

-----------------------------------------------------------------------------
(* Answers: versions loaded, pictures drawn and carried *)

\* the versions that are there stay as they are, a new one has its initial pages
Loads ==
    /\ DOMAIN docVers \subseteq DOMAIN docVers' /\ DOMAIN docVers' \subseteq DOMAIN content
    /\ DOMAIN deleted' = DOMAIN docVers'
    /\ \A v \in DOMAIN docVers' :
          IF v \in DOMAIN docVers THEN docVers'[v] = docVers[v] /\ deleted'[v] = deleted[v]
          ELSE docVers'[v] = InitialPages(v) /\ deleted'[v] = {}

LEMMA LoadedInv ==
    ASSUME ViewerInv, Loads, UNCHANGED <<server, drag>>, mixed \subseteq mixed', mixed' \subseteq DOMAIN content,
           pdf' = NoVersion \/ pdf' \in DOMAIN content,
           \A p : Has(p) => Has(p)',
           DOMAIN picked' = Panes, \A side \in Panes : picked'[side] \subseteq picked[side],
           drawing' \subseteq drawing, \A k \in DOMAIN batchNo' : batchNo'[k] \in Nat \ {0},
           lastVersion' \in [Docs -> Nat], \A d \in Docs : lastVersion[d] # 0 => lastVersion'[d] # 0
    PROVE  /\ ServerOK' /\ PagesKept' /\ ShownOK' /\ DrawingOK' /\ OrderOK'
           /\ \A v \in DOMAIN docVers' : docVers'[v] \in Seq(Entry(PageSet(v)'))
           /\ \A c \in pageCalls : NewVersions(c) \cap DOMAIN docVers' = {} => CallOK(c)'
<1> USE DEF ViewerInv, server
<1>1. /\ \A v : PageIds(v)' = PageIds(v) /\ PageSet(v)' = PageSet(v)
      /\ \A p : ContentOf(p)' = ContentOf(p)
  BY DEF PageIds, PageSet, ContentOf
<1>2. ServerOK'
  BY DEF ServerOK
<1>3. ASSUME NEW v \in DOMAIN docVers', v \notin DOMAIN docVers
      PROVE  /\ v \in DOMAIN content /\ docVers'[v] = InitialPages(v) /\ deleted'[v] = {}
             /\ InitialPages(v) \in Seq(Entry(PageSet(v))) /\ IdsOf(InitialPages(v)) = PageIds(v)
             /\ PageIds(v) # <<>> /\ IsInjective(PageIds(v)) /\ Pairwise(InitialPages(v), Before)
  BY <1>3, InitialCopy DEF Loads
<1>4. ASSUME NEW v \in DOMAIN docVers
      PROVE  v \in DOMAIN docVers' /\ docVers'[v] = docVers[v] /\ deleted'[v] = deleted[v]
  BY DEF Loads
<1>5. PagesKept'
  <2> SUFFICES ASSUME NEW v \in DOMAIN docVers'
               PROVE  /\ IdsOf(docVers'[v]) # <<>> /\ IsInjective(IdsOf(docVers'[v]))
                      /\ Range(IdsOf(docVers'[v])) = Range(PageIds(v)) \ deleted'[v]
    BY <1>1 DEF PagesKept, IdsOf
  <2>1. CASE v \in DOMAIN docVers
    BY <1>4, <2>1 DEF PagesKept
  <2>2. CASE v \notin DOMAIN docVers
    BY <1>3, <2>2
  <2> QED BY <2>1, <2>2
<1>6. ASSUME NEW p, Has(p) PROVE Has(p)'
  BY <1>6
<1>7. ShownOK'
  <2>1. \A v \in DOMAIN docVers' : \A p \in deleted'[v] : Has(p)
    BY <1>3, <1>4 DEF ShownOK
  <2>2. \A side \in Panes : \A p \in picked'[side] : Has(p)
    BY DEF ShownOK
  <2>3. \A p \in Range(drag) : Has(p) /\ VersionOf(p) = VersionOf(Head(drag))
                               /\ VersionOf(p) \in DOMAIN docVers' /\ p \in PageSet(VersionOf(p))
    BY <1>4 DEF ShownOK
  <2> QED BY <1>1, <1>6, <2>1, <2>2, <2>3 DEF ShownOK
<1>8. DrawingOK'
  BY <1>1, <1>4, <1>6 DEF DrawingOK
<1>9. Before \subseteq Before'
  BY <1>6 DEF Before
<1>10. ASSUME NEW v \in DOMAIN docVers' \ mixed' PROVE Pairwise(docVers'[v], Before')
  <2>1. Pairwise(docVers'[v], Before)
    <3>1. CASE v \in DOMAIN docVers
      BY <1>4, <3>1 DEF OrderOK
    <3>2. CASE v \notin DOMAIN docVers
      BY <1>3, <3>2
    <3> QED BY <3>1, <3>2
  <2> QED BY <1>9, <2>1 DEF Pairwise
<1>11. OrderOK'
  BY <1>10 DEF OrderOK, Pairwise
<1>12. \A v \in DOMAIN docVers' : docVers'[v] \in Seq(Entry(PageSet(v)'))
  BY <1>1, <1>3, <1>4 DEF CopiesOK
<1>13. ASSUME NEW c \in pageCalls, NewVersions(c) \cap DOMAIN docVers' = {} PROVE CallOK(c)'
  <2>1. CallOK(c)
    BY DEF CallsOK
  <2>2. \A v \in NewVersions(c) : v \in DOMAIN content /\ v[1] \in Docs /\ lastVersion[v[1]] # 0
    BY <2>1, VersionParts DEF CallOK
  <2>3. ASSUME Carries(c) PROVE Carries(c)'
    <3>1. PICK v \in DOMAIN docVers :
        /\ c.srcOf \in Seq(Entry(PageSet(v))) /\ Len(c.srcOf) = Len(content[c.src])
        /\ \A i \in 1..Len(c.srcOf) : content[c.src][i] = Turned(ContentOf(c.srcOf[i].id), c.srcOf[i].angle)
        /\ v \notin mixed => Pairwise(c.srcOf, Before)
      BY <2>3 DEF Carries
    <3>2. v \notin mixed' => Pairwise(c.srcOf, Before')
      BY <1>9, <3>1 DEF Pairwise
    <3> SUFFICES /\ v \in DOMAIN docVers' /\ c.srcOf \in Seq(Entry(PageSet(v)')) /\ Len(c.srcOf) = Len(content'[c.src])
                 /\ \A i \in 1..Len(c.srcOf) : content'[c.src][i] = Turned(ContentOf(c.srcOf[i].id)', c.srcOf[i].angle)
                 /\ v \notin mixed' => Pairwise(c.srcOf, Before')
      BY DEF Carries
    <3> QED BY <1>1, <1>4, <3>1, <3>2
  <2> QED BY <1>13, <2>1, <2>2, <2>3 DEF CallOK, NewVersions
<1> QED BY <1>2, <1>5, <1>7, <1>8, <1>11, <1>12, <1>13

\* a version that is loaded late is of a document with no call under way
LEMMA GetDocLastVersionInv ==
    ASSUME ViewerInv, NEW d \in Docs, GetDocLastVersion(d)
    PROVE  ViewerInv'
<1> USE DEF ViewerInv
<1>v. PICK v : v = <<d, head[d]>>
  OBVIOUS
<1>1. /\ lastVersion[d] = 0 /\ head[d] # 0 /\ lastVersion' = [lastVersion EXCEPT ![d] = head[d]]
      /\ docVers' = AddOne(docVers, v, InitialPages(v)) /\ deleted' = AddOne(deleted, v, {})
      /\ latest' = [latest EXCEPT ![d] = head[d]]
      /\ UNCHANGED <<server, viewers, picked, drag, pageCalls, images, mixed, budget>>
  BY <1>v DEF GetDocLastVersion
<1>2. v \in DOMAIN content /\ v[1] = d
  BY <1>1, <1>v DEF ServerOK
<1>3. v \notin DOMAIN docVers /\ v \notin DOMAIN deleted
  BY <1>1, <1>2 DEF CopiesOK
<1>4. /\ DOMAIN docVers' = DOMAIN docVers \cup {v} /\ docVers'[v] = InitialPages(v)
      /\ \A w \in DOMAIN docVers : docVers'[w] = docVers[w]
      /\ DOMAIN deleted' = DOMAIN docVers \cup {v} /\ deleted'[v] = {}
      /\ \A w \in DOMAIN docVers : deleted'[w] = deleted[w]
  BY <1>1, <1>3 DEF AddOne, Put, CopiesOK
<1>5. Loads
  BY <1>2, <1>3, <1>4 DEF Loads, CopiesOK
<1>6. \A p : Has(p)' <=> Has(p)
  BY <1>1 DEF Has, HasPicture, images
<1>7. /\ lastVersion' \in [Docs -> Nat] /\ latest' \in [Docs -> Nat] /\ lastVersion'[d] = head[d] /\ latest'[d] = head[d]
      /\ \A e \in Docs : e # d => lastVersion'[e] = lastVersion[e] /\ latest'[e] = latest[e]
  BY <1>1 DEF CopiesOK, ServerOK
<1>8. /\ ServerOK' /\ PagesKept' /\ ShownOK' /\ DrawingOK' /\ OrderOK'
      /\ \A w \in DOMAIN docVers' : docVers'[w] \in Seq(Entry(PageSet(w)'))
      /\ \A c \in pageCalls : NewVersions(c) \cap DOMAIN docVers' = {} => CallOK(c)'
  <2>1. /\ UNCHANGED <<server, drag>> /\ mixed \subseteq mixed' /\ mixed' \subseteq DOMAIN content
        /\ pdf' = NoVersion \/ pdf' \in DOMAIN content
        /\ drawing' \subseteq drawing /\ \A k \in DOMAIN batchNo' : batchNo'[k] \in Nat \ {0}
    BY <1>1 DEF images, ServerOK, DrawingOK
  <2>2. DOMAIN picked' = Panes /\ \A side \in Panes : picked'[side] \subseteq picked[side]
    BY <1>1 DEF ShownOK
  <2>3. \A e \in Docs : lastVersion[e] # 0 => lastVersion'[e] # 0
    BY <1>1, <1>7
  <2>4. \A p : Has(p) => Has(p)'
    BY <1>6
  <2> QED BY <1>5, <1>7, <2>1, <2>2, <2>3, <2>4, LoadedInv
<1>9. ASSUME NEW c \in pageCalls PROVE CallOK(c)'
  <2>1. \A w \in NewVersions(c) : w \notin DOMAIN docVers /\ lastVersion[w[1]] # 0
    BY DEF CallsOK, CallOK
  <2>2. NewVersions(c) \cap DOMAIN docVers' = {}
    BY <1>1, <1>2, <1>4, <2>1
  <2> QED BY <1>8, <2>2
<1>10. CallsOK'
  BY <1>1, <1>9 DEF CallsOK, NewVersions
<1>11. ScreenOK'
  BY <1>1 DEF ScreenOK
<1>12. CopiesOK'
  <2>1. \A w \in DOMAIN docVers' : w[1] \in Docs /\ lastVersion'[w[1]] # 0
    <3>1. \A w \in DOMAIN docVers : w[1] \in Docs /\ lastVersion[w[1]] # 0
      BY VersionParts DEF CopiesOK
    <3> QED BY <1>1, <1>2, <1>4, <1>7, <3>1
  <2>2. \A e \in Docs : lastVersion'[e] # 0 => <<e, lastVersion'[e]>> \in DOMAIN docVers'
    BY <1>4, <1>7, <1>v DEF CopiesOK
  <2>3. \A e \in Docs : latest'[e] # 0 => <<e, latest'[e]>> \in DOMAIN docVers'
    BY <1>4, <1>7, <1>v DEF CopiesOK
  <2> QED BY <1>1, <1>4, <1>5, <1>7, <1>8, <2>1, <2>2, <2>3 DEF CopiesOK, Loads, server
<1>13. \A p \in DOMAIN pictures : VersionOf(p) # v
  BY <1>3 DEF PicturesOK
<1>14. \A w : PageSet(w)' = PageSet(w)
  BY <1>1 DEF PageSet, PageIds, server
<1>15. PicturesOK'
  <2>1. PicturesFollow'
    BY <1>1 DEF PicturesOK, PicturesFollow, ContentOf, images, server
  <2> QED BY <1>1, <1>4, <1>14, <2>1 DEF PicturesOK, images
<1>16. HoleFree'
  <2> SUFFICES ASSUME NEW w \in DOMAIN docVers', w \notin mixed', NEW p \in PageSet(w), NEW q \in PageSet(w),
                      Has(q), Number(p) < Number(q)
               PROVE  Has(p)
    BY <1>6, <1>14 DEF HoleFree
  <2>1. CASE w \in DOMAIN docVers
    BY <1>1, <2>1 DEF HoleFree
  <2>2. CASE w = v
    <3>1. VersionOf(q) = v
      BY <1>2, <2>2, PagesOfVersion
    <3> QED BY <1>13, <3>1 DEF Has, HasPicture
  <2> QED BY <1>4, <2>1, <2>2
<1> QED BY <1>8, <1>10, <1>11, <1>12, <1>15, <1>16

LEMMA DownloadFailsInv ==
    ASSUME ViewerInv, NEW j \in drawing, DownloadFails(j)
    PROVE  ViewerInv'
<1> USE DEF ViewerInv
<1>1. /\ drawing' = drawing \ {j}
      /\ batchNo' = IF j.marked THEN Put(batchNo, <<j.ver, j.size>>, j.batch) ELSE batchNo
      /\ UNCHANGED <<server, screen, copies, latest, pageCalls, budget, pictures, pdf, mixed>>
  BY DEF DownloadFails, EndDrawing
<1>2. \A k \in DOMAIN batchNo' : batchNo'[k] \in Nat \ {0}
  BY <1>1 DEF DrawingOK, Put
<1>3. \A p : Has(p)' <=> Has(p)
  BY <1>1 DEF Has, HasPicture
<1>4. \A w : PageSet(w)' = PageSet(w)
  BY <1>1 DEF PageSet, PageIds, server
<1>5. DrawingOK'
  BY <1>1, <1>2, <1>3, <1>4 DEF DrawingOK, copies
<1>6. ShownOK'
  BY <1>1, <1>3, <1>4 DEF ShownOK, screen, copies
<1> QED BY <1>1, <1>5, <1>6, OnlyPickedOrDrawn DEF screen

LEMMA FileForDrawing ==
    ASSUME ViewerInv, NEW j \in drawing, FileFor(j.ver)[2] # 0
    PROVE  FileFor(j.ver) \in DOMAIN content
<1>1. j.ver \in DOMAIN content
  BY DEF ViewerInv, DrawingOK, CopiesOK
<1>2. j.ver[1] \in Docs
  BY <1>1, VersionParts DEF ViewerInv
<1> QED BY <1>1, <1>2 DEF FileFor, ViewerInv, ServerOK

LEMMA DrawPreviewsInv ==
    ASSUME ViewerInv, NEW j \in drawing, DrawPreviews(j)
    PROVE  ViewerInv'
<1> USE DEF ViewerInv
<1>v. PICK v : v = j.ver
  OBVIOUS
<1>f. PICK f : f = FileFor(v)
  OBVIOUS
<1>g. PICK pages : pages = Range(j.pages)
  OBVIOUS
<1>1. /\ f[2] # 0 /\ pdf' = f /\ drawing' = drawing \ {j}
      /\ batchNo' = IF j.marked THEN Put(batchNo, <<j.ver, j.size>>, j.batch) ELSE batchNo
      /\ UNCHANGED <<server, screen, copies, latest, pageCalls, budget>>
      /\ IF \E p \in pages : Number(p) > Len(content[f])
           THEN UNCHANGED <<pictures, mixed>>
           ELSE /\ pictures' = Drawn(j, f)
                /\ mixed' = IF f = v THEN mixed ELSE mixed \cup {v}
  BY <1>v, <1>f, <1>g DEF DrawPreviews, EndDrawing
<1>2. /\ v \in DOMAIN docVers /\ v \in DOMAIN content /\ j.size \in Sizes /\ j.batch \in Nat \ {0} /\ pages \subseteq PageSet(v)
      /\ j.size = "sm" /\ v \notin mixed =>
            \A q \in pages : \A p \in PageSet(v) : Number(p) < Number(q) => Has(p) \/ p \in pages
  BY <1>v, <1>g DEF DrawingOK, CopiesOK
<1>3. f \in DOMAIN content
  BY <1>1, <1>f, <1>v, FileForDrawing
<1>4. \A k \in DOMAIN batchNo' : batchNo'[k] \in Nat \ {0}
  BY <1>1, <1>2 DEF DrawingOK, Put
<1>5. mixed \subseteq mixed' /\ mixed' \subseteq DOMAIN content
  BY <1>1, <1>2 DEF ServerOK
\* what is drawn of a page, or was there
<1>6. /\ \A p \in DOMAIN pictures : p \in DOMAIN pictures'
      /\ \A p \in DOMAIN pictures' : /\ p \in DOMAIN pictures \/ p \in pages
                                     /\ DOMAIN pictures'[p] = Sizes
      /\ \A p \in DOMAIN pictures' : \A size \in Sizes :
            \/ size = j.size /\ p \in pages /\ (f = v \/ v \in mixed') /\ pictures'[p][size] = content[f][Number(p)]
               /\ pictures'[p][size] \in Sheet
            \/ p \in DOMAIN pictures /\ pictures'[p][size] = pictures[p][size]
               /\ (size = j.size /\ p \in pages => UNCHANGED <<pictures, mixed>>)
            \/ p \notin DOMAIN pictures /\ pictures'[p][size] = NoPicture /\ size # j.size
  <2>1. CASE \E p \in pages : Number(p) > Len(content[f])
    BY <1>1, <2>1 DEF PicturesOK
  <2>2. CASE ~\E p \in pages : Number(p) > Len(content[f])
    <3>1. \A p \in pages : content[f][Number(p)] \in Sheet
      <4>1. \A p \in pages : Number(p) \in Nat \ {0}
        <5>1. \A p \in pages : Number(p) \in 1..Len(content[v])
          BY <1>2, PagesOfVersion
        <5> QED BY <5>1
      <4>2. Len(content[f]) \in Nat /\ \A i \in 1..Len(content[f]) : content[f][i] \in Sheet
        BY <1>3, VersionParts
      <4> QED BY <2>2, <4>1, <4>2
    <3> DEFINE Old(p) == IF p \in DOMAIN pictures THEN pictures[p] ELSE [md |-> NoPicture, sm |-> NoPicture]
    <3>2. pictures' = [p \in DOMAIN pictures \cup pages |->
                          IF p \in pages THEN [Old(p) EXCEPT ![j.size] = content[f][Number(p)]] ELSE Old(p)]
      BY <1>1, <1>g, <2>2 DEF Drawn
    <3>3. \A p : DOMAIN Old(p) = Sizes
      BY DEF PicturesOK, Sizes
    <3>4. \A p : p \notin DOMAIN pictures => \A size \in Sizes : Old(p)[size] = NoPicture
      BY DEF Sizes
    <3>5. \A p : p \in DOMAIN pictures => Old(p) = pictures[p]
      OBVIOUS
    <3>6. f = v \/ v \in mixed'
      BY <1>1, <2>2
    <3> HIDE DEF Old
    <3>7. DOMAIN pictures' = DOMAIN pictures \cup pages
      BY <3>2
    <3>8. \A p \in DOMAIN pictures' : DOMAIN pictures'[p] = Sizes
      BY <3>2, <3>3
    <3>9. ASSUME NEW p \in pages, NEW size \in Sizes
          PROVE  pictures'[p][size] = IF size = j.size THEN content[f][Number(p)] ELSE Old(p)[size]
      BY <3>2, <3>3
    <3>10. \A p \in DOMAIN pictures' : p \notin pages => pictures'[p] = pictures[p]
      BY <3>2, <3>5
    <3> QED BY <3>1, <3>4, <3>5, <3>6, <3>7, <3>8, <3>9, <3>10
  <2> QED BY <2>1, <2>2
<1>7. ASSUME NEW p, Has(p) PROVE Has(p)'
  <2>1. p \in DOMAIN pictures /\ pictures[p]["sm"] # NoPicture /\ "sm" \in Sizes
    BY <1>7 DEF Has, HasPicture, Sizes
  <2>2. pictures'[p]["sm"] # NoPicture /\ p \in DOMAIN pictures'
    BY <1>6, <2>1, SheetIsPicture
  <2> QED BY <2>2 DEF Has, HasPicture
<1>8. Loads
  BY <1>1 DEF Loads, CopiesOK, copies
<1>9. /\ ServerOK' /\ PagesKept' /\ ShownOK' /\ DrawingOK' /\ OrderOK'
      /\ \A w \in DOMAIN docVers' : docVers'[w] \in Seq(Entry(PageSet(w)'))
      /\ \A c \in pageCalls : NewVersions(c) \cap DOMAIN docVers' = {} => CallOK(c)'
  <2>1. UNCHANGED <<server, drag>> /\ pdf' \in DOMAIN content /\ drawing' \subseteq drawing
    BY <1>1, <1>3 DEF screen
  <2>2. DOMAIN picked' = Panes /\ \A side \in Panes : picked'[side] \subseteq picked[side]
    BY <1>1 DEF ShownOK, screen
  <2>3. lastVersion' \in [Docs -> Nat] /\ \A d \in Docs : lastVersion[d] # 0 => lastVersion'[d] # 0
    BY <1>1 DEF screen, CopiesOK
  <2>4. \A p : Has(p) => Has(p)'
    BY <1>7
  <2> QED BY <1>4, <1>5, <1>8, <2>1, <2>2, <2>3, <2>4, LoadedInv
<1>10. \A w : PageSet(w)' = PageSet(w)
  BY <1>1 DEF PageSet, PageIds, server
<1>11. CopiesOK' /\ ScreenOK'
  BY <1>1, <1>10 DEF CopiesOK, ScreenOK, copies, screen, server
<1>12. CallsOK'
  <2>1. ASSUME NEW c \in pageCalls PROVE CallOK(c)'
    <3>1. NewVersions(c) \cap DOMAIN docVers' = {}
      BY <1>1 DEF CallsOK, CallOK, copies
    <3> QED BY <1>9, <3>1
  <2> QED BY <1>1, <2>1 DEF CallsOK, NewVersions
<1>13. \A p \in pages : VersionOf(p) = v /\ p \in PageSet(v) /\ ContentOf(p) = content[v][Number(p)]
  BY <1>2, PagesOfVersion
<1>14. PicturesOK'
  <2>1. \A p \in DOMAIN pictures' : VersionOf(p) \in DOMAIN docVers /\ p \in PageSet(VersionOf(p)) /\ DOMAIN pictures'[p] = Sizes
    BY <1>2, <1>6, <1>13 DEF PicturesOK
  <2>2. ASSUME NEW p \in DOMAIN pictures', VersionOf(p) \notin mixed', NEW size \in Sizes
        PROVE  pictures'[p][size] \in {NoPicture, ContentOf(p)}
    <3>1. p \in DOMAIN pictures => pictures[p][size] \in {NoPicture, ContentOf(p)}
      BY <1>5, <2>2 DEF PicturesOK, PicturesFollow
    <3> QED BY <1>6, <1>13, <2>2, <3>1
  <2>3. \A p : ContentOf(p)' = ContentOf(p)
    BY <1>1 DEF ContentOf, server
  <2>4. PicturesFollow'
    BY <2>2, <2>3 DEF PicturesFollow
  <2> QED BY <1>1, <1>10, <2>1, <2>4 DEF PicturesOK, copies
<1>15. HoleFree'
  <2> SUFFICES ASSUME NEW w \in DOMAIN docVers, w \notin mixed', NEW p \in PageSet(w), NEW q \in PageSet(w),
                      Has(q)', Number(p) < Number(q)
               PROVE  Has(p)'
    BY <1>1, <1>10 DEF HoleFree, copies
  <2>1. CASE Has(q)
    BY <1>5, <1>7, <2>1 DEF HoleFree
  <2>2. CASE ~Has(q)
    <3>1. q \in DOMAIN pictures' /\ pictures'[q]["sm"] # NoPicture /\ "sm" \in Sizes
      BY DEF Has, HasPicture, Sizes
    <3>2. ~(q \in DOMAIN pictures /\ pictures'[q]["sm"] = pictures[q]["sm"])
      BY <2>2, <3>1 DEF Has, HasPicture
    <3>3. "sm" = j.size /\ q \in pages /\ (f = v \/ v \in mixed')
      BY <1>6, <3>1, <3>2
    <3>4. w = v
      <4>1. w \in DOMAIN content
        BY DEF CopiesOK
      <4>2. VersionOf(q) = w
        BY <4>1, PagesOfVersion
      <4> QED BY <1>13, <3>3, <4>2
    <3>5. Has(p) \/ p \in pages
      BY <1>2, <1>5, <3>3, <3>4
    <3>6. ASSUME p \in pages PROVE Has(p)'
      <4>1. ~UNCHANGED <<pictures, mixed>>
        BY <3>1, <3>2
      <4>2. p \in DOMAIN pictures'
        <5>1. pictures' = Drawn(j, f)
          BY <1>1, <4>1
        <5> QED BY <3>6, <5>1, <1>g DEF Drawn
      <4>3. pictures'[p]["sm"] \in Sheet
        BY <1>6, <3>1, <3>3, <3>6, <4>1, <4>2
      <4> QED BY <4>2, <4>3, SheetIsPicture DEF Has, HasPicture
    <3> QED BY <1>7, <3>5, <3>6
  <2> QED BY <2>1, <2>2
<1> QED BY <1>9, <1>11, <1>12, <1>14, <1>15

\* what the pages of a version that is new take from the pictures there are
LEMMA CarriedPictures ==
    ASSUME ServerOK, NEW v \in DOMAIN content, NEW of, NEW pics, NEW r, r = Carried(pics, v, of),
           \A p \in DOMAIN pics : VersionOf(p) # v
    PROVE  /\ \A p \in DOMAIN pics : p \in DOMAIN r /\ r[p] = pics[p]
           /\ \A p \in DOMAIN r : p \notin DOMAIN pics =>
                 /\ p \in PageSet(v) /\ Number(p) \in DOMAIN of /\ of[Number(p)].id \in DOMAIN pics
                 /\ DOMAIN r[p] = Sizes
                 /\ \A size \in Sizes :
                       r[p][size] = IF pics[of[Number(p)].id][size] = NoPicture THEN NoPicture
                                    ELSE Turned(pics[of[Number(p)].id][size], of[Number(p)].angle)
           /\ \A p \in PageSet(v) : Number(p) \in DOMAIN of /\ of[Number(p)].id \in DOMAIN pics
                                    => p \in DOMAIN r /\ p \notin DOMAIN pics
<1> DEFINE carried == {i \in DOMAIN content[v] \cap DOMAIN of : of[i].id \in DOMAIN pics}
           Turn(pic, angle) == IF pic = NoPicture THEN NoPicture ELSE Turned(pic, angle)
<1>1. DOMAIN content[v] = 1..Len(content[v])
  BY VersionParts
<1>2. \A p \in PageSet(v) : VersionOf(p) = v /\ Number(p) \in 1..Len(content[v]) /\ p = PageIds(v)[Number(p)]
  BY PagesOfVersion
<1>3. \A i \in carried : PageIds(v)[i] \in PageSet(v) /\ Number(PageIds(v)[i]) = i
  BY <1>1, PagesOfVersion
<1>4. r = [p \in DOMAIN pics \cup {PageIds(v)[i] : i \in carried} |->
              IF VersionOf(p) = v /\ Number(p) \in carried
                THEN [size \in Sizes |-> Turn(pics[of[Number(p)].id][size], of[Number(p)].angle)]
                ELSE pics[p]]
  BY DEF Carried
<1>5. DOMAIN r = DOMAIN pics \cup {PageIds(v)[i] : i \in carried}
  BY <1>4
<1>6. ASSUME NEW p \in DOMAIN pics PROVE p \in DOMAIN r /\ r[p] = pics[p]
  BY <1>4
<1>7. ASSUME NEW p \in DOMAIN r, p \notin DOMAIN pics
      PROVE  /\ p \in PageSet(v) /\ Number(p) \in carried
             /\ r[p] = [size \in Sizes |-> Turn(pics[of[Number(p)].id][size], of[Number(p)].angle)]
  <2> HIDE DEF carried, Turn
  <2>1. PICK i \in carried : p = PageIds(v)[i]
    BY <1>5, <1>7
  <2>2. p \in PageSet(v) /\ Number(p) \in carried /\ VersionOf(p) = v
    BY <1>2, <1>3, <2>1
  <2> QED BY <1>4, <1>7, <2>2
<1>8. ASSUME NEW p \in PageSet(v), Number(p) \in DOMAIN of, of[Number(p)].id \in DOMAIN pics
      PROVE  p \in DOMAIN r /\ p \notin DOMAIN pics
  BY <1>1, <1>2, <1>5, <1>8
<1> QED BY <1>6, <1>7, <1>8

LEMMA PagesAnsweredInv ==
    ASSUME ViewerInv, NEW c \in pageCalls, PagesAnswered(c)
    PROVE  ViewerInv'
<1> USE DEF ViewerInv
<1>s. PICK src : src = c.src
  OBVIOUS
<1>t. PICK dst : dst = c.dst
  OBVIOUS
<1>o. PICK of : of = c.srcOf
  OBVIOUS
<1>q. PICK pics : pics = IF src = NoVersion THEN pictures ELSE Carried(pictures, src, of)
  OBVIOUS
<1>1. /\ pageCalls' = pageCalls \ {c}
      /\ pictures' = IF dst = NoVersion THEN pics ELSE Carried(pics, dst, c.dstOf)
      /\ docVers' = [v \in Arrived(c) \cup DOMAIN docVers |-> IF v \in Arrived(c) THEN InitialPages(v) ELSE docVers[v]]
      /\ deleted' = [v \in Arrived(c) \cup DOMAIN deleted |-> IF v \in Arrived(c) THEN {} ELSE deleted[v]]
      /\ latest' = Latest(c) /\ viewers' = SourceGone(c)
      /\ picked' = IF c.kind = "extract" /\ src # NoVersion THEN [picked EXCEPT ![OtherMode(c.side)] = {}] ELSE picked
      /\ mixed' = IF \E i \in DOMAIN of : VersionOf(of[i].id) \in mixed
                    THEN mixed \cup ({src} \ {NoVersion}) ELSE mixed
      /\ UNCHANGED <<server, lastVersion, drag, pdf, drawing, batchNo, budget>>
  BY <1>s, <1>t, <1>o, <1>q DEF PagesAnswered
<1>2. /\ CallOK(c)
      /\ \A v \in NewVersions(c) : /\ v \in DOMAIN content /\ v \notin DOMAIN docVers /\ v # NoVersion
                                   /\ v[1] \in Docs /\ lastVersion[v[1]] # 0
      /\ NewVersions(c) = {src, dst} \ {NoVersion}
  <2>1. CallOK(c)
    BY DEF CallsOK
  <2> QED BY <1>s, <1>t, <2>1, VersionParts DEF CallOK, NewVersions
<1>3. /\ src # NoVersion => src \in NewVersions(c)
      /\ dst # NoVersion => dst \in NewVersions(c) /\ dst \in mixed /\ dst # src
      /\ c.kind = "move" => dst # NoVersion
  BY <1>s, <1>t, <1>2 DEF CallOK
<1>4. Arrived(c) = NewVersions(c)
  BY <1>2 DEF Arrived
<1>5. /\ DOMAIN docVers' = DOMAIN docVers \cup NewVersions(c) /\ DOMAIN deleted' = DOMAIN docVers'
      /\ \A v \in DOMAIN docVers : docVers'[v] = docVers[v] /\ deleted'[v] = deleted[v]
      /\ \A v \in NewVersions(c) : docVers'[v] = InitialPages(v) /\ deleted'[v] = {}
  BY <1>1, <1>2, <1>4 DEF CopiesOK
<1>6. Loads
  BY <1>2, <1>5 DEF Loads, CopiesOK
\* the pictures that were there, those of the source and those of the target
<1>7. \A p \in DOMAIN pictures : VersionOf(p) \in DOMAIN docVers /\ VersionOf(p) \notin NewVersions(c)
  BY <1>2 DEF PicturesOK
<1>8. /\ \A p \in DOMAIN pictures : p \in DOMAIN pics /\ pics[p] = pictures[p]
      /\ \A p \in DOMAIN pics : p \notin DOMAIN pictures =>
            /\ src # NoVersion /\ p \in PageSet(src) /\ Number(p) \in DOMAIN of /\ of[Number(p)].id \in DOMAIN pictures
            /\ DOMAIN pics[p] = Sizes
            /\ \A size \in Sizes :
                  pics[p][size] = IF pictures[of[Number(p)].id][size] = NoPicture THEN NoPicture
                                  ELSE Turned(pictures[of[Number(p)].id][size], of[Number(p)].angle)
      /\ src # NoVersion => \A p \in PageSet(src) : Number(p) \in DOMAIN of /\ of[Number(p)].id \in DOMAIN pictures
                                                    => p \in DOMAIN pics /\ p \notin DOMAIN pictures
  <2>1. CASE src = NoVersion
    BY <1>q, <2>1
  <2>2. CASE src # NoVersion
    <3>1. src \in DOMAIN content /\ pics = Carried(pictures, src, of) /\ \A p \in DOMAIN pictures : VersionOf(p) # src
      BY <1>q, <1>2, <1>3, <1>7, <2>2
    <3> QED BY <2>2, <3>1, CarriedPictures
  <2> QED BY <2>1, <2>2
<1>9. /\ \A p \in DOMAIN pics : p \in DOMAIN pictures' /\ pictures'[p] = pics[p]
      /\ \A p \in DOMAIN pictures' : p \notin DOMAIN pics =>
            dst # NoVersion /\ p \in PageSet(dst) /\ VersionOf(p) = dst /\ DOMAIN pictures'[p] = Sizes
  <2>1. CASE dst = NoVersion
    BY <1>1, <2>1
  <2>2. CASE dst # NoVersion
    <3>1. dst \in DOMAIN content /\ \A p \in PageSet(dst) : VersionOf(p) = dst
      BY <1>2, <1>3, <2>2, PagesOfVersion
    <3>2. ASSUME NEW p \in DOMAIN pics PROVE VersionOf(p) # dst
      <4>1. CASE p \in DOMAIN pictures
        BY <1>3, <1>7, <2>2, <4>1
      <4>2. CASE p \notin DOMAIN pictures
        <5>1. src \in DOMAIN content /\ p \in PageSet(src) /\ src # dst
          BY <1>2, <1>3, <1>8, <2>2, <4>2
        <5> QED BY <5>1, PagesOfVersion
      <4> QED BY <4>1, <4>2
    <3>3. pictures' = Carried(pics, dst, c.dstOf)
      BY <1>1, <2>2
    <3> QED BY <2>2, <3>1, <3>2, <3>3, CarriedPictures
  <2> QED BY <2>1, <2>2
<1>10. ASSUME NEW p, Has(p) PROVE Has(p)'
  BY <1>8, <1>9, <1>10 DEF Has, HasPicture
<1>11. mixed \subseteq mixed' /\ mixed' \subseteq DOMAIN content
  BY <1>1, <1>2, <1>3 DEF ServerOK
<1>12. /\ ServerOK' /\ PagesKept' /\ ShownOK' /\ DrawingOK' /\ OrderOK'
       /\ \A w \in DOMAIN docVers' : docVers'[w] \in Seq(Entry(PageSet(w)'))
       /\ \A b \in pageCalls : NewVersions(b) \cap DOMAIN docVers' = {} => CallOK(b)'
  <2>1. /\ UNCHANGED <<server, drag>>
        /\ pdf' = NoVersion \/ pdf' \in DOMAIN content
        /\ drawing' \subseteq drawing /\ \A k \in DOMAIN batchNo' : batchNo'[k] \in Nat \ {0}
    BY <1>1 DEF ServerOK, DrawingOK
  <2>2. DOMAIN picked' = Panes /\ \A side \in Panes : picked'[side] \subseteq picked[side]
    BY <1>1 DEF ShownOK
  <2>3. lastVersion' \in [Docs -> Nat] /\ \A d \in Docs : lastVersion[d] # 0 => lastVersion'[d] # 0
    BY <1>1 DEF CopiesOK
  <2>4. \A p : Has(p) => Has(p)'
    BY <1>10
  <2> QED BY <1>6, <1>11, <2>1, <2>2, <2>3, <2>4, LoadedInv
<1>13. \A w : PageSet(w)' = PageSet(w)
  BY <1>1 DEF PageSet, PageIds, server
<1>14. CallsOK'
  <2>1. ASSUME NEW b \in pageCalls \ {c} PROVE CallOK(b)'
    <3>1. NewVersions(b) \cap NewVersions(c) = {} /\ NewVersions(b) \cap DOMAIN docVers = {}
      BY DEF CallsOK, CallOK
    <3>2. NewVersions(b) \cap DOMAIN docVers' = {}
      BY <1>5, <3>1
    <3> QED BY <1>12, <3>2
  <2> QED BY <1>1, <2>1 DEF CallsOK, NewVersions
<1>15. ScreenOK'
  <2>1. c.kind = "move" => c.dst[1] \in Docs
    BY <1>t, <1>2, <1>3
  <2>2. SourceGone(c) \in [Panes -> Docs \cup {"commander", "closed"}] /\ SourceGone(c)["main"] # "closed"
    <3>1. \A d \in Docs : d # "closed"
      BY DocViewerAssumption
    <3> QED BY <2>1, <3>1 DEF ScreenOK, SourceGone, Panes
  <2> QED BY <1>1, <2>2 DEF ScreenOK
<1>16. CopiesOK'
  <2>1. \A v \in DOMAIN docVers' : v \in DOMAIN content /\ lastVersion[v[1]] # 0
    BY <1>2, <1>5 DEF CopiesOK
  <2>2. \A d \in Docs : lastVersion[d] # 0 => <<d, lastVersion[d]>> \in DOMAIN docVers'
    BY <1>5 DEF CopiesOK
  <2>3. ASSUME NEW v \in NewVersions(c), NEW f \in [Docs -> Nat], NEW g, g = [f EXCEPT ![v[1]] = v[2]],
               \A d \in Docs : f[d] # 0 => <<d, f[d]>> \in DOMAIN docVers'
        PROVE  g \in [Docs -> Nat] /\ \A d \in Docs : g[d] # 0 => <<d, g[d]>> \in DOMAIN docVers'
    <3>1. v = <<v[1], v[2]>> /\ v[1] \in Docs /\ v[2] \in Nat /\ v \in DOMAIN docVers'
      BY <1>2, <1>5, VersionParts
    <3> QED BY <2>3, <3>1
  <2>4. PICK f : f = IF src = NoVersion THEN latest ELSE [latest EXCEPT ![src[1]] = src[2]]
    OBVIOUS
  <2>5. latest' = IF dst = NoVersion THEN f ELSE [f EXCEPT ![dst[1]] = dst[2]]
    BY <1>s, <1>t, <1>1, <2>4 DEF Latest
  <2>6. latest \in [Docs -> Nat] /\ \A d \in Docs : latest[d] # 0 => <<d, latest[d]>> \in DOMAIN docVers'
    BY <1>5 DEF CopiesOK
  <2>7. f \in [Docs -> Nat] /\ \A d \in Docs : f[d] # 0 => <<d, f[d]>> \in DOMAIN docVers'
    <3>1. CASE src = NoVersion
      BY <2>4, <2>6, <3>1
    <3>2. CASE src # NoVersion
      BY <1>3, <2>3, <2>4, <2>6, <3>2, ZenonT(40)
    <3> QED BY <3>1, <3>2
  <2>8. latest' \in [Docs -> Nat] /\ \A d \in Docs : latest'[d] # 0 => <<d, latest'[d]>> \in DOMAIN docVers'
    <3>1. CASE dst = NoVersion
      BY <2>5, <2>7, <3>1
    <3>2. CASE dst # NoVersion
      BY <1>3, <2>3, <2>5, <2>7, <3>2, ZenonT(40)
    <3> QED BY <3>1, <3>2
  <2>9. lastVersion' = lastVersion /\ content' = content /\ lastVersion \in [Docs -> Nat]
    BY <1>1 DEF server, CopiesOK
  <2> QED BY <1>5, <1>12, <2>1, <2>2, <2>8, <2>9 DEF CopiesOK
\* the source of pictures of a version whose pictures are to be right
<1>17. ASSUME src # NoVersion, src \notin mixed'
       PROVE  \E v \in DOMAIN docVers \ mixed :
                 /\ DOMAIN of = 1..Len(content[src])
                 /\ \A i \in 1..Len(content[src]) : of[i].id \in PageSet(v) /\ of[i].angle \in Int
                                                    /\ content[src][i] = Turned(ContentOf(of[i].id), of[i].angle)
                 /\ \A i, j \in 1..Len(content[src]) : i < j => <<of[i], of[j]>> \in Before
  <2>1. Carries(c)
    BY <1>s, <1>2, <1>11, <1>17 DEF CallOK
  <2>2. PICK v \in DOMAIN docVers :
        /\ of \in Seq(Entry(PageSet(v))) /\ Len(of) = Len(content[src])
        /\ \A i \in 1..Len(of) : content[src][i] = Turned(ContentOf(of[i].id), of[i].angle)
        /\ v \notin mixed => Pairwise(of, Before)
    BY <1>s, <1>o, <2>1 DEF Carries
  <2>3. /\ DOMAIN of = 1..Len(content[src]) /\ Len(content[src]) \in Nat \ {0}
        /\ \A i \in 1..Len(of) : of[i].id \in PageSet(v) /\ of[i].angle \in Int
    BY <1>2, <1>3, <1>17, <2>2, EntryParts, VersionParts
  <2>4. v \notin mixed
    <3>1. 1 \in DOMAIN of /\ of[1].id \in PageSet(v) /\ v \in DOMAIN content
      BY <2>2, <2>3 DEF CopiesOK
    <3>2. VersionOf(of[1].id) = v
      BY <3>1, PagesOfVersion
    <3> QED BY <1>1, <1>17, <3>1, <3>2
  <2> QED BY <2>2, <2>3, <2>4 DEF Pairwise
<1>18. \A p \in DOMAIN pictures' :
          \/ p \in DOMAIN pictures /\ pictures'[p] = pictures[p]
          \/ src # NoVersion /\ p \in PageSet(src) /\ p \in DOMAIN pics /\ p \notin DOMAIN pictures
             /\ pictures'[p] = pics[p] /\ VersionOf(p) = src
          \/ dst # NoVersion /\ p \in PageSet(dst) /\ VersionOf(p) = dst /\ DOMAIN pictures'[p] = Sizes
  <2>1. src # NoVersion => \A p \in PageSet(src) : VersionOf(p) = src
    BY <1>2, <1>3, PagesOfVersion
  <2> QED BY <1>8, <1>9, <2>1
<1>19. ASSUME NEW v \in DOMAIN docVers \ mixed, NEW p \in PageSet(v), p \in DOMAIN pictures, NEW size \in Sizes
       PROVE  pictures[p][size] \in {NoPicture, ContentOf(p)} /\ ContentOf(p) \in Sheet
  <2>1. VersionOf(p) = v /\ ContentOf(p) \in Sheet
    BY PagesOfVersion DEF CopiesOK
  <2> QED BY <1>19, <2>1 DEF PicturesOK, PicturesFollow
<1>20. PicturesFollow'
  <2> SUFFICES ASSUME NEW p \in DOMAIN pictures', VersionOf(p) \notin mixed', NEW size \in Sizes
               PROVE  pictures'[p][size] \in {NoPicture, ContentOf(p)}
    <3>1. \A x : ContentOf(x)' = ContentOf(x)
      BY <1>1 DEF ContentOf, server
    <3> QED BY <3>1 DEF PicturesFollow
  <2>1. CASE p \in DOMAIN pictures /\ pictures'[p] = pictures[p]
    BY <1>11, <2>1 DEF PicturesOK, PicturesFollow
  <2>2. CASE src # NoVersion /\ p \in PageSet(src) /\ p \in DOMAIN pics /\ p \notin DOMAIN pictures
             /\ pictures'[p] = pics[p] /\ VersionOf(p) = src
    <3>1. PICK v \in DOMAIN docVers \ mixed :
                 \A i \in 1..Len(content[src]) : of[i].id \in PageSet(v) /\ of[i].angle \in Int
                                                    /\ content[src][i] = Turned(ContentOf(of[i].id), of[i].angle)
      BY <1>17, <2>2
    <3>2. PICK i : i = Number(p)
      OBVIOUS
    <3>3. i \in 1..Len(content[src]) /\ ContentOf(p) = content[src][i]
      BY <1>2, <1>3, <2>2, <3>2, PagesOfVersion
    <3>4. /\ of[i].id \in DOMAIN pictures
          /\ pics[p][size] = IF pictures[of[i].id][size] = NoPicture THEN NoPicture
                             ELSE Turned(pictures[of[i].id][size], of[i].angle)
      BY <1>8, <2>2, <3>2
    <3>5. pictures[of[i].id][size] \in {NoPicture, ContentOf(of[i].id)}
      BY <1>19, <3>1, <3>3, <3>4
    <3> QED BY <2>2, <3>1, <3>3, <3>4, <3>5
  <2>3. CASE VersionOf(p) = dst /\ dst # NoVersion
    BY <1>3, <1>11, <2>3
  <2> QED BY <1>18, <2>1, <2>2, <2>3
<1>21. PicturesOK'
  <2> SUFFICES ASSUME NEW p \in DOMAIN pictures'
               PROVE  VersionOf(p) \in DOMAIN docVers' /\ p \in PageSet(VersionOf(p)) /\ DOMAIN pictures'[p] = Sizes
    BY <1>13, <1>20 DEF PicturesOK
  <2>1. CASE p \in DOMAIN pictures /\ pictures'[p] = pictures[p]
    BY <1>5, <2>1 DEF PicturesOK
  <2>2. CASE src # NoVersion /\ p \in PageSet(src) /\ p \in DOMAIN pics /\ p \notin DOMAIN pictures
             /\ pictures'[p] = pics[p] /\ VersionOf(p) = src
    BY <1>3, <1>5, <1>8, <2>2
  <2>3. CASE dst # NoVersion /\ p \in PageSet(dst) /\ VersionOf(p) = dst /\ DOMAIN pictures'[p] = Sizes
    BY <1>3, <1>5, <2>3
  <2> QED BY <1>18, <2>1, <2>2, <2>3
<1>22. HoleFree'
  <2> SUFFICES ASSUME NEW w \in DOMAIN docVers', w \notin mixed', NEW p \in PageSet(w), NEW q \in PageSet(w),
                      Has(q)', Number(p) < Number(q)
               PROVE  Has(p)'
    BY <1>13 DEF HoleFree
  <2>1. w \in DOMAIN content
    BY <1>2, <1>5 DEF CopiesOK
  <2>2. /\ VersionOf(p) = w /\ VersionOf(q) = w
        /\ Number(p) \in 1..Len(content[w]) /\ Number(q) \in 1..Len(content[w])
    BY <2>1, PagesOfVersion
  <2>3. q \in DOMAIN pictures' /\ pictures'[q]["sm"] # NoPicture
    BY DEF Has, HasPicture
  <2>4. CASE w \in DOMAIN docVers
    <3>1. q \in DOMAIN pictures /\ pictures'[q] = pictures[q]
      BY <1>2, <1>3, <1>18, <2>2, <2>3, <2>4
    <3>2. Has(q)
      BY <2>3, <3>1 DEF Has, HasPicture
    <3> QED BY <1>10, <1>11, <2>4, <3>2 DEF HoleFree
  <2>5. CASE w \notin DOMAIN docVers /\ w = src /\ src # NoVersion
    <3>1. PICK v \in DOMAIN docVers \ mixed :
                 /\ DOMAIN of = 1..Len(content[src])
                 /\ \A i \in 1..Len(content[src]) : of[i].id \in PageSet(v) /\ of[i].angle \in Int
                 /\ \A i, j \in 1..Len(content[src]) : i < j => <<of[i], of[j]>> \in Before
      BY <1>17, <2>5
    <3>2. PICK i : i = Number(p)
      OBVIOUS
    <3>3. PICK j : j = Number(q)
      OBVIOUS
    <3>4. "sm" \in Sizes
      BY DEF Sizes
    <3>5. q \in DOMAIN pics /\ q \notin DOMAIN pictures /\ pictures'[q] = pics[q]
      BY <1>3, <1>7, <1>18, <2>2, <2>3, <2>5
    <3>6. of[j].id \in DOMAIN pictures /\ pictures[of[j].id]["sm"] # NoPicture
      BY <1>8, <2>3, <3>3, <3>4, <3>5
    <3>7. Has(of[j].id)
      BY <3>6 DEF Has, HasPicture
    <3>8. i \in 1..Len(content[src]) /\ j \in 1..Len(content[src]) /\ i < j /\ of[i].id \in PageSet(v) /\ of[j].id \in PageSet(v)
      BY <2>2, <2>5, <3>1, <3>2, <3>3
    <3>9. Has(of[i].id)
      <4>1. Number(of[i].id) < Number(of[j].id) \/ Has(of[i].id)
        BY <3>1, <3>8 DEF Before
      <4> QED BY <3>1, <3>7, <3>8, <4>1 DEF HoleFree
    <3>10. of[i].id \in DOMAIN pictures /\ pictures[of[i].id]["sm"] # NoPicture
      BY <3>9 DEF Has, HasPicture
    <3>11. p \in DOMAIN pics /\ p \notin DOMAIN pictures
      BY <1>8, <2>5, <3>1, <3>2, <3>8, <3>10
    <3>12. pics[p]["sm"] = Turned(pictures[of[i].id]["sm"], of[i].angle)
      BY <1>8, <3>2, <3>4, <3>10, <3>11
    <3>13. pictures[of[i].id]["sm"] \in Sheet
      BY <1>19, <3>1, <3>4, <3>8, <3>10
    <3>14. pics[p]["sm"] # NoPicture
      BY <3>1, <3>8, <3>12, <3>13, TurnedSheet, SheetIsPicture
    <3> QED BY <1>9, <3>11, <3>14 DEF Has, HasPicture
  <2> QED BY <1>2, <1>3, <1>5, <1>11, <2>4, <2>5
<1> QED BY <1>12, <1>14, <1>15, <1>16, <1>21, <1>22

-----------------------------------------------------------------------------
(* The viewer *)

FlagOK == flag \in {"opened", "closed"}

LEMMA EmptySequence == Len(<<>>) = 0 /\ DOMAIN <<>> = {} /\ Range(<<>>) = {}
BY DEF Range

LEMMA ViewerInvInit == ViewerInit => ViewerInv /\ FlagOK
<1> SUFFICES ASSUME ViewerInit PROVE ViewerInv /\ FlagOK
  OBVIOUS
<1> USE DEF ViewerInit
<1>1. DOMAIN docVers = {} /\ DOMAIN deleted = {} /\ DOMAIN pictures = {} /\ DOMAIN batchNo = {} /\ Range(drag) = {}
  BY EmptySequence
<1>2. ASSUME NEW v \in DOMAIN content
      PROVE  /\ v \in Vers /\ v[2] = 1 /\ v[1] \in Docs
             /\ content[v] \in Seq(Sheet) /\ content[v] # <<>>
  <2>1. v \in Docs \X {1} /\ FirstPages[v[1]] \in Nat \ {0}
    BY DocViewerAssumption
  <2>2. v[1] \in Docs /\ v[2] = 1 /\ v \in Vers
    BY <2>1 DEF Vers
  <2>3. PICK n \in Nat \ {0} : n = FirstPages[v[1]]
    BY <2>1
  <2>4. content[v] = [i \in 1..n |-> [sheet |-> <<v[1], i>>, angle |-> 0]]
    BY <2>1, <2>3
  <2>5. content[v] \in [1..n -> Sheet]
    BY <2>2, <2>4 DEF Sheet, Vers
  <2>6. content[v] \in Seq(Sheet) /\ Len(content[v]) = n
    BY <2>5, SeqFunction
  <2> QED BY <2>2, <2>6, EmptySeq
<1>3. \A d \in Docs : head[d] = 1 /\ <<d, head[d]>> \in DOMAIN content
  OBVIOUS
<1>4. ServerOK
  BY <1>2, <1>3 DEF ServerOK
<1>5. ScreenOK
  BY DocViewerAssumption DEF ScreenOK
<1>6. CopiesOK /\ PagesKept
  BY <1>1 DEF CopiesOK, PagesKept
<1>7. drag \in Seq(AnyPage)
  BY EmptySeq
<1>8. ShownOK
  BY <1>1, <1>7 DEF ShownOK
<1>9. PicturesOK /\ DrawingOK
  BY <1>1 DEF PicturesOK, PicturesFollow, DrawingOK
<1>10. HoleFree /\ OrderOK /\ CallsOK
  BY <1>1 DEF HoleFree, OrderOK, CallsOK
<1> QED BY <1>4, <1>5, <1>6, <1>8, <1>9, <1>10 DEF ViewerInv, FlagOK

LEMMA StillInv ==
    ASSUME ViewerInv, UNCHANGED viewerVars
    PROVE  ViewerInv'
<1>1. UNCHANGED <<server, viewers, lastVersion, copies, latest, pageCalls, images, mixed, picked, drag>>
  BY DEF viewerVars, server, copies, images
<1>2. ShownOK'
  BY <1>1 DEF ViewerInv, ShownOK, Has, HasPicture, PageSet, PageIds, images, server, copies
<1> QED BY <1>1, <1>2, PickInv

LEMMA ViewerInvStep ==
    ASSUME ViewerInv, ViewerAction
    PROVE  ViewerInv'
<1>1. ASSUME NEW d \in Docs, GetDocLastVersion(d) \/ SomeoneSaves(d)
      PROVE  ViewerInv'
  BY <1>1, GetDocLastVersionInv, SomeoneSavesInv
<1>2. ASSUME NEW j \in drawing, DrawPreviews(j) \/ DownloadFails(j)
      PROVE  ViewerInv'
  BY <1>2, DrawPreviewsInv, DownloadFailsInv
<1>3. ASSUME NEW c \in pageCalls, PagesAnswered(c)
      PROVE  ViewerInv'
  BY <1>3, PagesAnsweredInv
<1>4. ASSUME NEW side \in Panes,
             GenerateFirstPreviews(side) \/ FirstThumbnails(side) \/ MorePages(side) \/ MoreThumbnails(side)
      PROVE  ViewerInv'
  BY <1>4, GenerateFirstPreviewsInv, FirstThumbnailsInv, MorePagesInv, MoreThumbnailsInv
<1>5. ASSUME NEW side \in Panes, PagesDeleted(side) \/ PagesReseted(side) \/ ApplyPageChanges(side)
      PROVE  ViewerInv'
  BY <1>5, PagesDeletedInv, PagesResetedInv, ApplyPageChangesInv
<1>6. ASSUME NEW side \in Panes, ExtractPages(side) \/ DeleteEntireDocument(side)
      PROVE  ViewerInv'
  BY <1>6, ExtractPagesInv, DeleteEntireDocumentInv
<1>7. ASSUME NEW side \in Panes, NEW angle \in {1, -1}, PagesRotated(side, angle)
      PROVE  ViewerInv'
  <2>1. angle \in Int
    OBVIOUS
  <2> QED BY <1>7, <2>1, PagesRotatedInv
<1>8. ASSUME NEW side \in Panes, NEW p \in Range(Thumbnails(side)), OnCheckPage(side, p) \/ OnDragStart(side, p)
      PROVE  ViewerInv'
  BY <1>8, OnCheckPageInv, OnDragStartInv
<1>9. ASSUME NEW side \in Panes, NEW p \in Range(Thumbnails(side)),
             NEW position \in {"before", "after"}, PagesDroppedInDoc(side, p, position)
      PROVE  ViewerInv'
  BY <1>9, PagesDroppedInv
<1>10. ASSUME NEW side \in Panes, NEW p \in Range(Thumbnails(side)),
              NEW strategy \in {"mix", "replace"}, TransferPages(side, p, strategy)
       PROVE  ViewerInv'
  BY <1>10, TransferPagesInv
<1> QED BY <1>1, <1>2, <1>3, <1>4, <1>5, <1>6, <1>7, <1>8, <1>9, <1>10 DEF ViewerAction

LEMMA FlagStep == ASSUME FlagOK, FlagEffect PROVE FlagOK'
<1>1. \A side \in Panes : Reports(side)' \in {"opened", "closed", "unmounted"}
  BY DEF Reports
<1>2. \A side \in Panes : ReportsAnew(side) => Reports(side)' \in {"opened", "closed"}
  BY <1>1 DEF ReportsAnew
<1> QED BY <1>2 DEF FlagEffect, FlagOK, Panes

\* The inductive invariant of the viewer: documents on the server, the copies in
\* documentVersSlice, the pictures in imageObjectsSlice, what is on the screen,
\* what is being drawn and the call in flight fit together after every step of
\* the user, of the hooks that draw and of the server.
THEOREM ViewerInvariant == ViewerSpec => [](ViewerInv /\ FlagOK)
<1>1. ViewerInv /\ FlagOK /\ [ViewerNext]_viewerVars => (ViewerInv /\ FlagOK)'
  <2>1. ASSUME ViewerInv, FlagOK, ViewerNext PROVE ViewerInv' /\ FlagOK'
    BY <2>1, ViewerInvStep, FlagStep DEF ViewerNext
  <2>2. ASSUME ViewerInv, FlagOK, UNCHANGED viewerVars PROVE ViewerInv' /\ FlagOK'
    <3>1. FlagOK'
      BY <2>2 DEF FlagOK, viewerVars
    <3> QED BY <2>2, <3>1, StillInv
  <2> QED BY <2>1, <2>2
<1> QED BY <1>1, ViewerInvInit, PTL DEF ViewerSpec

\* The state of the viewer is well typed, and every version that the client
\* knows, draws or shows exists on the server (documentVersSlice, docsSlice,
\* imageObjectsSlice).
THEOREM ViewerTypes == ViewerSpec => []ViewerTypeOK
<1>1. ASSUME ViewerInv, FlagOK PROVE ViewerTypeOK
  <2> USE <1>1 DEF ViewerInv
  <2>1. \A v \in DOMAIN content : v \in Docs \X Nat /\ \A i \in DOMAIN content[v] : content[v][i].angle \in 0..3
    <3>1. ASSUME NEW v \in DOMAIN content
          PROVE  v \in Docs \X Nat /\ \A i \in DOMAIN content[v] : content[v][i].angle \in 0..3
      <4>1. v \in Vers
        BY DEF ServerOK
      <4>2. \A i \in DOMAIN content[v] : content[v][i] \in Sheet
        BY VersionParts
      <4> QED BY <4>1, <4>2 DEF Vers, Sheet
    <3> QED BY <3>1
  <2>2. ASSUME NEW d \in Docs
        PROVE  {<<d, head[d]>>, <<d, lastVersion[d]>>, <<d, latest[d]>>} \subseteq DOMAIN content \cup {<<d, 0>>}
    BY DEF ServerOK, CopiesOK
  <2>3. ASSUME NEW p \in DOMAIN pictures PROVE Number(p) \in DOMAIN content[VersionOf(p)]
    <3>1. VersionOf(p) \in DOMAIN content /\ p \in PageSet(VersionOf(p))
      BY DEF PicturesOK, CopiesOK
    <3> QED BY <3>1, PagesOfVersion, VersionParts
  <2> QED BY <2>1, <2>2, <2>3 DEF ViewerTypeOK, ServerOK, ScreenOK, CopiesOK, FlagOK
<1> QED BY <1>1, ViewerInvariant, PTL

\* However the pages of a version are dragged, deleted, rotated and reset, the
\* copy in documentVersSlice has each page that was not deleted once, and never
\* none: the save that sends it drops no page the user did not delete.
THEOREM PagesAreKept == ViewerSpec => []PagesKept
BY ViewerInvariant, PTL DEF ViewerInv

\* Every picture in imageObjectsSlice is of the page it is kept for, turned as
\* that page is in the file, also when pages of a new version take theirs from
\* pages of the old one (rotateAndAddImageObjects and its callers); but for the
\* versions in mixed, which the property names.
THEOREM PicturesAreOfTheirPages == ViewerSpec => []PicturesFollow
BY ViewerInvariant, PTL DEF ViewerInv, PicturesOK

\* The thumbnails there are of a version are of its first pages, so that the
\* batch ThumbnailListContainer asks for next, counted from them, skips none.
THEOREM NoHoleInThumbnails == ViewerSpec => []NoThumbnailHole
<1>1. ASSUME ViewerInv PROVE NoThumbnailHole
  <2> USE <1>1 DEF ViewerInv
  <2> SUFFICES ASSUME NEW v \in DOMAIN docVers \ mixed, NEW i \in DOMAIN SortedPages(v), NEW j \in DOMAIN SortedPages(v),
                      i < j, HasPicture(SortedPages(v)[j], "sm")
               PROVE  HasPicture(SortedPages(v)[i], "sm")
    BY DEF NoThumbnailHole
  <2>s. PICK sorted : sorted = SortedPages(v)
    OBVIOUS
  <2>1. sorted \in Seq(PageSet(v)) /\ Pairwise(sorted, ByNumber)
    BY <2>s, SortedPagesLeft
  <2>2. sorted[i] \in PageSet(v) /\ sorted[j] \in PageSet(v)
    BY <2>s, <2>1, LenProperties, ElementOfSeq
  <2>3. Number(sorted[i]) < Number(sorted[j])
    BY <2>s, <2>1 DEF Pairwise, ByNumber
  <2> QED BY <2>s, <2>2, <2>3 DEF HoleFree, Has
<1> QED BY <1>1, ViewerInvariant, PTL

=============================================================================
