-------------------------- MODULE NodeTree_proofs --------------------------
(***************************************************************************)
(* Proofs about NodeTree.  For any interleaving of the handlers, cyclic    *)
(* moves included: the types, that the index is told to drop only nodes    *)
(* that are gone, that an account keeps its home and inbox, that a delete  *)
(* takes the subtree of what was selected, that what was created is        *)
(* announced.  As long as a move overlaps with no other handler: a folder  *)
(* and all it holds belong to one account, titles are distinct within a    *)
(* folder, every node hangs below a home or inbox.  No induction over the  *)
(* tree is needed: ancestors are a least closed set, and a tree without    *)
(* cycles is one where no set of nodes has all its parents in itself.      *)
(***************************************************************************)
EXTENDS NodeTree, TLAPS

-----------------------------------------------------------------------------
(* Types *)

TypeInv ==
    /\ node \in [Nodes -> Row \cup {NoRow}]
    /\ unused \subseteq Nodes \ Live
    /\ accounts \subseteq Owners
    /\ req \in [Reqs -> Request]

LEMMA NoRequestType == NoRequest \in Request
BY DEF NoRequest, Request, Handlers, Pcs, Stopped

\* A handler moves on: its record keeps the type.
LEMMA GotoType ==
    ASSUME req \in [Reqs -> Request], NEW r \in Reqs, NEW pc \in Pcs, Goto(r, pc)
    PROVE  req' \in [Reqs -> Request]
BY DEF Goto, Request

\* A row that is not NoRow names an account, and NoRow does not.
LEMMA NoRowIsNoRow == NoRow \notin Row
BY SentinelsAssumption DEF Row, NoRow

LEMMA BelowType == \A S : Below(S) \subseteq Live
BY DEF Below, Least

LEMMA LiveType == Live \subseteq Nodes
BY DEF Live, Exist

\* The store keeps its types while a request is accepted or only reads.
LEMMA StoreSame ==
    ASSUME TypeInv, UNCHANGED store, req' \in [Reqs -> Request]
    PROVE  TypeInv'
BY DEF TypeInv, store, Live, Exist

LEMMA RaiseType ==
    ASSUME TypeInv, NEW r \in Reqs, Raise(r)
    PROVE  TypeInv'
<1>1. req' \in [Reqs -> Request]
  BY GotoType DEF Raise, TypeInv, Pcs, Stopped
<1>2. QED
  BY <1>1, StoreSame DEF Raise

LEMMA BeginType ==
    ASSUME TypeInv, NEW r \in Reqs, Begin(r)
    PROVE  TypeInv'
<1> USE NoRequestType, LiveType DEF TypeInv
<1>1. CASE BeginCreate(r)
  <2>1. PICK p \in Live, t \in Titles :
          req' = [req EXCEPT ![r] = [NoRequest EXCEPT
                    !.op = "create", !.pc = "creRead", !.to = p, !.title = t]]
    BY <1>1 DEF BeginCreate
  <2>2. [NoRequest EXCEPT !.op = "create", !.pc = "creRead", !.to = p, !.title = t] \in Request
    BY DEF Request, NoRequest, Handlers, Pcs
  <2>3. QED
    BY <1>1, <2>1, <2>2, StoreSame DEF BeginCreate
<1>2. CASE BeginRename(r)
  <2>1. PICK n \in Live, t \in Titles :
          req' = [req EXCEPT ![r] = [NoRequest EXCEPT
                    !.op = "rename", !.pc = "updCommit", !.ids = {n}, !.title = t]]
    BY <1>2 DEF BeginRename
  <2>2. [NoRequest EXCEPT !.op = "rename", !.pc = "updCommit", !.ids = {n}, !.title = t] \in Request
    BY ZenonT(40) DEF Request, NoRequest, Handlers, Pcs
  <2>3. QED
    BY <1>2, <2>1, <2>2, StoreSame DEF BeginRename
<1>3. CASE BeginReparent(r)
  <2>1. PICK p \in Live, n \in Live :
          req' = [req EXCEPT ![r] = [NoRequest EXCEPT
                    !.op = "reparent", !.pc = "updCommit", !.ids = {n}, !.to = p]]
    BY <1>3 DEF BeginReparent, Movable
  <2>2. [NoRequest EXCEPT !.op = "reparent", !.pc = "updCommit", !.ids = {n}, !.to = p] \in Request
    BY ZenonT(40) DEF Request, NoRequest, Handlers, Pcs
  <2>3. QED
    BY <1>3, <2>1, <2>2, StoreSame DEF BeginReparent
<1>4. CASE BeginMove(r)
  <2>1. PICK t \in Live, S \in SUBSET Live :
          req' = [req EXCEPT ![r] = [NoRequest EXCEPT
                    !.op = "move", !.pc = "movTarget", !.ids = S, !.to = t]]
    BY <1>4 DEF BeginMove, Selections
  <2>2. [NoRequest EXCEPT !.op = "move", !.pc = "movTarget", !.ids = S, !.to = t] \in Request
    BY DEF Request, NoRequest, Handlers, Pcs
  <2>3. QED
    BY <1>4, <2>1, <2>2, StoreSame DEF BeginMove
<1>5. CASE BeginDelete(r)
  <2>1. PICK S \in SUBSET Live :
          req' = [req EXCEPT ![r] = [NoRequest EXCEPT
                    !.op = "delete", !.pc = "delTree", !.ids = S]]
    BY <1>5 DEF BeginDelete, Selections
  <2>2. [NoRequest EXCEPT !.op = "delete", !.pc = "delTree", !.ids = S] \in Request
    BY DEF Request, NoRequest, Handlers, Pcs
  <2>3. QED
    BY <1>5, <2>1, <2>2, StoreSame DEF BeginDelete
<1>6. QED
  BY <1>1, <1>2, <1>3, <1>4, <1>5 DEF Begin

\* What a statement writes: rows whose columns have the right types.  The
\* foreign keys leave out every row without an owner, except NoRow.
WideRow == [parent : Nodes \cup {NoNode}, owner : Owners \cup {NoOwner},
            title : Titles \cup {NoTitle}]

LEMMA WideRows == Row \cup {NoRow} \subseteq WideRow
BY DEF Row, NoRow, WideRow

LEMMA WrittenRows ==
    ASSUME TypeInv, NEW rows \in [Nodes -> WideRow], References(rows, accounts)
    PROVE  rows \in [Nodes -> Row \cup {NoRow}]
<1> SUFFICES ASSUME NEW n \in Nodes, rows[n] # NoRow
             PROVE  rows[n] \in Row
  OBVIOUS
<1>1. rows[n].owner \in Owners
  BY DEF References, Exist, TypeInv
<1>2. rows[n] \in WideRow
  OBVIOUS
<1>3. QED
  BY <1>1, <1>2 DEF WideRow, Row

\* A handler that writes rows and creates no node.
LEMMA RowsStep ==
    ASSUME TypeInv, NEW rows \in [Nodes -> WideRow], References(rows, accounts),
           node' = rows, Exist(rows) \subseteq Live, UNCHANGED <<unused, accounts>>,
           req' \in [Reqs -> Request]
    PROVE  TypeInv'
<1>1. rows \in [Nodes -> Row \cup {NoRow}]
  BY WrittenRows
<1>2. Live' = Exist(rows)
  BY DEF Live, Exist
<1>3. QED
  BY <1>1, <1>2 DEF TypeInv

LEMMA CreReadType ==
    ASSUME TypeInv, NEW r \in Reqs, CreRead(r)
    PROVE  TypeInv'
<1>1. CASE Raise(r)
  BY <1>1, RaiseType
<1>2. CASE ~Raise(r)
  <2>1. /\ req[r].to \in Live /\ UNCHANGED store
        /\ req' = [req EXCEPT ![r].pc = "creInsert", ![r].owner = node[req[r].to].owner]
    BY <1>2 DEF CreRead
  <2>2. node[req[r].to].owner \in Owners
    BY <2>1 DEF Live, Exist, TypeInv, Row
  <2>3. [req[r] EXCEPT !.pc = "creInsert", !.owner = node[req[r].to].owner] \in Request
    BY ZenonT(40), <2>2 DEF TypeInv, Request, Pcs
  <2>4. QED
    BY <2>1, <2>3, StoreSame DEF TypeInv
<1>3. QED
  BY <1>1, <1>2

LEMMA CreInsertType ==
    ASSUME TypeInv, NEW r \in Reqs, CreInsert(r)
    PROVE  TypeInv'
<1>1. CASE Raise(r)
  BY <1>1, RaiseType
<1>2. CASE ~Raise(r)
  <2> DEFINE n == CHOOSE m \in unused : TRUE
             row == [parent |-> req[r].to, owner |-> req[r].owner, title |-> req[r].title]
             rows == [node EXCEPT ![n] = row]
             q == [req[r] EXCEPT !.pc = "creNotify", !.ids = {n}]
  <2>1. /\ n \in unused /\ Legal(rows, accounts)
        /\ node' = rows /\ unused' = unused \ {n} /\ accounts' = accounts
        /\ req' = [req EXCEPT ![r] = q]
    BY <1>2 DEF CreInsert
  <2>2. n \in Nodes
    BY <2>1 DEF TypeInv
  <2> HIDE DEF n
  <2>3. req[r] \in Request
    BY DEF TypeInv
  <2>4. row \in WideRow
    BY <2>3 DEF Request, WideRow
  <2>5. rows \in [Nodes -> WideRow]
    BY <2>4, WideRows DEF TypeInv
  <2>6. rows \in [Nodes -> Row \cup {NoRow}]
    BY <2>1, <2>5, WrittenRows DEF Legal
  <2>7. q \in Request
    BY <2>2, <2>3 DEF Request, Pcs
  <2>8. Live' \subseteq Live \cup {n}
    BY <2>1 DEF Live, Exist, TypeInv
  <2>9. QED
    BY <2>1, <2>6, <2>7, <2>8 DEF TypeInv
<1>3. QED
  BY <1>1, <1>2

LEMMA NotifyType ==
    ASSUME TypeInv, NEW r \in Reqs, CreNotify(r) \/ UpdNotify(r) \/ DelNotify(r)
    PROVE  TypeInv'
<1>1. CASE Raise(r)
  BY <1>1, RaiseType
<1>2. CASE ~Raise(r)
  <2>1. Goto(r, "done") /\ UNCHANGED store
    BY <1>2 DEF CreNotify, UpdNotify, DelNotify
  <2>2. req' \in [Reqs -> Request]
    BY <2>1, GotoType DEF TypeInv, Pcs, Stopped
  <2>3. QED
    BY <2>1, <2>2, StoreSame
<1>3. QED
  BY <1>1, <1>2

LEMMA UpdCommitType ==
    ASSUME TypeInv, NEW r \in Reqs, UpdCommit(r)
    PROVE  TypeInv'
<1>1. CASE Raise(r)
  BY <1>1, RaiseType
<1>2. CASE ~Raise(r)
  <2>1. /\ req[r].ids \subseteq Live /\ Legal(Updated(r), accounts)
        /\ node' = Updated(r) /\ Goto(r, "updNotify") /\ UNCHANGED <<unused, accounts>>
    BY <1>2 DEF UpdCommit
  <2>2. req[r] \in Request
    BY DEF TypeInv
  <2>3. Updated(r) \in [Nodes -> WideRow]
    <3> SUFFICES ASSUME NEW n \in Nodes
                 PROVE  Updated(r)[n] \in WideRow
      BY DEF Updated
    <3>1. node[n] \in WideRow
      BY WideRows DEF TypeInv
    <3>2. QED
      BY <2>2, <3>1 DEF Updated, WideRow, Request
  <2>4. Exist(Updated(r)) \subseteq Live
    BY <2>1 DEF Exist, Live, Updated
  <2>5. req' \in [Reqs -> Request]
    BY <2>1, GotoType DEF TypeInv, Pcs
  <2>6. QED
    BY <2>1, <2>3, <2>4, <2>5, RowsStep DEF Legal
<1>3. QED
  BY <1>1, <1>2

LEMMA MovReadType ==
    ASSUME TypeInv, NEW r \in Reqs, MovTarget(r) \/ MovTree(r)
    PROVE  TypeInv'
<1>1. req[r] \in Request
  BY DEF TypeInv
<1>2. CASE MovTarget(r)
  <2> DEFINE owner == IF req[r].to \in Live THEN TargetOwner(req[r].to) ELSE NoOwner
             q == [req[r] EXCEPT !.pc = "movTree", !.owner = owner]
  <2>1. owner \in Owners \cup {NoOwner}
    BY DEF TargetOwner, Live, Exist, TypeInv, Row
  <2>2. req' = [req EXCEPT ![r] = q] /\ UNCHANGED store
    BY <1>2 DEF MovTarget
  <2> HIDE DEF owner
  <2>3. q \in Request
    BY <1>1, <2>1 DEF Request, Pcs
  <2>4. QED
    BY <2>2, <2>3, StoreSame DEF TypeInv
<1>3. CASE MovTree(r)
  <2> DEFINE pc == IF req[r].owner = NoOwner THEN "error" ELSE "movCommit"
             q == [req[r] EXCEPT !.pc = pc, !.tree = Below(req[r].ids)]
  <2>1. pc \in Pcs /\ Below(req[r].ids) \in SUBSET Nodes
    BY BelowType, LiveType DEF Pcs, Stopped
  <2>2. req' = [req EXCEPT ![r] = q] /\ UNCHANGED store
    BY <1>3 DEF MovTree
  <2> HIDE DEF pc
  <2>3. q \in Request
    BY <1>1, <2>1 DEF Request
  <2>4. QED
    BY <2>2, <2>3, StoreSame DEF TypeInv
<1>4. QED
  BY <1>2, <1>3

LEMMA MovCommitType ==
    ASSUME TypeInv, NEW r \in Reqs, MovCommit(r)
    PROVE  TypeInv'
<1>1. CASE Raise(r)
  BY <1>1, RaiseType
<1>2. CASE ~Raise(r)
  <2>1. PICK pc \in {"done", "error"} :
          /\ Legal(Reowned(r), accounts) /\ node' = Reowned(r) /\ Goto(r, pc)
          /\ UNCHANGED <<unused, accounts>>
    BY <1>2 DEF MovCommit
  <2>2. req[r] \in Request
    BY DEF TypeInv
  <2>3. \A n \in Nodes : node[n] \in WideRow
    BY WideRows DEF TypeInv
  <2>4. \A n \in Nodes : Reparented(r)[n] \in WideRow
    BY <2>2, <2>3 DEF Reparented, WideRow, Request
  <2>5. \A n \in Nodes : Reowned(r)[n] \in WideRow
    BY <2>2, <2>4 DEF Reowned, WideRow, Request
  <2>6. Reowned(r) \in [Nodes -> WideRow]
    BY <2>5 DEF Reowned
  <2>7. Exist(Reowned(r)) \subseteq Live
    BY DEF Exist, Live, Reowned, Reparented
  <2>8. req' \in [Reqs -> Request]
    BY <2>1, GotoType DEF TypeInv, Pcs, Stopped
  <2>9. QED
    BY <2>1, <2>6, <2>7, <2>8, RowsStep DEF Legal
<1>3. QED
  BY <1>1, <1>2

LEMMA DelTreeType ==
    ASSUME TypeInv, NEW r \in Reqs, DelTree(r)
    PROVE  TypeInv'
<1> DEFINE q == [req[r] EXCEPT !.pc = "delCommit", !.tree = Below(req[r].ids)]
<1>1. req[r] \in Request /\ Below(req[r].ids) \in SUBSET Nodes
  BY BelowType, LiveType DEF TypeInv
<1>2. q \in Request
  BY <1>1 DEF Request, Pcs
<1>3. req' = [req EXCEPT ![r] = q] /\ UNCHANGED store
  BY DEF DelTree
<1>4. QED
  BY <1>2, <1>3, StoreSame DEF TypeInv

LEMMA DelCommitType ==
    ASSUME TypeInv, NEW r \in Reqs, DelCommit(r)
    PROVE  TypeInv'
<1>1. CASE Raise(r)
  BY <1>1, RaiseType
<1>2. CASE ~Raise(r)
  <2>1. PICK D : DropRows(D) /\ Goto(r, "delNotify")
    BY <1>2 DEF DelCommit
  <2>2. req' \in [Reqs -> Request]
    BY <2>1, GotoType DEF TypeInv, Pcs
  <2>3. node' \in [Nodes -> Row \cup {NoRow}] /\ Live' \subseteq Live
    BY <2>1 DEF DropRows, Live, Exist, TypeInv
  <2>4. QED
    BY <2>1, <2>2, <2>3 DEF DropRows, TypeInv
<1>3. QED
  BY <1>1, <1>2

LEMMA TypeStep == TypeInv /\ [Next]_vars => TypeInv'
<1> SUFFICES ASSUME TypeInv, [Next]_vars
             PROVE  TypeInv'
  OBVIOUS
<1>1. CASE UNCHANGED vars
  BY <1>1 DEF vars, TypeInv, Live, Exist
<1>2. ASSUME NEW r \in Reqs, Begin(r)
      PROVE  TypeInv'
  BY <1>2, BeginType
<1>3. ASSUME NEW r \in Reqs, Step(r)
      PROVE  TypeInv'
  BY <1>3, CreReadType, CreInsertType, NotifyType, UpdCommitType, MovReadType, MovCommitType,
     DelTreeType, DelCommitType DEF Step
<1>4. QED
  BY <1>1, <1>2, <1>3 DEF Next

LEMMA InitType == Init => TypeInv
BY StartAssumption, NoRequestType DEF Init, TypeInv, Live, Exist

LEMMA TypeInvariant == Spec => []TypeInv
BY InitType, TypeStep, PTL DEF Spec

\* Only what a request names becomes a stray.
LEMMA StraysType ==
    TypeInv /\ strays \subseteq Nodes /\ [Next]_vars => (strays \subseteq Nodes)'
<1> SUFFICES ASSUME TypeInv, strays \subseteq Nodes, [Next]_vars
             PROVE  strays' \subseteq Nodes
  OBVIOUS
<1>1. ASSUME NEW r \in Reqs, UpdCommit(r)
      PROVE  strays' \subseteq Nodes
  <2>1. req[r].ids \subseteq Nodes
    BY <1>1 DEF TypeInv, Request
  <2>2. Strayed(r) \subseteq Nodes
    BY <2>1 DEF Strayed
  <2>3. QED
    BY <1>1, <2>2 DEF UpdCommit, Raise
<1>2. ASSUME NEW r \in Reqs, MovCommit(r)
      PROVE  strays' \subseteq Nodes
  BY <1>2 DEF MovCommit, Raise
<1>3. ASSUME NEW r \in Reqs, Begin(r) \/ Step(r), ~UpdCommit(r), ~MovCommit(r)
      PROVE  strays' = strays
  BY <1>3, Zenon
  DEF Begin, BeginCreate, BeginRename, BeginReparent, BeginMove, BeginDelete, Step, CreRead,
      CreInsert, CreNotify, UpdNotify, MovTarget, MovTree, DelTree, DelCommit, DelNotify, Raise
<1>4. CASE UNCHANGED vars
  BY <1>4 DEF vars
<1>5. QED
  BY <1>1, <1>2, <1>3, <1>4 DEF Next

\* Every reachable state has the right types: the rows written by creations,
\* updates and moves name an account, and no identity in use is handed out again.
THEOREM TypeCorrect == Spec => []TypeOK
<1>1. TypeInv /\ strays \subseteq Nodes => TypeOK
  BY DEF TypeInv, TypeOK
<1>2. Init => strays \subseteq Nodes
  BY DEF Init
<1>3. TypeInv /\ strays \subseteq Nodes /\ [Next]_vars => (strays \subseteq Nodes)'
  BY StraysType
<1>4. QED
  BY <1>1, <1>2, <1>3, TypeInvariant, PTL DEF Spec

-----------------------------------------------------------------------------
(* What a step of one request leaves alone *)

\* A record of a request whose fields some EXCEPT changed is the only one changed.
LEMMA OthersWait ==
    ASSUME TypeInv, NEW r \in Reqs, Begin(r) \/ Step(r), NEW q \in Reqs, q # r
    PROVE  req'[q] = req[q]
<1>1. CASE Begin(r)
  BY <1>1 DEF Begin, BeginCreate, BeginRename, BeginReparent, BeginMove, BeginDelete, TypeInv
<1>2. CASE CreRead(r) \/ CreInsert(r) \/ CreNotify(r)
  BY <1>2 DEF CreRead, CreInsert, CreNotify, Raise, Goto, TypeInv
<1>3. CASE UpdCommit(r) \/ UpdNotify(r)
  BY <1>3 DEF UpdCommit, UpdNotify, Raise, Goto, TypeInv
<1>4. CASE MovTarget(r) \/ MovTree(r) \/ MovCommit(r)
  BY <1>4 DEF MovTarget, MovTree, MovCommit, Raise, Goto, TypeInv
<1>5. CASE DelTree(r) \/ DelCommit(r) \/ DelNotify(r)
  BY <1>5 DEF DelTree, DelCommit, DelNotify, Raise, Goto, TypeInv
<1>6. QED
  BY SMTT(30), <1>1, <1>2, <1>3, <1>4, <1>5 DEF Step

\* A handler goes on with the request it began with; only a creation adds to
\* what the request names: the new node.
LEMMA SameRequest ==
    ASSUME TypeInv, NEW r \in Reqs, Step(r)
    PROVE  /\ req'[r].to = req[r].to /\ req'[r].op = req[r].op
           /\ ~CreInsert(r) => req'[r].ids = req[r].ids
<1>0. req[r] \in Request
  BY DEF TypeInv
<1>1. CASE CreRead(r)
  BY <1>0, <1>1 DEF CreRead, Raise, Goto, TypeInv, Request
<1>2. CASE CreInsert(r)
  BY <1>0, <1>2 DEF CreInsert, Raise, Goto, TypeInv, Request
<1>3. CASE CreNotify(r) \/ UpdCommit(r) \/ UpdNotify(r) \/ MovCommit(r) \/ DelCommit(r) \/ DelNotify(r)
  BY <1>0, <1>3 DEF CreNotify, UpdCommit, UpdNotify, MovCommit, DelCommit, DelNotify, Raise, Goto,
     TypeInv, Request
<1>4. CASE MovTarget(r) \/ MovTree(r) \/ DelTree(r)
  BY <1>0, <1>4 DEF MovTarget, MovTree, DelTree, TypeInv, Request
<1>5. QED
  BY <1>1, <1>2, <1>3, <1>4 DEF Step

LEMMA BeginStore == \A r : Begin(r) => UNCHANGED <<store, sent, strays>>
BY DEF Begin, BeginCreate, BeginRename, BeginReparent, BeginMove, BeginDelete

\* Rows come from unused identities, and an identity that was given away does
\* not become unused again.
LEMMA Identities ==
    ASSUME TypeInv, NEW r \in Reqs, Begin(r) \/ Step(r)
    PROVE  unused' \subseteq unused /\ Live' \subseteq Live \cup (unused \ unused')
<1>1. CASE UNCHANGED store
  BY <1>1 DEF store, Live, Exist
<1>2. CASE CreInsert(r) /\ ~UNCHANGED store
  <2> DEFINE n == CHOOSE m \in unused : TRUE
             rows == [node EXCEPT ![n] = [parent |-> req[r].to, owner |-> req[r].owner,
                                          title |-> req[r].title]]
  <2>1. n \in unused /\ node' = rows /\ unused' = unused \ {n}
    BY <1>2 DEF CreInsert, Raise
  <2> HIDE DEF n
  <2>2. QED
    BY <2>1 DEF Live, Exist, TypeInv
<1>3. CASE UpdCommit(r) /\ ~UNCHANGED store
  <2>1. req[r].ids \subseteq Live /\ node' = Updated(r) /\ unused' = unused
    BY <1>3 DEF UpdCommit, Raise
  <2>2. QED
    BY <2>1 DEF Updated, Live, Exist
<1>4. CASE MovCommit(r) /\ ~UNCHANGED store
  <2>1. node' = Reowned(r) /\ unused' = unused
    BY <1>4 DEF MovCommit, Raise
  <2>2. QED
    BY <2>1 DEF Reowned, Reparented, Live, Exist
<1>5. CASE DelCommit(r) /\ ~UNCHANGED store
  <2>1. PICK D : DropRows(D)
    BY <1>5 DEF DelCommit, Raise
  <2>2. QED
    BY <2>1 DEF DropRows, Live, Exist
<1>6. QED
  BY <1>1, <1>2, <1>3, <1>4, <1>5, BeginStore
  DEF Step, CreRead, CreNotify, UpdNotify, MovTarget, MovTree, DelTree, DelNotify, Raise

-----------------------------------------------------------------------------
(* The index is told of nodes that are gone *)

\* No request names an identity before a node has it.
NamedInv == \A r \in Reqs : req[r].to \notin unused /\ req[r].ids \cap unused = {}

\* A delete drops every node of its request that still exists: those it saw are
\* among the descendants it read, and no other one appears.
DropInv ==
    /\ \A r \in Reqs : At(r, "delCommit") => req[r].ids \cap Live \subseteq req[r].tree
    /\ \A r \in Reqs : At(r, "delNotify") => req[r].ids \cap Live = {}
    /\ \A n \in Nodes : <<"index_remove", n>> \in sent => n \notin Live \cup unused

LEMMA NamedStep ==
    ASSUME TypeInv, NamedInv, NEW r \in Reqs, Begin(r) \/ Step(r)
    PROVE  NamedInv'
<1> SUFFICES ASSUME NEW q \in Reqs
             PROVE  req'[q].to \notin unused' /\ req'[q].ids \cap unused' = {}
  BY DEF NamedInv
<1>1. unused' \subseteq unused
  BY Identities
<1>2. CASE q # r
  BY <1>1, <1>2, OthersWait DEF NamedInv
<1>3. CASE q = r /\ Begin(r)
  <2>1. req'[r].to \in Live \cup {NoNode} /\ req'[r].ids \subseteq Live
    <3>1. NoRequest.to = NoNode /\ NoRequest.ids = {}
      BY DEF NoRequest
    <3>2. CASE BeginCreate(r)
      BY <3>2 DEF BeginCreate, NoRequest, TypeInv
    <3>3. CASE BeginRename(r)
      BY <3>3 DEF BeginRename, NoRequest, TypeInv
    <3>4. CASE BeginReparent(r)
      BY <3>4 DEF BeginReparent, Movable, NoRequest, TypeInv
    <3>5. CASE BeginMove(r)
      BY <3>5 DEF BeginMove, Selections, NoRequest, TypeInv
    <3>6. CASE BeginDelete(r)
      BY <3>6 DEF BeginDelete, Selections, NoRequest, TypeInv
    <3>7. QED
      BY <1>3, <3>2, <3>3, <3>4, <3>5, <3>6 DEF Begin
  <2>2. QED
    BY <1>1, <1>3, <2>1, SentinelsAssumption DEF TypeInv
<1>4. CASE q = r /\ Step(r) /\ ~CreInsert(r)
  BY <1>1, <1>4, SameRequest DEF NamedInv
<1>5. CASE q = r /\ CreInsert(r)
  <2>1. req'[r].to = req[r].to
    BY <1>5, SameRequest DEF Step
  <2>2. CASE Raise(r)
    BY <1>1, <1>5, <2>1, <2>2 DEF Raise, Goto, NamedInv, TypeInv, Request
  <2>3. CASE ~Raise(r)
    <3>1. PICK n : req' = [req EXCEPT ![r].pc = "creNotify", ![r].ids = {n}] /\ unused' = unused \ {n}
      BY <1>5, <2>3 DEF CreInsert
    <3>2. req'[r].ids = {n}
      BY <3>1 DEF TypeInv, Request
    <3>3. QED
      BY <1>1, <1>5, <2>1, <3>1, <3>2 DEF NamedInv
  <2>4. QED
    BY <2>2, <2>3
<1>6. QED
  BY <1>2, <1>3, <1>4, <1>5

\* What a query reads of S and what a DELETE drops of it hold S.
LEMMA BelowHolds == \A S : S \cap Live \subseteq Below(S) /\ S \cap Live \subseteq Doomed(S)
BY DEF Below, Doomed, Least

\* One request moves on, and the others keep what they know of the store.
LEMMA DropOthers ==
    ASSUME TypeInv, NamedInv, DropInv, NEW r \in Reqs, Begin(r) \/ Step(r), NEW q \in Reqs, q # r
    PROVE  /\ (At(q, "delCommit") => req[q].ids \cap Live \subseteq req[q].tree)'
           /\ (At(q, "delNotify") => req[q].ids \cap Live = {})'
<1>1. req'[q] = req[q]
  BY OthersWait
<1>2. Live' \subseteq Live \cup unused
  BY Identities
<1>3. QED
  BY <1>1, <1>2 DEF DropInv, NamedInv, At

\* The places of a delete handler are reached from one another only.
LEMMA DropSelf ==
    ASSUME TypeInv, NamedInv, DropInv, NEW r \in Reqs, Begin(r) \/ Step(r)
    PROVE  /\ (At(r, "delCommit") => req[r].ids \cap Live \subseteq req[r].tree)'
           /\ (At(r, "delNotify") => req[r].ids \cap Live = {})'
<1>0. req[r] \in Request /\ req \in [Reqs -> Request]
  BY DEF TypeInv
<1>1. CASE DelTree(r)
  <2>1. /\ req'[r].pc = "delCommit" /\ req'[r].ids = req[r].ids
        /\ req'[r].tree = Below(req[r].ids) /\ Live' = Live
    BY <1>0, <1>1 DEF DelTree, Request, store, Live, Exist
  <2>2. QED
    BY <2>1, BelowHolds DEF At
<1>2. CASE DelCommit(r)
  <2>1. CASE Raise(r)
    BY <1>0, <2>1 DEF Raise, Goto, At, Request
  <2>2. CASE ~Raise(r)
    <3>1. At(r, "delCommit") /\ DropRows(Doomed(req[r].tree)) /\ Goto(r, "delNotify")
      BY <1>2, <2>2 DEF DelCommit
    <3>2. Live' = Live \ Doomed(req[r].tree)
      BY <3>1 DEF DropRows, Live, Exist
    <3>3. req[r].ids \cap Live \subseteq Doomed(req[r].tree)
      BY <3>1, BelowHolds DEF DropInv
    <3>4. req'[r].ids = req[r].ids /\ req'[r].pc = "delNotify"
      BY <1>0, <3>1 DEF Goto, Request
    <3>5. QED
      BY <3>2, <3>3, <3>4 DEF At
  <2>3. QED
    BY <2>1, <2>2
<1>3. ASSUME ~DelTree(r), ~DelCommit(r)
      PROVE  req'[r].pc \notin {"delCommit", "delNotify"}
  <2>1. CASE BeginCreate(r)
    BY <1>0, <2>1 DEF BeginCreate, NoRequest
  <2>2. CASE BeginRename(r)
    BY <1>0, <2>2 DEF BeginRename, NoRequest
  <2>3. CASE BeginReparent(r)
    BY <1>0, <2>3 DEF BeginReparent, NoRequest
  <2>4. CASE BeginMove(r)
    BY <1>0, <2>4 DEF BeginMove, NoRequest
  <2>5. CASE BeginDelete(r)
    BY <1>0, <2>5 DEF BeginDelete, NoRequest
  <2>6. CASE CreRead(r) \/ CreInsert(r) \/ CreNotify(r)
    BY <1>0, <2>6 DEF CreRead, CreInsert, CreNotify, Raise, Goto, Request
  <2>7. CASE UpdCommit(r) \/ UpdNotify(r) \/ DelNotify(r)
    BY <1>0, <2>7 DEF UpdCommit, UpdNotify, DelNotify, Raise, Goto, Request
  <2>8. CASE MovTarget(r) \/ MovTree(r) \/ MovCommit(r)
    BY <1>0, <2>8 DEF MovTarget, MovTree, MovCommit, Raise, Goto, Request
  <2>9. QED
    BY <1>3, <2>1, <2>2, <2>3, <2>4, <2>5, <2>6, <2>7, <2>8 DEF Begin, Step
<1>4. QED
  BY <1>1, <1>2, <1>3 DEF At

\* Only DelNotify tells the index to drop nodes.
LEMMA DropSent ==
    ASSUME TypeInv, NamedInv, DropInv, NEW r \in Reqs, Begin(r) \/ Step(r),
           NEW n \in Nodes, <<"index_remove", n>> \in sent'
    PROVE  n \notin Live' \cup unused'
<1>1. n \notin Live \cup unused => n \notin Live' \cup unused'
  BY Identities
<1>2. CASE <<"index_remove", n>> \in sent
  BY <1>1, <1>2 DEF DropInv
<1>3. CASE <<"index_remove", n>> \notin sent
  <2>1. CASE DelNotify(r)
    <3>1. n \in req[r].ids /\ At(r, "delNotify")
      BY <1>3, <2>1 DEF DelNotify, Send
    <3>2. QED
      BY <1>1, <3>1 DEF DropInv, NamedInv
  <2>2. CASE CreNotify(r) \/ UpdNotify(r)
    BY <1>3, <2>2 DEF CreNotify, UpdNotify, Send, Raise
  <2>3. CASE ~DelNotify(r) /\ ~CreNotify(r) /\ ~UpdNotify(r)
    <3>1. sent' = sent
      BY <2>3, BeginStore
      DEF Step, CreRead, CreInsert, UpdCommit, MovTarget, MovTree, MovCommit, DelTree, DelCommit, Raise
    <3>2. QED
      BY <1>3, <3>1
  <2>4. QED
    BY <2>1, <2>2, <2>3
<1>4. QED
  BY <1>2, <1>3

LEMMA DropStep == TypeInv /\ NamedInv /\ DropInv /\ [Next]_vars => NamedInv' /\ DropInv'
<1> SUFFICES ASSUME TypeInv, NamedInv, DropInv, [Next]_vars
             PROVE  NamedInv' /\ DropInv'
  OBVIOUS
<1>1. CASE UNCHANGED vars
  BY <1>1 DEF vars, NamedInv, DropInv, Live, Exist, At
<1>2. ASSUME NEW r \in Reqs, Begin(r) \/ Step(r)
      PROVE  NamedInv' /\ DropInv'
  <2>1. NamedInv'
    BY <1>2, NamedStep
  <2>2. ASSUME NEW q \in Reqs
        PROVE  /\ (At(q, "delCommit") => req[q].ids \cap Live \subseteq req[q].tree)'
               /\ (At(q, "delNotify") => req[q].ids \cap Live = {})'
    BY <1>2, DropSelf, DropOthers
  <2>3. DropInv'
    BY <1>2, <2>2, DropSent DEF DropInv
  <2>4. QED
    BY <2>1, <2>3
<1>3. QED
  BY <1>1, <1>2 DEF Next

LEMMA DropInit == Init => NamedInv /\ DropInv
BY SentinelsAssumption DEF Init, NamedInv, DropInv, NoRequest, At

\* Whatever handlers interleave, the search index is told to drop a node only
\* when the row of the node is gone for good.
THEOREM DroppedAreGone == Spec => []IndexDropsGone
<1>1. Spec => [](NamedInv /\ DropInv)
  BY DropInit, DropStep, TypeInvariant, PTL DEF Spec
<1>2. DropInv => IndexDropsGone
  BY DEF DropInv, IndexDropsGone
<1>3. QED
  BY <1>1, <1>2, PTL

-----------------------------------------------------------------------------
(* An account keeps its home and inbox *)

\* A move writes an owner: MovTree stops when it found none.
MoverInv == \A r \in Reqs : At(r, "movCommit") => req[r].owner \in Owners

LEMMA MoverStep ==
    ASSUME TypeInv, MoverInv, NEW r \in Reqs, Begin(r) \/ Step(r)
    PROVE  MoverInv'
<1> SUFFICES ASSUME NEW q \in Reqs, req'[q].pc = "movCommit"
             PROVE  req'[q].owner \in Owners
  BY DEF MoverInv, At
<1>0. req[r] \in Request /\ req \in [Reqs -> Request]
  BY DEF TypeInv
<1>1. CASE q # r
  BY <1>1, OthersWait DEF MoverInv, At
<1>2. CASE q = r /\ MovTree(r)
  BY <1>0, <1>2, SentinelsAssumption DEF MovTree, Request
<1>3. ASSUME q = r, ~MovTree(r)
      PROVE  req'[r].pc # "movCommit"
  <2>1. CASE BeginCreate(r)
    BY <1>0, <2>1 DEF BeginCreate, NoRequest
  <2>2. CASE BeginRename(r)
    BY <1>0, <2>2 DEF BeginRename, NoRequest
  <2>3. CASE BeginReparent(r)
    BY <1>0, <2>3 DEF BeginReparent, NoRequest
  <2>4. CASE BeginMove(r)
    BY <1>0, <2>4 DEF BeginMove, NoRequest
  <2>5. CASE BeginDelete(r)
    BY <1>0, <2>5 DEF BeginDelete, NoRequest
  <2>6. CASE CreRead(r) \/ CreInsert(r) \/ CreNotify(r)
    BY <1>0, <2>6 DEF CreRead, CreInsert, CreNotify, Raise, Goto, Request
  <2>7. CASE UpdCommit(r) \/ UpdNotify(r) \/ DelNotify(r)
    BY <1>0, <2>7 DEF UpdCommit, UpdNotify, DelNotify, Raise, Goto, Request
  <2>8. CASE MovTarget(r) \/ MovCommit(r)
    BY <1>0, <2>8 DEF MovTarget, MovCommit, Raise, Goto, Request
  <2>9. CASE DelTree(r) \/ DelCommit(r)
    BY <1>0, <2>9 DEF DelTree, DelCommit, Raise, Goto, Request
  <2>10. QED
    BY <1>3, <2>1, <2>2, <2>3, <2>4, <2>5, <2>6, <2>7, <2>8, <2>9 DEF Begin, Step
<1>4. QED
  BY <1>1, <1>2, <1>3

\* A statement that writes rows drops none: every row keeps an owner.
LEMMA RowsStay ==
    ASSUME TypeInv, MoverInv, NEW r \in Reqs, Begin(r) \/ Step(r), ~DelCommit(r)
    PROVE  Live \subseteq Live' /\ accounts' = accounts
<1>0. \A n \in Live : node[n] \in Row /\ node[n].owner # NoOwner
  BY SentinelsAssumption DEF Live, Exist, TypeInv, Row
<1>1. CASE UNCHANGED store
  BY <1>1 DEF store, Live, Exist
<1>2. CASE CreInsert(r) /\ ~UNCHANGED store
  <2>1. PICK n \in unused :
          /\ node' = [node EXCEPT ![n] = [parent |-> req[r].to, owner |-> req[r].owner,
                                          title |-> req[r].title]]
          /\ accounts' = accounts
    BY <1>2 DEF CreInsert, Raise
  <2>2. QED
    BY <2>1 DEF Live, Exist, TypeInv
<1>3. CASE UpdCommit(r) /\ ~UNCHANGED store
  <2>1. node' = Updated(r) /\ accounts' = accounts
    BY <1>3 DEF UpdCommit, Raise
  <2>2. \A n \in Live : Updated(r)[n].owner = node[n].owner
    BY <1>0, LiveType DEF Updated, Row
  <2>3. QED
    BY <1>0, <2>1, <2>2, LiveType DEF Live, Exist, NoRow
<1>4. CASE MovCommit(r) /\ ~UNCHANGED store
  <2>1. node' = Reowned(r) /\ accounts' = accounts /\ req[r].owner \in Owners
    BY <1>4 DEF MovCommit, Raise, MoverInv
  <2>2. \A n \in Live : Reparented(r)[n] \in [parent : {node[n].parent, req[r].to},
                                              owner : {node[n].owner}, title : {node[n].title}]
    BY <1>0, LiveType DEF Reparented, Row
  <2>3. \A n \in Live : Reowned(r)[n].owner \in {node[n].owner, req[r].owner}
    BY <2>2, LiveType DEF Reowned
  <2>4. QED
    BY <1>0, <2>1, <2>3, LiveType, SentinelsAssumption DEF Live, Exist, NoRow
<1>5. QED
  BY <1>1, <1>2, <1>3, <1>4, BeginStore
  DEF Step, CreRead, CreNotify, UpdNotify, MovTarget, MovTree, DelTree, DelNotify, Raise

LEMMA AccountsStep ==
    ASSUME TypeInv, MoverInv, AccountsKeepFolders, NEW r \in Reqs, Begin(r) \/ Step(r)
    PROVE  AccountsKeepFolders'
<1>1. CASE ~DelCommit(r)
  BY <1>1, RowsStay DEF AccountsKeepFolders
<1>2. CASE DelCommit(r) /\ Raise(r)
  BY <1>2 DEF Raise, store, AccountsKeepFolders, Live, Exist
<1>3. CASE DelCommit(r) /\ ~Raise(r)
  <2>1. PICK D : DropRows(D)
    BY <1>3 DEF DelCommit
  <2>2. Live' = Live \ D
    BY <2>1 DEF DropRows, Live, Exist
  <2>3. \A o \in accounts' : o \in accounts /\ Special[o] \cap D = {}
    BY <2>1 DEF DropRows, DoomedAccounts
  <2>4. QED
    BY <2>2, <2>3 DEF AccountsKeepFolders
<1>4. QED
  BY <1>1, <1>2, <1>3

LEMMA AccountsNext ==
    TypeInv /\ MoverInv /\ AccountsKeepFolders /\ [Next]_vars
        => MoverInv' /\ AccountsKeepFolders'
<1> SUFFICES ASSUME TypeInv, MoverInv, AccountsKeepFolders, [Next]_vars
             PROVE  MoverInv' /\ AccountsKeepFolders'
  OBVIOUS
<1>1. CASE UNCHANGED vars
  BY <1>1 DEF vars, MoverInv, AccountsKeepFolders, Live, Exist, At
<1>2. ASSUME NEW r \in Reqs, Begin(r) \/ Step(r)
      PROVE  MoverInv' /\ AccountsKeepFolders'
  BY <1>2, MoverStep, AccountsStep
<1>3. QED
  BY <1>1, <1>2 DEF Next

LEMMA AccountsInit == Init => MoverInv /\ AccountsKeepFolders
<1> SUFFICES ASSUME Init
             PROVE  MoverInv /\ AccountsKeepFolders
  OBVIOUS
<1>1. MoverInv
  BY DEF Init, MoverInv, NoRequest, At
<1>2. ASSUME NEW o \in Owners, NEW n \in Special[o]
      PROVE  n \in Live
  <2>1. /\ n \in Nodes
        /\ Start[n] = [parent |-> NoNode, owner |-> o, title |-> NoTitle]
    <3>1. n \in Nodes
      BY <1>2, SpecialAssumption
    <3>2. \A p \in Owners : \A k \in Special[p] :
            Start[k] = [parent |-> NoNode, owner |-> p, title |-> NoTitle]
      BY StartAssumption
    <3>3. QED
      BY <1>2, <3>1, <3>2
  <2>2. Start[n] # NoRow
    BY <1>2, <2>1, SentinelsAssumption DEF NoRow
  <2>3. QED
    BY <2>1, <2>2 DEF Init, Live, Exist
<1>3. QED
  BY <1>1, <1>2 DEF Init, AccountsKeepFolders

\* Whatever is deleted, by requests in any order, an account whose row exists
\* has its home and inbox.
THEOREM AccountsHaveFolders == Spec => []AccountsKeepFolders
<1>1. Spec => [](MoverInv /\ AccountsKeepFolders)
  BY AccountsInit, AccountsNext, TypeInvariant, PTL DEF Spec
<1>2. QED
  BY <1>1, PTL

-----------------------------------------------------------------------------
(* The inductive invariant *)

Moving == {"movTarget", "movTree", "movCommit"}

\* Parents exist (the foreign key parent_id).
ParentsInv == \A n \in Live : node[n].parent \in Live \cup {NoNode}

\* A move is alone from its first query to its commit.
AloneInv ==
    \A r \in Reqs : req[r].pc \in Moving =>
        /\ req[r].op = "move"
        /\ \A q \in Reqs : q # r => req[q].pc \in Stopped

\* What a handler read of the tree still holds when it writes: the owner of the
\* parent, the descendants of what is moved.
ReadInv ==
    \A r \in Reqs :
        /\ req[r].pc \in {"creInsert", "movTree", "movCommit"} /\ req[r].to \in Live =>
               req[r].owner = node[req[r].to].owner
        /\ req[r].pc = "movCommit" => req[r].tree = Below(req[r].ids)

OwnerInv == ParentsInv /\ OwnersFollowParents /\ AloneInv /\ ReadInv

-----------------------------------------------------------------------------
(* The recursive query *)

\* What stays outside the descendants of S does not hang below one of them.
LEMMA BelowClosed ==
    ASSUME NEW S, NEW n \in Live, n \notin Below(S)
    PROVE  node[n].parent \notin Below(S)
<1> DEFINE live == Live
           family == {X \in SUBSET live : S \cap live \subseteq X
                                        /\ \A m \in live \ X : node[m].parent \notin X}
<1>1. \A m : m \in Below(S) <=> m \in Live /\ \A X \in family : m \in X
  BY DEF Below, Least
<1>2. PICK X \in family : n \notin X
  BY <1>1
<1>3. node[n].parent \notin X
  BY <1>2
<1>4. QED
  BY <1>1, <1>2, <1>3

\* A descendant that is not in S itself hangs below a descendant.
LEMMA BelowHangs ==
    ASSUME NEW S, NEW n \in Below(S), n \notin S
    PROVE  node[n].parent \in Below(S)
<1> DEFINE live == Live
           family == {X \in SUBSET live : S \cap live \subseteq X
                                        /\ \A m \in live \ X : node[m].parent \notin X}
           X == Below(S) \ {n}
<1>1. \A m : m \in Below(S) <=> m \in Live /\ \A Y \in family : m \in Y
  BY DEF Below, Least
<1> SUFFICES ASSUME node[n].parent \notin Below(S)
             PROVE  FALSE
  OBVIOUS
<1>2. X \subseteq live /\ S \cap live \subseteq X
  BY <1>1, BelowHolds
<1>3. \A m \in live \ X : node[m].parent \notin X
  BY BelowClosed
<1>4. X \in family
  BY <1>2, <1>3
<1>5. QED
  BY <1>1, <1>4

-----------------------------------------------------------------------------
(* Which handlers overlap *)

\* A handler that takes a step is at work.
LEMMA StepBusy ==
    ASSUME NEW r \in Reqs, Step(r)
    PROVE  req[r].pc \notin Stopped
BY DEF Step, CreRead, CreInsert, CreNotify, UpdCommit, UpdNotify, MovTarget, MovTree, MovCommit,
   DelTree, DelCommit, DelNotify, At, Stopped

\* Only move_nodes is in the places of a move.
LEMMA StepMoving ==
    ASSUME TypeInv, NEW r \in Reqs, Step(r), req'[r].pc \in Moving
    PROVE  MovTarget(r) \/ MovTree(r)
<1>0. req[r] \in Request /\ req \in [Reqs -> Request]
  BY DEF TypeInv
<1>1. CASE CreRead(r) \/ CreInsert(r) \/ CreNotify(r)
  BY <1>0, <1>1 DEF CreRead, CreInsert, CreNotify, Raise, Goto, Request, Moving
<1>2. CASE UpdCommit(r) \/ UpdNotify(r) \/ MovCommit(r)
  BY <1>0, <1>2 DEF UpdCommit, UpdNotify, MovCommit, Raise, Goto, Request, Moving
<1>3. CASE DelTree(r) \/ DelCommit(r) \/ DelNotify(r)
  BY <1>0, <1>3 DEF DelTree, DelCommit, DelNotify, Raise, Goto, Request, Moving
<1>4. QED
  BY <1>1, <1>2, <1>3 DEF Step

\* What a request begins with.
LEMMA BeginReq ==
    ASSUME TypeInv, NEW r \in Reqs, Begin(r)
    PROVE  \E op \in Handlers : MayBegin(r, op) /\ req'[r].op = op
                             /\ (req'[r].pc \in Moving => op = "move" /\ req'[r].pc = "movTarget")
                             /\ req'[r].pc # "creInsert"
<1> USE DEF Handlers, TypeInv, NoRequest, Moving
<1>1. CASE BeginCreate(r)
  BY <1>1 DEF BeginCreate
<1>2. CASE BeginRename(r)
  BY <1>2 DEF BeginRename
<1>3. CASE BeginReparent(r)
  BY <1>3 DEF BeginReparent
<1>4. CASE BeginMove(r)
  BY <1>4 DEF BeginMove
<1>5. CASE BeginDelete(r)
  BY <1>5 DEF BeginDelete
<1>6. QED
  BY <1>1, <1>2, <1>3, <1>4, <1>5 DEF Begin

LEMMA AloneStep ==
    ASSUME TypeInv, AloneInv, "move" \in Exclusive, NEW r \in Reqs, Begin(r) \/ Step(r)
    PROVE  AloneInv'
<1>0. \A q \in Reqs : q # r => req'[q] = req[q]
  BY OthersWait
<1>1. CASE Begin(r)
  <2>1. PICK op \in Handlers : /\ MayBegin(r, op) /\ req'[r].op = op
                               /\ req'[r].pc \in Moving => op = "move"
    BY <1>1, BeginReq
  <2>2. \A q \in Reqs : req[q].pc \notin Stopped => {op, req[q].op} \cap Exclusive = {}
    BY <2>1 DEF MayBegin
  <2>3. \A q \in Reqs : req[q].pc \notin Moving
    <3> SUFFICES ASSUME NEW q \in Reqs, req[q].pc \in Moving
                 PROVE  FALSE
      OBVIOUS
    <3>1. req[q].op = "move" /\ req[q].pc \notin Stopped
      BY DEF AloneInv, Moving, Stopped
    <3>2. QED
      BY <2>2, <3>1
  <2>4. op = "move" => \A q \in Reqs : req[q].pc \in Stopped
    BY <2>2
  <2>5. QED
    BY <1>0, <2>1, <2>3, <2>4 DEF AloneInv
<1>2. CASE Step(r)
  <2>1. req[r].pc \notin Stopped
    BY <1>2, StepBusy
  <2>2. \A q \in Reqs : q # r => req'[q].pc \notin Moving
    BY <1>0, <2>1 DEF AloneInv
  <2>3. ASSUME req'[r].pc \in Moving
        PROVE  /\ req'[r].op = "move"
               /\ \A q \in Reqs : q # r => req'[q].pc \in Stopped
    <3>1. MovTarget(r) \/ MovTree(r)
      BY <1>2, <2>3, StepMoving
    <3>2. req[r].pc \in Moving
      BY <3>1 DEF MovTarget, MovTree, At, Moving
    <3>3. req'[r].op = req[r].op
      BY <1>2, SameRequest
    <3>4. QED
      BY <1>0, <3>2, <3>3 DEF AloneInv
  <2>4. QED
    BY <2>2, <2>3 DEF AloneInv
<1>3. QED
  BY <1>1, <1>2

-----------------------------------------------------------------------------
(* The owners of rows *)

\* Only a move changes the owner of a row.
LEMMA OwnersStay ==
    ASSUME TypeInv, NEW r \in Reqs, Begin(r) \/ Step(r), ~MovCommit(r),
           NEW n \in Live, n \in Live'
    PROVE  node'[n].owner = node[n].owner
<1>0. n \in Nodes /\ n \notin unused /\ node[n] \in Row
  BY DEF Live, Exist, TypeInv
<1>1. CASE UNCHANGED store
  BY <1>1 DEF store
<1>2. CASE CreInsert(r) /\ ~UNCHANGED store
  <2>1. PICK k \in unused :
          node' = [node EXCEPT ![k] = [parent |-> req[r].to, owner |-> req[r].owner,
                                       title |-> req[r].title]]
    BY <1>2 DEF CreInsert, Raise
  <2>2. QED
    BY <1>0, <2>1 DEF TypeInv
<1>3. CASE UpdCommit(r) /\ ~UNCHANGED store
  <2>1. node' = Updated(r)
    BY <1>3 DEF UpdCommit, Raise
  <2>2. QED
    BY <1>0, <2>1 DEF Updated, Row
<1>4. CASE DelCommit(r) /\ ~UNCHANGED store
  <2>1. PICK D : node' = [m \in Nodes |-> IF m \in D THEN NoRow ELSE node[m]]
    BY <1>4 DEF DelCommit, Raise, DropRows
  <2>2. QED
    BY <1>0, <2>1 DEF Live, Exist
<1>5. QED
  BY <1>1, <1>2, <1>3, <1>4, BeginStore
  DEF Step, CreRead, CreNotify, UpdNotify, MovTarget, MovTree, DelTree, DelNotify, Raise

\* A new node belongs to the account of its parent.
LEMMA CreInsertOwners ==
    ASSUME TypeInv, NamedInv, OwnerInv, NEW r \in Reqs, CreInsert(r), ~Raise(r)
    PROVE  ParentsInv' /\ OwnersFollowParents'
<1> DEFINE row(k) == [parent |-> req[r].to, owner |-> req[r].owner, title |-> req[r].title]
<1>1. PICK n \in unused :
        /\ Legal([node EXCEPT ![n] = row(n)], accounts)
        /\ node' = [node EXCEPT ![n] = row(n)] /\ accounts' = accounts /\ strays' = strays
  BY DEF CreInsert
<1>2. References(node', accounts)
  BY <1>1 DEF Legal
<1>3. Live' = Exist(node') /\ Live' \subseteq Live \cup {n} /\ n \in Nodes \ Live
  BY <1>1 DEF Live, Exist, TypeInv
<1>4. ParentsInv'
  BY <1>2, <1>3 DEF ParentsInv, References
<1>5. ASSUME NEW m \in Live' \ strays', node'[m].parent # NoNode
      PROVE  node'[m].owner = node'[node'[m].parent].owner
  <2>1. node'[m].parent \in Live'
    BY <1>4, <1>5 DEF ParentsInv
  <2>2. CASE m = n
    <3>1. node'[m].parent = req[r].to /\ node'[m].owner = req[r].owner
      BY <1>1, <1>3, <2>2 DEF TypeInv
    <3>2. req[r].to # n
      BY DEF NamedInv
    <3>3. req[r].to \in Live
      BY <1>3, <2>1, <3>1, <3>2
    <3>4. node'[req[r].to] = node[req[r].to]
      BY <1>1, <3>2, <3>3, LiveType DEF TypeInv
    <3>5. At(r, "creInsert")
      BY DEF CreInsert
    <3>6. QED
      BY <3>1, <3>3, <3>4, <3>5 DEF OwnerInv, ReadInv, At
  <2>3. CASE m # n
    <3>1. m \in Live /\ m \in Nodes /\ node'[m] = node[m]
      BY <1>1, <1>3, <2>3, LiveType DEF TypeInv
    <3>2. node[m].parent \in Live /\ node'[node[m].parent] = node[node[m].parent]
      BY <1>1, <1>3, <1>5, <3>1, LiveType DEF OwnerInv, ParentsInv, TypeInv
    <3>3. node[m].owner = node[node[m].parent].owner
      BY <1>1, <1>5, <3>1 DEF OwnerInv, OwnersFollowParents
    <3>4. QED
      BY <3>1, <3>2, <3>3
  <2>4. QED
    BY <2>2, <2>3
<1>6. QED
  BY <1>3, <1>4, <1>5 DEF OwnersFollowParents

\* A node gets a parent of its own account, or becomes a stray.
LEMMA UpdCommitOwners ==
    ASSUME TypeInv, OwnerInv, NEW r \in Reqs, UpdCommit(r), ~Raise(r)
    PROVE  ParentsInv' /\ OwnersFollowParents'
<1>1. /\ At(r, "updCommit") /\ node' = Updated(r) /\ accounts' = accounts
      /\ req[r].ids \subseteq Live /\ References(node', accounts)
      /\ strays' = IF req[r].to = NoNode THEN strays ELSE (strays \ req[r].ids) \cup Strayed(r)
  BY DEF UpdCommit, Legal
<1>2. Live' = Exist(node') /\ Live' \subseteq Live
  BY <1>1 DEF Live, Exist, Updated
<1>3. ParentsInv'
  BY <1>1, <1>2 DEF ParentsInv, References
<1>4. \A n \in Live : node'[n].owner = node[n].owner
  BY <1>1, LiveType DEF Updated, Live, Exist, TypeInv, Row
<1>5. \A n \in Live : node'[n].parent = IF n \in req[r].ids /\ req[r].to # NoNode
                                        THEN req[r].to ELSE node[n].parent
  BY <1>1, LiveType DEF Updated, Live, Exist, TypeInv, Row
<1>6. ASSUME NEW m \in Live' \ strays', node'[m].parent # NoNode
      PROVE  node'[m].owner = node'[node'[m].parent].owner
  <2>1. m \in Live /\ node'[m].parent \in Live
    BY <1>2, <1>3, <1>6 DEF ParentsInv
  <2>2. CASE m \in req[r].ids /\ req[r].to # NoNode
    <3>1. m \notin Strayed(r)
      BY <1>1, <1>6, <2>2
    <3>2. node[m].owner = node[req[r].to].owner
      BY <2>2, <3>1 DEF Strayed
    <3>3. QED
      BY <1>4, <1>5, <2>1, <2>2, <3>2
  <2>3. CASE ~(m \in req[r].ids /\ req[r].to # NoNode)
    <3>1. m \notin strays /\ node'[m].parent = node[m].parent
      BY <1>1, <1>5, <1>6, <2>1, <2>3
    <3>2. node[m].owner = node[node[m].parent].owner
      BY <1>6, <2>1, <3>1 DEF OwnerInv, OwnersFollowParents
    <3>3. QED
      BY <1>4, <2>1, <3>1, <3>2
  <2>4. QED
    BY <2>2, <2>3
<1>7. QED
  BY <1>3, <1>6 DEF OwnersFollowParents

\* What a move takes along gets the owner of the target, and nothing else hangs
\* below it.
LEMMA MovCommitOwners ==
    ASSUME TypeInv, OwnerInv, NEW r \in Reqs, MovCommit(r), ~Raise(r)
    PROVE  ParentsInv' /\ OwnersFollowParents'
<1> DEFINE tree == Below(req[r].ids)
<1>1. /\ req[r].pc = "movCommit" /\ node' = Reowned(r) /\ accounts' = accounts
      /\ References(node', accounts) /\ strays' = strays \ req[r].tree
  BY DEF MovCommit, Legal, At
<1>2. req[r].tree = tree
  BY <1>1 DEF OwnerInv, ReadInv
<1>3. Live' = Exist(node') /\ Live' \subseteq Live
  BY <1>1 DEF Live, Exist, Reowned, Reparented
<1>4. ParentsInv'
  BY <1>1, <1>3 DEF ParentsInv, References
<1>5. \A n \in Live : node[n] \in Row /\ n \in Nodes
  BY DEF Live, Exist, TypeInv
<1>6. \A n \in Live : Reparented(r)[n] \in Row \cup WideRow /\ Reparented(r)[n].owner = node[n].owner
                   /\ Reparented(r)[n].parent = IF n \in req[r].ids THEN req[r].to ELSE node[n].parent
  <2>1. req[r].to \in Nodes \cup {NoNode}
    BY DEF TypeInv, Request
  <2>2. QED
    BY <1>5, <2>1 DEF Reparented, Row, WideRow
<1>7. \A n \in Live : node'[n].owner = IF n \in tree THEN req[r].owner ELSE node[n].owner
  BY <1>1, <1>2, <1>5, <1>6 DEF Reowned, Row, WideRow
<1>8. \A n \in Live : node'[n].parent = IF n \in req[r].ids THEN req[r].to ELSE node[n].parent
  BY <1>1, <1>2, <1>5, <1>6 DEF Reowned, Row, WideRow
<1>9. ASSUME NEW m \in Live' \ strays', node'[m].parent # NoNode
      PROVE  node'[m].owner = node'[node'[m].parent].owner
  <2>1. m \in Live /\ node'[m].parent \in Live
    BY <1>3, <1>4, <1>9 DEF ParentsInv
  <2>2. CASE m \in req[r].ids
    <3>1. m \in tree /\ node'[m].parent = req[r].to
      BY <1>8, <2>1, <2>2, BelowHolds
    <3>2. req[r].owner = node[req[r].to].owner
      BY <1>1, <2>1, <3>1 DEF OwnerInv, ReadInv
    <3>3. QED
      BY <1>7, <2>1, <3>1, <3>2
  <2>3. CASE m \notin req[r].ids
    <3>1. node'[m].parent = node[m].parent
      BY <1>8, <2>1, <2>3
    <3>2. m \in tree <=> node[m].parent \in tree
      BY <2>1, <2>3, BelowHangs, BelowClosed
    <3>3. m \notin tree => node[m].owner = node[node[m].parent].owner
      BY <1>1, <1>2, <1>9, <2>1, <3>1 DEF OwnerInv, OwnersFollowParents
    <3>4. QED
      BY <1>7, <2>1, <3>1, <3>2, <3>3
  <2>4. QED
    BY <2>2, <2>3
<1>10. QED
  BY <1>3, <1>4, <1>9 DEF OwnersFollowParents

\* What stays after a delete keeps its parent.
LEMMA DelCommitOwners ==
    ASSUME TypeInv, OwnerInv, NEW r \in Reqs, DelCommit(r), ~Raise(r)
    PROVE  ParentsInv' /\ OwnersFollowParents'
<1>1. PICK D : Removable(D) /\ DropRows(D) /\ strays' = strays
  BY DEF DelCommit
<1>2. Live' = Live \ D /\ \A n \in Live' : node'[n] = node[n]
  BY <1>1 DEF DropRows, Live, Exist
<1>3. \A n \in Live' : node[n].parent \in Live' \cup {NoNode}
  BY <1>1, <1>2 DEF Removable, OwnerInv, ParentsInv
<1>4. ParentsInv'
  BY <1>2, <1>3 DEF ParentsInv
<1>5. ASSUME NEW m \in Live' \ strays', node'[m].parent # NoNode
      PROVE  node'[m].owner = node'[node'[m].parent].owner
  BY <1>1, <1>2, <1>3, <1>5 DEF OwnerInv, OwnersFollowParents
<1>6. QED
  BY <1>4, <1>5 DEF OwnersFollowParents, Live

LEMMA OwnersStep ==
    ASSUME TypeInv, NamedInv, OwnerInv, NEW r \in Reqs, Begin(r) \/ Step(r)
    PROVE  ParentsInv' /\ OwnersFollowParents'
<1>1. CASE UNCHANGED <<node, strays>>
  BY <1>1 DEF OwnerInv, ParentsInv, OwnersFollowParents, Live, Exist
<1>2. CASE ~UNCHANGED <<node, strays>>
  <2>1. CreInsert(r) \/ UpdCommit(r) \/ MovCommit(r) \/ DelCommit(r)
    BY <1>2, BeginStore
    DEF Step, CreRead, CreNotify, UpdNotify, MovTarget, MovTree, DelTree, DelNotify, Raise, store
  <2>2. ~Raise(r)
    BY <1>2 DEF Raise, store
  <2>3. QED
    BY <2>1, <2>2, CreInsertOwners, UpdCommitOwners, MovCommitOwners, DelCommitOwners
<1>3. QED
  BY <1>1, <1>2

-----------------------------------------------------------------------------
(* What handlers read *)

\* Another request acts: what q read of the tree still holds.
LEMMA ReadOthers ==
    ASSUME TypeInv, NamedInv, OwnerInv, NEW r \in Reqs, Begin(r) \/ Step(r), NEW q \in Reqs, q # r
    PROVE  /\ (req[q].pc \in {"creInsert", "movTree", "movCommit"} /\ req[q].to \in Live =>
                   req[q].owner = node[req[q].to].owner)'
           /\ (req[q].pc = "movCommit" => req[q].tree = Below(req[q].ids))'
<1>1. req'[q] = req[q]
  BY OthersWait
<1>2. Live' \subseteq Live \cup unused
  BY Identities
<1>3. CASE req[q].pc \in Moving
  <2>1. Begin(r)
    BY <1>3, StepBusy DEF OwnerInv, AloneInv
  <2>2. node' = node
    BY <2>1, BeginStore DEF store
  <2>3. QED
    BY <1>1, <1>3, <2>2 DEF OwnerInv, ReadInv, Moving, Live, Exist, Below, Least
<1>4. CASE req[q].pc \in Stopped
  BY <1>1, <1>4 DEF Stopped
<1>5. CASE req[q].pc \notin Moving \cup Stopped
  <2>1. ~MovCommit(r)
    BY <1>5 DEF MovCommit, At, Moving, OwnerInv, AloneInv
  <2>2. \A n \in Live \cap Live' : node'[n].owner = node[n].owner
    BY <2>1, OwnersStay
  <2>3. req[q].to \in Live' => req[q].to \in Live
    BY <1>2 DEF NamedInv
  <2>5. req[q].pc # "movCommit"
    BY <1>5 DEF Moving
  <2>6. (req[q].pc \in {"creInsert", "movTree", "movCommit"} /\ req[q].to \in Live =>
             req[q].owner = node[req[q].to].owner)'
    BY <1>1, <2>2, <2>3 DEF OwnerInv, ReadInv
  <2>7. QED
    BY <1>1, <2>5, <2>6
<1>6. QED
  BY <1>3, <1>4, <1>5

\* The request itself reads.
LEMMA ReadSelf ==
    ASSUME TypeInv, OwnerInv, NEW r \in Reqs, Begin(r) \/ Step(r)
    PROVE  /\ (req[r].pc \in {"creInsert", "movTree", "movCommit"} /\ req[r].to \in Live =>
                   req[r].owner = node[req[r].to].owner)'
           /\ (req[r].pc = "movCommit" => req[r].tree = Below(req[r].ids))'
<1>0. req[r] \in Request /\ req \in [Reqs -> Request]
  BY DEF TypeInv
<1>1. CASE CreRead(r) /\ ~Raise(r)
  <2>1. /\ req[r].to \in Live /\ node' = node
        /\ req'[r] = [req[r] EXCEPT !.pc = "creInsert", !.owner = node[req[r].to].owner]
    BY <1>0, <1>1 DEF CreRead, store
  <2>2. req'[r].pc = "creInsert" /\ req'[r].to = req[r].to
        /\ req'[r].owner = node[req[r].to].owner
    BY <1>0, <2>1 DEF Request
  <2>3. QED
    BY <2>1, <2>2
<1>2. CASE MovTarget(r)
  <2>1. /\ node' = node /\ Live' = Live
        /\ req'[r] = [req[r] EXCEPT !.pc = "movTree",
                                    !.owner = IF req[r].to \in Live THEN TargetOwner(req[r].to)
                                              ELSE NoOwner]
    BY <1>0, <1>2 DEF MovTarget, store, Live, Exist
  <2>2. /\ req'[r].pc = "movTree" /\ req'[r].to = req[r].to
        /\ req[r].to \in Live => req'[r].owner = node[req[r].to].owner
    BY <1>0, <2>1 DEF Request, TargetOwner
  <2>3. QED
    BY <2>1, <2>2
<1>3. CASE MovTree(r)
  <2>1. /\ node' = node /\ Live' = Live /\ req[r].pc = "movTree"
        /\ req'[r] = [req[r] EXCEPT !.pc = IF req[r].owner = NoOwner THEN "error" ELSE "movCommit",
                                    !.tree = Below(req[r].ids)]
    BY <1>0, <1>3 DEF MovTree, store, Live, Exist, At
  <2>2. /\ req'[r].pc \in {"error", "movCommit"} /\ req'[r].to = req[r].to
        /\ req'[r].owner = req[r].owner /\ req'[r].ids = req[r].ids
        /\ req'[r].tree = Below(req[r].ids)
    BY <1>0, <2>1 DEF Request
  <2>3. Below(req[r].ids)' = Below(req[r].ids)
    BY <2>1, <2>2 DEF Below, Least, Live, Exist
  <2>4. req[r].to \in Live => req[r].owner = node[req[r].to].owner
    BY <2>1 DEF OwnerInv, ReadInv
  <2>5. QED
    BY <2>1, <2>2, <2>3, <2>4
<1>6. ASSUME ~(CreRead(r) /\ ~Raise(r)), ~MovTarget(r), ~MovTree(r)
      PROVE  req'[r].pc \notin {"creInsert", "movTree", "movCommit"}
  <2>1. CASE Raise(r)
    BY <1>0, <2>1 DEF Raise, Goto, Request
  <2>2. CASE BeginCreate(r)
    BY <1>0, <2>2 DEF BeginCreate, NoRequest
  <2>3. CASE BeginMove(r)
    BY <1>0, <2>3 DEF BeginMove, NoRequest
  <2>4. CASE BeginDelete(r)
    BY <1>0, <2>4 DEF BeginDelete, NoRequest
  <2>5. CASE CreInsert(r) \/ CreNotify(r)
    BY <1>0, <2>1, <2>5 DEF CreInsert, CreNotify, Goto, Request
  <2>6. CASE UpdCommit(r) \/ UpdNotify(r) \/ MovCommit(r)
    BY <1>0, <2>1, <2>6 DEF UpdCommit, UpdNotify, MovCommit, Goto, Request
  <2>7. CASE DelTree(r) \/ DelCommit(r) \/ DelNotify(r)
    BY <1>0, <2>1, <2>7 DEF DelTree, DelCommit, DelNotify, Goto, Request
  <2>8. CASE BeginRename(r) \/ BeginReparent(r)
    BY <1>0, <2>8 DEF BeginRename, BeginReparent, NoRequest
  <2>9. QED
    BY <1>6, <2>1, <2>2, <2>3, <2>4, <2>5, <2>6, <2>7, <2>8 DEF Begin, Step
<1>7. QED
  BY <1>1, <1>2, <1>3, <1>6

LEMMA OwnerStep ==
    "move" \in Exclusive /\ TypeInv /\ NamedInv /\ OwnerInv /\ [Next]_vars => OwnerInv'
<1> SUFFICES ASSUME "move" \in Exclusive, TypeInv, NamedInv, OwnerInv, [Next]_vars
             PROVE  OwnerInv'
  OBVIOUS
<1>1. CASE UNCHANGED vars
  BY <1>1 DEF vars, OwnerInv, ParentsInv, OwnersFollowParents, AloneInv, ReadInv, Live, Exist, Below, Least
<1>2. ASSUME NEW r \in Reqs, Begin(r) \/ Step(r)
      PROVE  OwnerInv'
  <2>1. ParentsInv' /\ OwnersFollowParents'
    BY <1>2, OwnersStep
  <2>2. AloneInv'
    BY <1>2, AloneStep DEF OwnerInv
  <2>3. ReadInv'
    <3>1. ASSUME NEW q \in Reqs
          PROVE  /\ (req[q].pc \in {"creInsert", "movTree", "movCommit"} /\ req[q].to \in Live =>
                         req[q].owner = node[req[q].to].owner)'
                 /\ (req[q].pc = "movCommit" => req[q].tree = Below(req[q].ids))'
      BY <1>2, ReadSelf, ReadOthers
    <3>2. QED
      BY <3>1 DEF ReadInv
  <2>4. QED
    BY <2>1, <2>2, <2>3 DEF OwnerInv
<1>3. QED
  BY <1>1, <1>2 DEF Next

LEMMA OwnerInit == Init => OwnerInv
<1> SUFFICES ASSUME Init
             PROVE  OwnerInv
  OBVIOUS
<1>1. \A r \in Reqs : req[r].pc = "idle"
  BY DEF Init, NoRequest
<1>2. AloneInv /\ ReadInv
  BY <1>1 DEF AloneInv, ReadInv, Moving
<1>3. Legal(node, Owners) /\ OwnersFollowParents
  BY StartAssumption DEF Init, OneOwnerPerTree, OwnersFollowParents, Live
<1>4. ParentsInv
  BY <1>3 DEF Legal, References, ParentsInv, Live
<1>5. QED
  BY <1>2, <1>3, <1>4 DEF OwnerInv

\* When a move overlaps with no other handler, a node belongs to the account of
\* the folder it is in, whatever else interleaves.
THEOREM OwnersFollow ==
    ASSUME "move" \in Exclusive
    PROVE  Spec => []OwnersFollowParents
<1>1. OwnerInv => OwnersFollowParents
  BY DEF OwnerInv, OwnersFollowParents
<1>2. Spec => [](NamedInv /\ DropInv)
  BY DropInit, DropStep, TypeInvariant, PTL DEF Spec
<1>3. OwnerInv /\ (TypeInv /\ NamedInv) /\ [Next]_vars => OwnerInv'
  BY OwnerStep
<1>4. QED
  BY <1>1, <1>2, <1>3, OwnerInit, TypeInvariant, PTL DEF Spec

-----------------------------------------------------------------------------
(* Ancestors *)

AboveFamily(t) == {X \in SUBSET Live : t \in X /\ \A n \in X : node[n].parent \in X \cup {NoNode}}

LEMMA AboveIs == \A t, m : m \in Above(t) <=> m \in Live /\ \A X \in AboveFamily(t) : m \in X
BY DEF Above, Least, AboveFamily

LEMMA AboveSelf == ASSUME NEW t \in Live PROVE t \in Above(t)
BY AboveIs DEF AboveFamily

\* A live parent of an ancestor is an ancestor.
LEMMA AboveClimbs ==
    ASSUME NEW t, NEW n \in Above(t), node[n].parent \in Live
    PROVE  node[n].parent \in Above(t)
<1>1. node[n].parent # NoNode
  BY SentinelsAssumption, LiveType
<1> QED BY <1>1, AboveIs DEF AboveFamily

\* The ancestors of an ancestor are ancestors.
LEMMA AboveWithin ==
    ASSUME NEW t, NEW n \in Above(t)
    PROVE  Above(n) \subseteq Above(t)
<1>1. AboveFamily(t) \subseteq AboveFamily(n)
  BY AboveIs DEF AboveFamily
<1> QED BY <1>1, AboveIs

\* Ancestors of a node stay while parents do, whatever else comes and goes.
LEMMA AboveStays ==
    ASSUME ParentsInv, ParentsInv', NEW t \in Live, t \in Live',
           \A n \in Live \cap Live' : node'[n].parent = node[n].parent
    PROVE  Above(t) \subseteq Above(t)'
<1> SUFFICES ASSUME NEW a \in Above(t)
             PROVE  a \in Above(t)'
  OBVIOUS
<1>1. ASSUME NEW X \in AboveFamily(t)'
      PROVE  a \in X
  <2>1. X \subseteq Live' /\ t \in X /\ \A n \in X : node'[n].parent \in X \cup {NoNode}
    BY DEF AboveFamily
  <2>2. X \cap Live \in AboveFamily(t)
    BY <2>1 DEF AboveFamily, ParentsInv
  <2> QED BY <2>2, AboveIs
<1>2. Live' \in AboveFamily(t)'
  BY DEF AboveFamily, ParentsInv
<1>3. a \in Live'
  BY <1>1, <1>2
<1>4. \A m : m \in Above(t)' <=> m \in Live' /\ \A X \in AboveFamily(t)' : m \in X
  BY DEF Above, Least, AboveFamily
<1> QED BY <1>1, <1>3, <1>4

\* A descendant of S, as the recursive query finds it, has an ancestor in S.
LEMMA BelowHasAbove ==
    ASSUME ParentsInv, NEW S, NEW n \in Below(S)
    PROVE  Above(n) \cap S # {}
<1> DEFINE live == Live
           X == {m \in live : Above(m) \cap S # {}}
<1>1. S \cap live \subseteq X
  BY AboveSelf
<1>2. ASSUME NEW m \in live \ X
      PROVE  node[m].parent \notin X
  <2> SUFFICES ASSUME node[m].parent \in X
               PROVE  FALSE
    OBVIOUS
  <2>1. node[m].parent \in Above(m)
    BY AboveSelf, AboveClimbs
  <2>2. Above(node[m].parent) \subseteq Above(m)
    BY <2>1, AboveWithin
  <2> QED BY <2>2
<1>3. X \in {Y \in SUBSET live : S \cap live \subseteq Y /\ \A m \in live \ Y : node[m].parent \notin Y}
  BY <1>1, <1>2
<1>4. n \in X
  BY <1>3 DEF Below, Least
<1> QED BY <1>4

-----------------------------------------------------------------------------
(* No cycle *)

NoCycle(rows) == \A X \in SUBSET Exist(rows) : ~Rootless(rows, X)

\* Some nodes get the parent t, none of them above t: no cycle appears.
LEMMA MovedNoCycle ==
    ASSUME ParentsInv, NoCycle(node), NEW t \in Live, NEW S, S \cap Above(t) = {},
           NEW rows, Exist(rows) \subseteq Live,
           \A n \in Exist(rows) : rows[n].parent = IF n \in S THEN t ELSE node[n].parent
    PROVE  NoCycle(rows)
<1> SUFFICES ASSUME NEW X \in SUBSET Exist(rows), Rootless(rows, X)
             PROVE  FALSE
  BY DEF NoCycle
<1>1. X # {} /\ \A n \in X : n \in Live /\ rows[n].parent \in X
  BY DEF Rootless
<1>2. CASE X \cap S = {}
  <2>1. Rootless(node, X)
    BY <1>1, <1>2 DEF Rootless
  <2> QED BY <1>1, <2>1 DEF NoCycle, Live
<1>3. CASE X \cap S # {}
  <2> DEFINE Z == X \cap Above(t)
  <2>1. t \in Z
    BY <1>1, <1>3, AboveSelf
  <2>2. ASSUME NEW n \in Z
        PROVE  node[n].parent \in Z
    <3>1. n \notin S
      OBVIOUS
    <3>2. node[n].parent \in X
      BY <1>1, <3>1
    <3>3. node[n].parent \in Above(t)
      BY <1>1, <3>2, AboveClimbs
    <3> QED BY <3>2, <3>3
  <2>3. Z \in SUBSET Exist(node) /\ Rootless(node, Z)
    BY <1>1, <2>1, <2>2 DEF Rootless, Live
  <2> QED BY <2>3 DEF NoCycle
<1> QED BY <1>2, <1>3


-----------------------------------------------------------------------------
(* What a move or a change of parent_id may rely on *)

Movers == {"move", "reparent"}

\* Such a handler is alone, and its target is not below what it moves.
ClearInv ==
    \A r \in Reqs :
        /\ req[r].op \in Movers /\ req[r].pc \notin Stopped =>
               \A q \in Reqs : q # r => req[q].pc \in Stopped
        /\ req[r].pc \in Moving \/ (req[r].pc = "updCommit" /\ req[r].to # NoNode) =>
               /\ req[r].op \in Movers /\ req[r].to \in Live
               /\ req[r].ids \cap Above(req[r].to) = {}
        /\ req[r].pc \in {"creRead", "creInsert"} => req[r].to # NoNode

\* A handler on its way to a write that this is about.
LEMMA StepKeeps ==
    ASSUME TypeInv, NEW r \in Reqs, Step(r)
    PROVE  /\ req'[r].pc \notin {"updCommit", "creRead"}
           /\ req'[r].pc \in Moving => UNCHANGED store /\ req'[r].ids = req[r].ids /\ req[r].pc \in Moving
           /\ req'[r].pc = "creInsert" => req[r].pc = "creRead"
<1>0. req[r] \in Request /\ req \in [Reqs -> Request]
  BY DEF TypeInv
<1>1. CASE CreRead(r) \/ CreInsert(r) \/ CreNotify(r)
  BY <1>0, <1>1 DEF CreRead, CreInsert, CreNotify, Raise, Goto, Request, Moving, At
<1>2. CASE UpdCommit(r) \/ UpdNotify(r) \/ MovCommit(r)
  BY <1>0, <1>2 DEF UpdCommit, UpdNotify, MovCommit, Raise, Goto, Request, Moving
<1>3. CASE DelTree(r) \/ DelCommit(r) \/ DelNotify(r)
  BY <1>0, <1>3 DEF DelTree, DelCommit, DelNotify, Raise, Goto, Request, Moving
<1>4. CASE MovTarget(r) \/ MovTree(r)
  BY <1>0, <1>4 DEF MovTarget, MovTree, Request, Moving, At
<1> QED BY <1>1, <1>2, <1>3, <1>4 DEF Step

\* What a request begins with: a mover with a target that is not below its nodes.
LEMMA BeginClear ==
    ASSUME TypeInv, ~CyclicMoves, NEW r \in Reqs, Begin(r)
    PROVE  /\ req'[r].pc \in Moving \/ (req'[r].pc = "updCommit" /\ req'[r].to # NoNode) =>
                  /\ req'[r].op \in Movers /\ req'[r].to \in Live
                  /\ req'[r].ids \cap Above(req'[r].to) = {}
           /\ req'[r].pc \in {"creRead", "creInsert"} => req'[r].to # NoNode
<1>0. NoNode \notin Live /\ req \in [Reqs -> Request]
  BY SentinelsAssumption, LiveType DEF TypeInv
<1>1. CASE BeginCreate(r)
  BY <1>0, <1>1 DEF BeginCreate, NoRequest, Moving
<1>2. CASE BeginRename(r)
  BY <1>0, <1>2 DEF BeginRename, NoRequest, Moving
<1>3. CASE BeginReparent(r)
  <2>1. PICK p \in Live : \E n \in Movable(p) :
          req' = [req EXCEPT ![r] = [NoRequest EXCEPT
                    !.op = "reparent", !.pc = "updCommit", !.ids = {n}, !.to = p]]
    BY <1>3 DEF BeginReparent
  <2>2. PICK n \in Movable(p) :
          req' = [req EXCEPT ![r] = [NoRequest EXCEPT
                    !.op = "reparent", !.pc = "updCommit", !.ids = {n}, !.to = p]]
    BY <2>1
  <2>3. n \notin Above(p)
    BY DEF Movable
  <2> QED BY <1>0, <2>2, <2>3 DEF NoRequest, Movers
<1>4. CASE BeginMove(r)
  <2>1. PICK t \in Live, S \in Selections :
          /\ S \subseteq Movable(t)
          /\ req' = [req EXCEPT ![r] = [NoRequest EXCEPT
                    !.op = "move", !.pc = "movTarget", !.ids = S, !.to = t]]
    BY <1>4 DEF BeginMove
  <2>2. S \cap Above(t) = {}
    BY <2>1 DEF Movable
  <2> QED BY <1>0, <2>1, <2>2 DEF NoRequest, Movers
<1>5. CASE BeginDelete(r)
  BY <1>0, <1>5 DEF BeginDelete, NoRequest, Moving
<1> QED BY <1>1, <1>2, <1>3, <1>4, <1>5 DEF Begin

\* A mover lets nobody else act.
LEMMA NoOtherMover ==
    ASSUME TypeInv, ClearInv, Movers \subseteq Exclusive, NEW r \in Reqs, Begin(r) \/ Step(r),
           NEW q \in Reqs, q # r, req[q].pc \notin Stopped
    PROVE  req[q].op \notin Movers
<1>1. CASE Begin(r)
  <2>1. PICK op \in Handlers : MayBegin(r, op)
    BY <1>1, BeginReq
  <2> QED BY <2>1 DEF MayBegin
<1>2. CASE Step(r)
  <2>1. req[r].pc \notin Stopped
    BY <1>2, StepBusy
  <2> QED BY <2>1 DEF ClearInv
<1> QED BY <1>1, <1>2

LEMMA ClearStep ==
    ASSUME TypeInv, ClearInv, Movers \subseteq Exclusive, ~CyclicMoves, NEW r \in Reqs, Begin(r) \/ Step(r)
    PROVE  ClearInv'
<1>0. \A q \in Reqs : q # r => req'[q] = req[q]
  BY OthersWait
<1>1. \A q \in Reqs : q # r /\ req[q].pc \notin Stopped => req[q].op \notin Movers
  BY NoOtherMover
<1>2. \A q \in Reqs : q # r => ~(req[q].pc \in Moving \/ (req[q].pc = "updCommit" /\ req[q].to # NoNode))
  BY <1>1 DEF ClearInv, Moving, Stopped
<1>3. ASSUME NEW q \in Reqs, q # r
      PROVE  /\ req'[q].op \in Movers /\ req'[q].pc \notin Stopped =>
                    \A p \in Reqs : p # q => req'[p].pc \in Stopped
             /\ ~(req'[q].pc \in Moving \/ (req'[q].pc = "updCommit" /\ req'[q].to # NoNode))
             /\ req'[q].pc \in {"creRead", "creInsert"} => req'[q].to # NoNode
  BY <1>0, <1>1, <1>2, <1>3 DEF ClearInv
<1>4. CASE Begin(r)
  <2>1. UNCHANGED store
    BY <1>4, BeginStore
  <2>2. PICK op \in Handlers : MayBegin(r, op) /\ req'[r].op = op
    BY <1>4, BeginReq
  <2>3. req'[r].op \in Movers => \A q \in Reqs : q # r => req'[q].pc \in Stopped
    BY <1>0, <2>2 DEF MayBegin
  <2>4. (req[r].pc \in Moving \/ (req[r].pc = "updCommit" /\ req[r].to # NoNode) =>
            /\ req[r].op \in Movers /\ req[r].to \in Live
            /\ req[r].ids \cap Above(req[r].to) = {})'
    BY <1>4, <2>1, BeginClear DEF store, Above, Least, Live, Exist
  <2>5. req'[r].pc \in {"creRead", "creInsert"} => req'[r].to # NoNode
    BY <1>4, BeginClear
  <2> QED BY <1>3, <2>3, <2>4, <2>5 DEF ClearInv
<1>5. CASE Step(r)
  <2>1. req[r].pc \notin Stopped
    BY <1>5, StepBusy
  <2>2. req'[r].op = req[r].op /\ req'[r].to = req[r].to
    BY <1>5, SameRequest
  <2>3. req'[r].op \in Movers => \A q \in Reqs : q # r => req'[q].pc \in Stopped
    BY <1>0, <2>1, <2>2 DEF ClearInv
  <2>4. (req[r].pc \in Moving \/ (req[r].pc = "updCommit" /\ req[r].to # NoNode) =>
            /\ req[r].op \in Movers /\ req[r].to \in Live
            /\ req[r].ids \cap Above(req[r].to) = {})'
    <3>1. CASE req'[r].pc \in Moving
      <4>1. UNCHANGED store /\ req'[r].ids = req[r].ids /\ req[r].pc \in Moving
        BY <1>5, <3>1, StepKeeps
      <4>2. /\ req[r].op \in Movers /\ req[r].to \in Live
            /\ req[r].ids \cap Above(req[r].to) = {}
        BY <4>1 DEF ClearInv
      <4> QED BY <2>2, <4>1, <4>2 DEF store, Above, Least, Live, Exist
    <3>2. CASE req'[r].pc \notin Moving
      <4>1. ~(req[r].pc \in Moving \/ (req[r].pc = "updCommit" /\ req[r].to # NoNode))'
        BY <1>5, <3>2, StepKeeps
      <4> QED BY <4>1
    <3> QED BY <3>1, <3>2
  <2>5. req'[r].pc \in {"creRead", "creInsert"} => req'[r].to # NoNode
    BY <1>5, <2>2, StepKeeps DEF ClearInv
  <2> QED BY <1>3, <2>3, <2>4, <2>5 DEF ClearInv
<1> QED BY <1>4, <1>5

-----------------------------------------------------------------------------
(* The rows *)

RootsInv(rows) == \A n \in Exist(rows) : rows[n].parent = NoNode => n \in Special[rows[n].owner]

ShapeInv == NoCycle(node) /\ RootsInv(node) /\ TitlesUnique(node)

LEMMA CreInsertShape ==
    ASSUME TypeInv, NamedInv, ParentsInv, ClearInv, ShapeInv, NEW r \in Reqs, CreInsert(r), ~Raise(r)
    PROVE  ShapeInv'
<1> DEFINE row == [parent |-> req[r].to, owner |-> req[r].owner, title |-> req[r].title]
<1>1. PICK n \in unused :
        /\ Legal([node EXCEPT ![n] = [parent |-> req[r].to, owner |-> req[r].owner,
                                      title |-> req[r].title]], accounts)
        /\ node' = [node EXCEPT ![n] = [parent |-> req[r].to, owner |-> req[r].owner,
                                        title |-> req[r].title]]
  BY DEF CreInsert
<1>2. TitlesUnique(node')
  BY <1>1 DEF Legal
<1>3. n \in Nodes /\ n \notin Live /\ \A m \in Nodes : m # n => node'[m] = node[m]
  BY <1>1 DEF TypeInv
<1>4. node'[n].parent = req[r].to /\ req[r].to # n /\ req[r].to # NoNode
  BY <1>1, <1>3 DEF NamedInv, ClearInv, CreInsert, At, TypeInv
<1>5. \A m \in Exist(node') : m \in Nodes /\ (m # n => m \in Live)
  BY <1>3 DEF Exist, Live
<1>6. RootsInv(node')
  BY <1>3, <1>4, <1>5 DEF RootsInv, ShapeInv, Live
<1>7. NoCycle(node')
  <2> SUFFICES ASSUME NEW X \in SUBSET Exist(node'), Rootless(node', X)
               PROVE  FALSE
    BY DEF NoCycle
  <2> DEFINE Y == X \ {n}
  <2>1. Y # {}
    BY <1>4 DEF Rootless
  <2>2. ASSUME NEW m \in Y
        PROVE  node[m].parent \in Y
    <3>1. m \in Live /\ node'[m] = node[m] /\ node'[m].parent \in X
      BY <1>3, <1>5 DEF Rootless
    <3>2. node[m].parent # n
      BY <1>3, <3>1, SentinelsAssumption DEF ParentsInv
    <3> QED BY <3>1, <3>2
  <2>3. Y \in SUBSET Exist(node)
    BY <1>5 DEF Live
  <2> QED BY <2>1, <2>2, <2>3 DEF ShapeInv, NoCycle, Rootless
<1> QED BY <1>2, <1>6, <1>7 DEF ShapeInv

LEMMA UpdCommitShape ==
    ASSUME TypeInv, ParentsInv, ClearInv, ShapeInv, NEW r \in Reqs, UpdCommit(r), ~Raise(r)
    PROVE  ShapeInv'
<1>1. /\ req[r].pc = "updCommit" /\ node' = Updated(r) /\ TitlesUnique(node')
      /\ req[r].ids \subseteq Live
  BY DEF UpdCommit, Legal, At
<1>2. Exist(node') \subseteq Live
  BY <1>1 DEF Live, Exist, Updated
<1>3. \A n \in Live : /\ node'[n].owner = node[n].owner
                      /\ node'[n].parent = IF n \in req[r].ids /\ req[r].to # NoNode
                                           THEN req[r].to ELSE node[n].parent
  BY <1>1, LiveType DEF Updated, Live, Exist, TypeInv, Row
<1>4. RootsInv(node')
  BY <1>2, <1>3 DEF RootsInv, ShapeInv, Live
<1>5. NoCycle(node')
  <2>1. CASE req[r].to = NoNode
    <3>1. \A X \in SUBSET Exist(node') : Rootless(node', X) => X \in SUBSET Exist(node) /\ Rootless(node, X)
      BY <1>2, <1>3, <2>1 DEF Rootless, Live
    <3> QED BY <3>1 DEF ShapeInv, NoCycle
  <2>2. CASE req[r].to # NoNode
    <3>1. req[r].to \in Live /\ req[r].ids \cap Above(req[r].to) = {}
      BY <1>1, <2>2 DEF ClearInv
    <3>2. \A n \in Exist(node') : node'[n].parent = IF n \in req[r].ids THEN req[r].to ELSE node[n].parent
      BY <1>2, <1>3, <2>2
    <3> QED BY <1>2, <3>1, <3>2, MovedNoCycle DEF ShapeInv
  <2> QED BY <2>1, <2>2
<1> QED BY <1>1, <1>4, <1>5 DEF ShapeInv

LEMMA MovCommitShape ==
    ASSUME TypeInv, OwnerInv, ClearInv, ShapeInv, NEW r \in Reqs, MovCommit(r), ~Raise(r)
    PROVE  ShapeInv'
<1>1. req[r].pc = "movCommit" /\ node' = Reowned(r) /\ TitlesUnique(node')
  BY DEF MovCommit, Legal, At
<1>2. /\ req[r].to \in Live /\ req[r].ids \cap Above(req[r].to) = {}
      /\ req[r].tree = Below(req[r].ids)
  BY <1>1 DEF ClearInv, Moving, OwnerInv, ReadInv
<1>3. Exist(node') \subseteq Live
  BY <1>1 DEF Live, Exist, Reowned, Reparented
<1>4. \A n \in Live : node[n] \in Row /\ n \in Nodes
  BY DEF Live, Exist, TypeInv
<1>5. \A n \in Live : node'[n].parent = IF n \in req[r].ids THEN req[r].to ELSE node[n].parent
  BY <1>1, <1>4 DEF Reowned, Reparented, Row
<1>6. \A n \in Live : n \notin req[r].tree => node'[n].owner = node[n].owner
  BY <1>1, <1>4 DEF Reowned, Reparented, Row
<1>7. NoCycle(node')
  <2>1. ParentsInv /\ NoCycle(node)
    BY DEF ShapeInv, OwnerInv
  <2>2. \A n \in Exist(node') : node'[n].parent = IF n \in req[r].ids THEN req[r].to ELSE node[n].parent
    BY <1>3, <1>5
  <2> QED BY <1>2, <1>3, <2>1, <2>2, MovedNoCycle
<1>8. ASSUME NEW n \in Exist(node'), node'[n].parent = NoNode
      PROVE  n \in Special[node'[n].owner]
  <2>1. n \in Live /\ n \notin req[r].ids /\ node[n].parent = NoNode
    BY <1>2, <1>3, <1>5, <1>8, LiveType, SentinelsAssumption
  <2>2. NoNode \notin Below(req[r].ids)
    BY BelowType, LiveType, SentinelsAssumption
  <2>3. n \notin req[r].tree
    BY <1>2, <2>1, <2>2, BelowHangs
  <2> QED BY <1>6, <2>1, <2>3 DEF ShapeInv, RootsInv, Live
<1> QED BY <1>1, <1>7, <1>8 DEF ShapeInv, RootsInv

LEMMA DelCommitShape ==
    ASSUME TypeInv, ShapeInv, NEW r \in Reqs, DelCommit(r), ~Raise(r)
    PROVE  ShapeInv'
<1>1. PICK D : node' = [n \in Nodes |-> IF n \in D THEN NoRow ELSE node[n]]
  BY DEF DelCommit, DropRows
<1>2. Exist(node') \subseteq Exist(node) /\ \A n \in Exist(node') : node'[n] = node[n]
  BY <1>1 DEF Exist
<1>3. NoCycle(node')
  <2>1. \A X \in SUBSET Exist(node') : Rootless(node', X) => X \in SUBSET Exist(node) /\ Rootless(node, X)
    BY <1>2 DEF Rootless
  <2> QED BY <2>1 DEF ShapeInv, NoCycle
<1>4. RootsInv(node') /\ TitlesUnique(node')
  BY <1>2 DEF ShapeInv, RootsInv, TitlesUnique
<1> QED BY <1>3, <1>4 DEF ShapeInv

LEMMA ShapeStep ==
    ASSUME TypeInv, NamedInv, OwnerInv, ClearInv, ShapeInv, NEW r \in Reqs, Begin(r) \/ Step(r)
    PROVE  ShapeInv'
<1>1. CASE node' = node
  BY <1>1 DEF ShapeInv, NoCycle, RootsInv, TitlesUnique, Rootless, Exist
<1>2. CASE node' # node
  <2>1. CreInsert(r) \/ UpdCommit(r) \/ MovCommit(r) \/ DelCommit(r)
    BY <1>2, BeginStore
    DEF Step, CreRead, CreNotify, UpdNotify, MovTarget, MovTree, DelTree, DelNotify, Raise, store
  <2>2. ~Raise(r) /\ ParentsInv
    BY <1>2 DEF Raise, store, OwnerInv
  <2> QED BY <2>1, <2>2, CreInsertShape, UpdCommitShape, MovCommitShape, DelCommitShape
<1> QED BY <1>1, <1>2

LEMMA ShapeNext ==
    ASSUME Movers \subseteq Exclusive, ~CyclicMoves
    PROVE  TypeInv /\ NamedInv /\ OwnerInv /\ ClearInv /\ ShapeInv /\ [Next]_vars => ClearInv' /\ ShapeInv'
<1> SUFFICES ASSUME TypeInv, NamedInv, OwnerInv, ClearInv, ShapeInv, [Next]_vars
             PROVE  ClearInv' /\ ShapeInv'
  OBVIOUS
<1>1. CASE UNCHANGED vars
  BY <1>1 DEF vars, ClearInv, ShapeInv, NoCycle, RootsInv, TitlesUnique, Rootless, Exist, Above, Least, Live
<1>2. ASSUME NEW r \in Reqs, Begin(r) \/ Step(r)
      PROVE  ClearInv' /\ ShapeInv'
  BY <1>2, ClearStep, ShapeStep
<1> QED BY <1>1, <1>2 DEF Next

LEMMA ShapeInit == Init => ClearInv /\ ShapeInv
<1> SUFFICES ASSUME Init
             PROVE  ClearInv /\ ShapeInv
  OBVIOUS
<1>1. \A r \in Reqs : req[r].pc = "idle"
  BY DEF Init, NoRequest
<1>2. ClearInv
  BY <1>1 DEF ClearInv, Moving, Stopped
<1>3. ShapeInv
  BY StartAssumption DEF Init, ShapeInv, NoCycle, RootsInv, Rooted, Legal
<1> QED BY <1>2, <1>3

LEMMA OwnersAlways ==
    ASSUME "move" \in Exclusive
    PROVE  Spec => [](TypeInv /\ NamedInv /\ OwnerInv)
<1>1. Spec => [](NamedInv /\ DropInv)
  BY DropInit, DropStep, TypeInvariant, PTL DEF Spec
<1>2. OwnerInv /\ (TypeInv /\ NamedInv) /\ [Next]_vars => OwnerInv'
  BY OwnerStep
<1> QED BY <1>1, <1>2, OwnerInit, TypeInvariant, PTL DEF Spec

LEMMA ShapeAlways ==
    ASSUME Movers \subseteq Exclusive, ~CyclicMoves
    PROVE  Spec => [](TypeInv /\ NamedInv /\ OwnerInv /\ ClearInv /\ ShapeInv)
<1>1. "move" \in Exclusive
  BY DEF Movers
<1>2. Spec => [](TypeInv /\ NamedInv /\ OwnerInv)
  BY <1>1, OwnersAlways
<1>3. (TypeInv /\ NamedInv /\ OwnerInv) /\ (ClearInv /\ ShapeInv) /\ [Next]_vars => (ClearInv /\ ShapeInv)'
  BY ShapeNext
<1> QED BY <1>2, <1>3, ShapeInit, PTL DEF Spec

\* Every node hangs below a home or inbox and no folder is below itself, when moves and changes of
\* parent_id overlap with nothing and a folder is not moved below itself (the code does not look).
THEOREM Rooting ==
    ASSUME Movers \subseteq Exclusive, ~CyclicMoves
    PROVE  Spec => []RootedAtSpecial
<1>1. ShapeInv => RootedAtSpecial
  BY DEF ShapeInv, NoCycle, RootsInv, RootedAtSpecial, Rooted
<1> QED BY <1>1, ShapeAlways, PTL

LEMMA TitlesStep ==
    TitlesUnique(node) /\ [Next]_vars => TitlesUnique(node)'
<1> SUFFICES ASSUME TitlesUnique(node), [Next]_vars
             PROVE  TitlesUnique(node')
  OBVIOUS
<1>1. CASE node' = node
  BY <1>1
<1>2. ASSUME NEW r \in Reqs, Begin(r) \/ Step(r), node' # node
      PROVE  TitlesUnique(node')
  <2>1. CreInsert(r) \/ UpdCommit(r) \/ MovCommit(r) \/ DelCommit(r)
    BY <1>2, BeginStore
    DEF Step, CreRead, CreNotify, UpdNotify, MovTarget, MovTree, DelTree, DelNotify, Raise, store
  <2>2. CASE CreInsert(r) \/ UpdCommit(r) \/ MovCommit(r)
    BY <1>2, <2>2 DEF CreInsert, UpdCommit, MovCommit, Legal, Raise, store
  <2>3. CASE DelCommit(r)
    <3>1. PICK D : node' = [n \in Nodes |-> IF n \in D THEN NoRow ELSE node[n]]
      BY <1>2, <2>3 DEF DelCommit, DropRows, Raise, store
    <3>2. Exist(node') \subseteq Exist(node) /\ \A n \in Exist(node') : node'[n] = node[n]
      BY <3>1 DEF Exist
    <3> QED BY <3>2 DEF TitlesUnique
  <2> QED BY <2>1, <2>2, <2>3
<1> QED BY <1>1, <1>2 DEF Next, vars

\* Titles are distinct within a folder, although the constraint of the table compares owners too.
THEOREM TitlesDistinct ==
    ASSUME "move" \in Exclusive
    PROVE  Spec => []SiblingTitlesDistinct
<1>1. TitlesUnique(node) /\ TypeInv /\ NamedInv /\ OwnerInv /\ [Next]_vars => TitlesUnique(node)'
  BY TitlesStep
<1>2. Init => TitlesUnique(node)
  BY StartAssumption DEF Init, Legal
<1>3. TitlesUnique(node) /\ OwnerInv => SiblingTitlesDistinct
  BY DEF TitlesUnique, OwnerInv, OwnersFollowParents, SiblingTitlesDistinct, Live
<1> QED BY <1>1, <1>2, <1>3, OwnersAlways, PTL DEF Spec

-----------------------------------------------------------------------------
(* A delete *)

\* What a delete has read of the tree still hangs below what it was asked for.
DelInv ==
    \A r \in Reqs : At(r, "delCommit") =>
        /\ req[r].tree \cap unused = {}
        /\ \A n \in req[r].tree \cap Live : Above(n) \cap req[r].ids # {}

\* While no mover acts, parents of nodes that stay are as they were.
LEMMA ParentsStay ==
    ASSUME TypeInv, NEW r \in Reqs, Begin(r) \/ Step(r), ~(UpdCommit(r) /\ req[r].to # NoNode), ~MovCommit(r),
           NEW n \in Live, n \in Live'
    PROVE  node'[n].parent = node[n].parent
<1>0. n \in Nodes /\ n \notin unused /\ node[n] \in Row
  BY DEF TypeInv, Live, Exist
<1>1. CASE node' = node
  BY <1>1
<1>2. CASE CreInsert(r) /\ node' # node
  <2>1. PICK m \in unused : node' = [node EXCEPT ![m] = [parent |-> req[r].to, owner |-> req[r].owner,
                                                         title |-> req[r].title]]
    BY <1>2 DEF CreInsert, Raise, store
  <2> QED BY <1>0, <2>1 DEF TypeInv
<1>3. CASE UpdCommit(r) /\ node' # node
  BY <1>0, <1>3 DEF UpdCommit, Updated, Raise, store, Row
<1>4. CASE DelCommit(r) /\ node' # node
  <2>1. PICK D : node' = [m \in Nodes |-> IF m \in D THEN NoRow ELSE node[m]]
    BY <1>4 DEF DelCommit, DropRows, Raise, store
  <2> QED BY <1>0, <2>1 DEF Live, Exist
<1> QED BY <1>1, <1>2, <1>3, <1>4, BeginStore
  DEF Step, CreRead, CreNotify, UpdNotify, MovTarget, MovTree, DelTree, DelNotify, Raise, store

LEMMA DelOthers ==
    ASSUME TypeInv, NamedInv, OwnerInv, OwnerInv', ClearInv, DelInv, Movers \subseteq Exclusive,
           NEW r \in Reqs, Begin(r) \/ Step(r), NEW q \in Reqs, q # r, At(q, "delCommit")
    PROVE  /\ req[q].tree \cap unused' = {}
           /\ \A n \in req[q].tree \cap Live' : Above(n)' \cap req[q].ids # {}
<1>1. unused' \subseteq unused /\ Live' \subseteq Live \cup (unused \ unused')
  BY Identities
<1>2. req[q].pc \notin Stopped /\ req[q].pc \notin Moving
  BY DEF At, Stopped, Moving
<1>3. ~(UpdCommit(r) /\ req[r].to # NoNode) /\ ~MovCommit(r)
  <2>1. SUFFICES ASSUME req[r].pc \in Moving \/ (req[r].pc = "updCommit" /\ req[r].to # NoNode)
                 PROVE  FALSE
    BY DEF UpdCommit, MovCommit, At, Moving
  <2>2. req[r].op \in Movers /\ req[r].pc \notin Stopped
    BY <2>1 DEF ClearInv, Moving, Stopped
  <2> QED BY <1>2, <2>2 DEF ClearInv
<1>4. \A n \in Live \cap Live' : node'[n].parent = node[n].parent
  BY <1>3, ParentsStay
<1>5. ASSUME NEW n \in req[q].tree \cap Live'
      PROVE  Above(n)' \cap req[q].ids # {}
  <2>1. n \in Live
    BY <1>1 DEF DelInv
  <2>2. Above(n) \subseteq Above(n)'
    BY <1>4, <2>1, AboveStays DEF OwnerInv
  <2> QED BY <2>1, <2>2 DEF DelInv
<1> QED BY <1>1, <1>5 DEF DelInv

LEMMA OnlyDelTree ==
    ASSUME TypeInv, NEW r \in Reqs, Begin(r) \/ Step(r), req'[r].pc = "delCommit"
    PROVE  DelTree(r)
<1>0. req[r] \in Request /\ req \in [Reqs -> Request]
  BY DEF TypeInv
<1>1. CASE Begin(r)
  BY <1>0, <1>1 DEF Begin, BeginCreate, BeginRename, BeginReparent, BeginMove, BeginDelete, NoRequest
<1>2. CASE CreRead(r) \/ CreInsert(r) \/ CreNotify(r)
  BY <1>0, <1>2 DEF CreRead, CreInsert, CreNotify, Raise, Goto, Request
<1>3. CASE UpdCommit(r) \/ UpdNotify(r) \/ DelNotify(r)
  BY <1>0, <1>3 DEF UpdCommit, UpdNotify, DelNotify, Raise, Goto, Request
<1>4. CASE MovTarget(r) \/ MovTree(r) \/ MovCommit(r) \/ DelCommit(r)
  BY <1>0, <1>4 DEF MovTarget, MovTree, MovCommit, DelCommit, Raise, Goto, Request
<1> QED BY <1>1, <1>2, <1>3, <1>4 DEF Step

LEMMA DelStep ==
    ASSUME TypeInv, NamedInv, OwnerInv, OwnerInv', ClearInv, DelInv, Movers \subseteq Exclusive,
           NEW r \in Reqs, Begin(r) \/ Step(r)
    PROVE  DelInv'
<1>1. ASSUME NEW q \in Reqs, q # r, At(q, "delCommit")'
      PROVE  (/\ req[q].tree \cap unused = {}
              /\ \A n \in req[q].tree \cap Live : Above(n) \cap req[q].ids # {})'
  <2>1. req'[q] = req[q]
    BY <1>1, OthersWait
  <2> QED BY <1>1, <2>1, DelOthers DEF At
<1>2. ASSUME At(r, "delCommit")'
      PROVE  (/\ req[r].tree \cap unused = {}
              /\ \A n \in req[r].tree \cap Live : Above(n) \cap req[r].ids # {})'
  <2>1. req[r] \in Request /\ req \in [Reqs -> Request]
    BY DEF TypeInv
  <2>2. DelTree(r)
    BY <1>2, <2>1, OnlyDelTree DEF At
  <2>3. /\ req'[r].ids = req[r].ids /\ req'[r].tree = Below(req[r].ids)
        /\ UNCHANGED <<node, unused>>
    BY <2>1, <2>2 DEF DelTree, Request, store
  <2>4. \A n \in Below(req[r].ids) : Above(n) \cap req[r].ids # {}
    BY BelowHasAbove DEF OwnerInv
  <2>5. Below(req[r].ids) \cap unused = {}
    BY BelowType DEF TypeInv
  <2> QED BY <2>3, <2>4, <2>5 DEF Above, Least, Live, Exist
<1> QED BY <1>1, <1>2 DEF DelInv

\* What stays keeps its home and inbox: the cascade is closed.
LEMMA DoomedClosed ==
    ASSUME NEW S, NEW m \in Live, m \notin Doomed(S)
    PROVE  Special[node[m].owner] \cap Doomed(S) = {}
<1> DEFINE live == Live
           family == {X \in SUBSET live : S \cap live \subseteq X
                                        /\ \A k \in live \ X : Special[node[k].owner] \cap X = {}}
<1>1. \A k : k \in Doomed(S) <=> k \in live /\ \A X \in family : k \in X
  BY DEF Doomed, Least
<1>2. PICK X \in family : m \notin X
  BY <1>1
<1>3. Special[node[m].owner] \cap X = {}
  BY <1>2
<1> QED BY <1>1, <1>2, <1>3

LEMMA OnlyDelCommit ==
    ASSUME TypeInv, Next, NEW r \in Reqs, At(r, "delCommit"), req'[r].pc = "delNotify"
    PROVE  DelCommit(r) /\ ~Raise(r)
<1>0. req[r] \in Request /\ req \in [Reqs -> Request]
  BY DEF TypeInv
<1>1. PICK q \in Reqs : Begin(q) \/ Step(q)
  BY DEF Next
<1>2. q = r
  BY <1>1, OthersWait DEF At
<1>3. ~Begin(r)
  BY DEF Begin, BeginCreate, BeginRename, BeginReparent, BeginMove, BeginDelete, MayBegin, At
<1>4. DelCommit(r)
  BY <1>1, <1>2, <1>3 DEF Step, CreRead, CreInsert, CreNotify, UpdCommit, UpdNotify, MovTarget, MovTree,
     MovCommit, DelTree, DelNotify, At
<1>5. ~Raise(r)
  BY <1>0 DEF Raise, Goto, Request
<1> QED BY <1>4, <1>5

\* At its commit a delete drops just what the property says.
LEMMA DropsSubtree ==
    ASSUME TypeInv, ParentsInv, DropInv, DelInv, NEW r \in Reqs, DelCommit(r), ~Raise(r), NEW n \in Live
    PROVE  \/ Above(n) \cap req[r].ids # {} /\ n \notin Live'
           \/ Above(n) \cap req[r].ids = {} /\ (n \in Live' \/ node[n].owner \notin accounts')
<1> DEFINE live == Live
           D == Doomed(req[r].tree)
           family == {X \in SUBSET live : req[r].tree \cap live \subseteq X
                                        /\ \A m \in live \ X : Special[node[m].owner] \cap X = {}}
<1>1. At(r, "delCommit") /\ Removable(D) /\ DropRows(D)
  BY DEF DelCommit
<1>2. \A m : m \in D <=> m \in live /\ \A X \in family : m \in X
  BY DEF Doomed, Least
<1>3. Live' = live \ D /\ accounts' = accounts \ DoomedAccounts(D)
  BY <1>1 DEF DropRows, Live, Exist
<1> HIDE DEF D
<1>4. req[r].ids \cap live \subseteq D
  BY <1>1, <1>2 DEF DropInv
<1>5. CASE n \notin D
  <2>1. live \ D \in AboveFamily(n)
    BY <1>1, <1>5 DEF AboveFamily, Removable, ParentsInv
  <2>2. Above(n) \subseteq live \ D
    BY <2>1, AboveIs
  <2> QED BY <1>3, <1>4, <1>5, <2>2
<1>6. CASE n \in D /\ Above(n) \cap req[r].ids = {}
  <2>1. n \notin req[r].tree
    BY <1>1, <1>6 DEF DelInv
  <2>2. Special[node[n].owner] \cap D # {}
    <3> SUFFICES ASSUME Special[node[n].owner] \cap D = {}
                 PROVE  FALSE
      OBVIOUS
    <3>1. \A m \in live \ D : Special[node[m].owner] \cap D = {}
      BY DoomedClosed DEF D
    <3>2. D \ {n} \in family
      BY <1>2, <2>1, <3>1
    <3> QED BY <1>2, <1>6, <3>2
  <2>3. node[n].owner \notin accounts'
    BY <1>3, <2>2 DEF DoomedAccounts
  <2> QED BY <1>6, <2>3
<1> QED BY <1>3, <1>5, <1>6

\* A delete takes what was selected with all below it, and else only what goes with its account.
THEOREM SubtreeDeleted ==
    ASSUME Movers \subseteq Exclusive, ~CyclicMoves
    PROVE  Spec => DeleteTakesSubtree
<1> DEFINE Base == TypeInv /\ NamedInv /\ OwnerInv /\ ClearInv /\ ShapeInv
           Drop == NamedInv /\ DropInv
           Takes == \A r \in Reqs : At(r, "delCommit") /\ req'[r].pc = "delNotify" =>
                       \A n \in Live :
                          \/ Above(n) \cap req[r].ids # {} /\ n \notin Live'
                          \/ Above(n) \cap req[r].ids = {} /\ (n \in Live' \/ node[n].owner \notin accounts')
<1>1. Spec => []Base
  BY ShapeAlways
<1>2. Spec => []Drop
  BY DropInit, DropStep, TypeInvariant, PTL DEF Spec
<1>3. Init => DelInv
  BY DEF Init, NoRequest, DelInv, At
<1>4. Base /\ Base' /\ DelInv /\ [Next]_vars => DelInv'
  <2> SUFFICES ASSUME Base, Base', DelInv, [Next]_vars
               PROVE  DelInv'
    OBVIOUS
  <2>1. CASE UNCHANGED vars
    BY <2>1 DEF vars, DelInv, At, Above, Least, Live, Exist
  <2>2. CASE Next
    BY <2>2, DelStep DEF Next
  <2> QED BY <2>1, <2>2
<1>5. Base /\ Drop /\ DelInv /\ [Next]_vars => [Takes]_vars
  <2> SUFFICES ASSUME Base, Drop, DelInv, [Next]_vars, ~UNCHANGED vars,
                      NEW r \in Reqs, At(r, "delCommit"), req'[r].pc = "delNotify", NEW n \in Live
               PROVE  \/ Above(n) \cap req[r].ids # {} /\ n \notin Live'
                      \/ Above(n) \cap req[r].ids = {} /\ (n \in Live' \/ node[n].owner \notin accounts')
    OBVIOUS
  <2>1. DelCommit(r) /\ ~Raise(r)
    BY OnlyDelCommit
  <2> QED BY <2>1, DropsSubtree DEF OwnerInv
<1> HIDE DEF Base, Drop, Takes
<1>6. Spec => [][Takes]_vars
  BY <1>1, <1>2, <1>3, <1>4, <1>5, PTL DEF Spec
<1> QED BY <1>6 DEF DeleteTakesSubtree, Takes

-----------------------------------------------------------------------------
(* Announcements *)

\* A new node was announced, or the handler that made it is about to.
AnnInv ==
    \A n \in Live : Start[n] = NoRow =>
        \/ <<"index_add", n>> \in sent
        \/ \E r \in Reqs : At(r, "creNotify") /\ req[r].ids = {n}

\* Only a creation adds a row.
LEMMA RowsOnlyCreated ==
    ASSUME TypeInv, NEW r \in Reqs, Begin(r) \/ Step(r), ~(CreInsert(r) /\ ~Raise(r))
    PROVE  Live' \subseteq Live
<1>1. CASE UNCHANGED store
  BY <1>1 DEF store, Live, Exist
<1>2. CASE UpdCommit(r) /\ ~UNCHANGED store
  <2>1. req[r].ids \subseteq Live /\ node' = Updated(r)
    BY <1>2 DEF UpdCommit, Raise
  <2> QED BY <2>1 DEF Updated, Live, Exist
<1>3. CASE MovCommit(r) /\ ~UNCHANGED store
  <2>1. node' = Reowned(r)
    BY <1>3 DEF MovCommit, Raise
  <2> QED BY <2>1 DEF Reowned, Reparented, Live, Exist
<1>4. CASE DelCommit(r) /\ ~UNCHANGED store
  <2>1. PICK D : DropRows(D)
    BY <1>4 DEF DelCommit, Raise
  <2> QED BY <2>1 DEF DropRows, Live, Exist
<1> QED BY <1>1, <1>2, <1>3, <1>4, BeginStore
  DEF Step, CreRead, CreInsert, CreNotify, UpdNotify, MovTarget, MovTree, DelTree, DelNotify, Raise

LEMMA AnnStep ==
    ASSUME TypeInv, AnnInv, NEW r \in Reqs, Begin(r) \/ Step(r)
    PROVE  AnnInv'
<1> SUFFICES ASSUME NEW n \in Live', Start[n] = NoRow
             PROVE  \/ <<"index_add", n>> \in sent'
                    \/ \E q \in Reqs : At(q, "creNotify")' /\ req'[q].ids = {n}
  BY DEF AnnInv
<1>0. req[r] \in Request /\ req \in [Reqs -> Request]
  BY DEF TypeInv
<1>1. sent \subseteq sent'
  BY BeginStore DEF Step, CreRead, CreInsert, CreNotify, UpdCommit, UpdNotify, MovTarget, MovTree, MovCommit,
     DelTree, DelCommit, DelNotify, Raise, Send
<1>2. CASE CreInsert(r) /\ ~Raise(r)
  <2>1. PICK m \in unused : /\ node' = [node EXCEPT ![m] = [parent |-> req[r].to, owner |-> req[r].owner,
                                                            title |-> req[r].title]]
                            /\ req' = [req EXCEPT ![r].pc = "creNotify", ![r].ids = {m}]
    BY <1>2 DEF CreInsert
  <2>2. CASE n = m
    BY <1>0, <2>1, <2>2 DEF At, Request
  <2>3. CASE n # m
    <3>1. n \in Live
      BY <2>1, <2>3 DEF Live, Exist, TypeInv
    <3>2. \A q \in Reqs : q # r => req'[q] = req[q]
      BY OthersWait
    <3>3. ~At(r, "creNotify")
      BY <1>2 DEF CreInsert, At
    <3> QED BY <1>1, <3>1, <3>2, <3>3 DEF AnnInv, At
  <2> QED BY <2>2, <2>3
<1>3. CASE ~(CreInsert(r) /\ ~Raise(r))
  <2>1. n \in Live
    BY <1>3, RowsOnlyCreated
  <2>2. CASE <<"index_add", n>> \in sent
    BY <1>1, <2>2
  <2>3. ASSUME NEW q \in Reqs, At(q, "creNotify"), req[q].ids = {n}, q # r
        PROVE  At(q, "creNotify")' /\ req'[q].ids = {n}
    BY <2>3, OthersWait DEF At
  <2>4. ASSUME At(r, "creNotify"), req[r].ids = {n}
        PROVE  <<"index_add", n>> \in sent'
    <3>1. CreNotify(r)
      BY <2>4 DEF Begin, BeginCreate, BeginRename, BeginReparent, BeginMove, BeginDelete, MayBegin,
         Step, CreRead, CreInsert, UpdCommit, UpdNotify, MovTarget, MovTree, MovCommit,
         DelTree, DelCommit, DelNotify, At
    <3> QED BY <2>1, <2>4, <3>1 DEF CreNotify, Send
  <2> QED BY <2>1, <2>2, <2>3, <2>4 DEF AnnInv
<1> QED BY <1>2, <1>3

\* With no handler at work, every node that was created and still exists was announced to the
\* search index; moves may overlap with anything here.
THEOREM CreatedAreAnnounced == Spec => []CreatedAnnounced
<1>1. Init => AnnInv
  BY DEF Init, AnnInv, Live, Exist
<1>2. TypeInv /\ AnnInv /\ [Next]_vars => AnnInv'
  <2> SUFFICES ASSUME TypeInv, AnnInv, [Next]_vars
               PROVE  AnnInv'
    OBVIOUS
  <2>1. CASE UNCHANGED vars
    BY <2>1 DEF vars, AnnInv, At, Live, Exist
  <2> QED BY <2>1, AnnStep DEF Next
<1>3. AnnInv => CreatedAnnounced
  BY DEF AnnInv, CreatedAnnounced, At, Stopped
<1> QED BY <1>1, <1>2, <1>3, TypeInvariant, PTL DEF Spec

=============================================================================
