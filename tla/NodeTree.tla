------------------------------ MODULE NodeTree ------------------------------
(***************************************************************************)
(* The tree of folders and documents, as the request handlers of           *)
(*   papermerge/core/features/nodes/router.py, nodes/db/api.py and          *)
(*   papermerge/core/db/common.py                                           *)
(* change it under the constraints of the tables nodes, users and groups.   *)
(* A handler reads what it needs (the owner of the parent, the descendants  *)
(* of what the user selected), and writes in a later statement; every action*)
(* below is the part of a handler between two awaits that reach the         *)
(* database, so handlers interleave at each of them.                        *)
(*                                                                          *)
(* Abstracted: what a document holds (DocVersions), tags, permissions (the  *)
(* requests are those of clients that have them), language, time stamps.    *)
(***************************************************************************)
EXTENDS Naturals, FiniteSets

CONSTANTS
    Nodes,          \* identities of folders and documents
    NoNode,
    Owners,         \* accounts: users and groups
    NoOwner,
    Special,        \* home and inbox of each account: [Owners -> SUBSET Nodes]
    Tied,           \* accounts that other rows refer to without ON DELETE
                    \* CASCADE (roles, group members, tags, document types)
    Titles,
    NoTitle,        \* that of a home or inbox
    Start,          \* the nodes rows the system starts with
    Reqs,           \* requests; each one runs one handler
    Ops,            \* the handlers clients call
    Exclusive,      \* handlers that overlap with no other one
    MaxPick,        \* bound: nodes a client selects for a move or a delete
    CyclicMoves     \* TRUE: a folder may be moved below itself

Handlers == {"create", "rename", "reparent", "move", "delete"}

ASSUME SentinelsAssumption == NoNode \notin Nodes /\ NoOwner \notin Owners /\ NoTitle \notin Titles
ASSUME SpecialAssumption ==
    /\ Special \in [Owners -> SUBSET Nodes]
    /\ \A o, p \in Owners : o # p => Special[o] \cap Special[p] = {}
ASSUME OpsAssumption == Ops \cup Exclusive \subseteq Handlers /\ MaxPick \in Nat

VARIABLES
    node,       \* the nodes rows
    unused,     \* identities not given to a node yet
    accounts,   \* accounts whose users or groups row exists
    sent,       \* tasks for the search index
    strays,     \* history: nodes that a PATCH of parent_id put below a folder of
                \* another account, until a move carries them; no action reads it
    req         \* the requests: what was asked, and where the handler is

store == <<node, unused, accounts>>
vars == <<node, unused, accounts, sent, strays, req>>

\* class Node: parent_id, user_id or group_id, title; NoRow for no row
Row == [parent : Nodes \cup {NoNode}, owner : Owners, title : Titles \cup {NoTitle}]
NoRow == [parent |-> NoNode, owner |-> NoOwner, title |-> NoTitle]

Stopped == {"idle", "done", "error"}
Pcs == Stopped \cup {"creRead", "creInsert", "creNotify", "updCommit", "updNotify",
                     "movTree", "movTarget", "movCommit",
                     "delTree", "delCommit", "delNotify"}

Request == [op : Handlers \cup {"none"},
            pc : Pcs,                       \* where the handler is
            ids : SUBSET Nodes,             \* nodes the request names
            to : Nodes \cup {NoNode},       \* parent, or target of a move
            title : Titles \cup {NoTitle},
            owner : Owners \cup {NoOwner},  \* owner of that parent, as read
            tree : SUBSET Nodes]            \* descendants of ids, as read

NoRequest == [op |-> "none", pc |-> "idle", ids |-> {}, to |-> NoNode,
              title |-> NoTitle, owner |-> NoOwner, tree |-> {}]

-----------------------------------------------------------------------------
(* Helpers *)

Exist(rows) == {n \in Nodes : rows[n] # NoRow}
Live == Exist(node)

\* the smallest of a family of sets of nodes that is closed under intersection
Least(family) == {n \in Live : \A X \in family : n \in X}

Above(t) ==
    LET live == Live
    IN  Least({X \in SUBSET live : t \in X /\ \A n \in X : node[n].parent \in X \cup {NoNode}})

\* mutant: the recursion joins the other way round and climbs to the roots
Below_Ancestors(S) == UNION {Above(n) : n \in S \cap Live}

\* get_descendants: S and, with a node, its children
Below(S) ==
    LET live == Live
    IN  Least({X \in SUBSET live : S \cap live \subseteq X
                                 /\ \A n \in live \ X : node[n].parent \notin X})

\* a set of nodes that all have their parent in the set: no root is above them
Rootless(rows, X) == X # {} /\ \A n \in X : rows[n].parent \in X

\* UNION ALL visits the nodes of a cycle again and again: the query returns
\* only when there is none below S
QueryEnds(S) == \A X \in SUBSET Below(S) : ~Rootless(node, X)

\* "unique title per parent per user", "... per group"
TitlesUnique(rows) ==
    \A m, n \in Exist(rows) : m # n /\ rows[m].parent # NoNode =>
        <<rows[m].parent, rows[m].owner, rows[m].title>>
            # <<rows[n].parent, rows[n].owner, rows[n].title>>

\* the foreign keys parent_id, user_id and group_id
References(rows, accs) ==
    \A n \in Exist(rows) :
        /\ rows[n].parent \in Exist(rows) \cup {NoNode}
        /\ rows[n].owner \in accs

Legal(rows, accs) == TitlesUnique(rows) /\ References(rows, accs)

\* a folder and all it holds have one owner
OneOwnerPerTree(rows) ==
    \A n \in Exist(rows) : rows[n].parent # NoNode => rows[n].owner = rows[rows[n].parent].owner

\* above every node there is a home or inbox of its owner, and nothing else is
\* without a parent
Rooted(rows) ==
    /\ \A X \in SUBSET Exist(rows) : ~Rootless(rows, X)
    /\ \A n \in Exist(rows) : rows[n].parent = NoNode => n \in Special[rows[n].owner]

\* every account was created with its home and inbox, and made its folders there
ASSUME StartAssumption ==
    /\ Start \in [Nodes -> Row \cup {NoRow}]
    /\ \A o \in Owners : \A n \in Special[o] :
        Start[n] = [parent |-> NoNode, owner |-> o, title |-> NoTitle]
    /\ Legal(Start, Owners) /\ OneOwnerPerTree(Start) /\ Rooted(Start)

\* ON DELETE CASCADE: a home or inbox takes its account with it, an account
\* all the nodes it owns
Doomed(S) ==
    LET live == Live
    IN  Least({X \in SUBSET live : S \cap live \subseteq X
                                 /\ \A n \in live \ X : Special[node[n].owner] \cap X = {}})
DoomedAccounts(D) == {o \in accounts : Special[o] \cap D # {}}

Goto(r, pc) == req' = [req EXCEPT ![r].pc = pc]
At(r, pc) == req[r].pc = pc
Send(kind, S) == sent' = sent \cup {<<kind, n>> : n \in S}

Raise(r) == Goto(r, "error") /\ UNCHANGED <<store, sent, strays>>

\* a handler of Exclusive overlaps with no other handler
MayBegin(r, op) ==
    /\ op \in Ops
    /\ At(r, "idle")
    /\ \A q \in Reqs : req[q].pc \notin Stopped => {op, req[q].op} \cap Exclusive = {}

\* what a client selects, one node or some in the listing of a folder, and what
\* it may move to t
Selections ==
    {S \in SUBSET Live : /\ Cardinality(S) \in 1..MaxPick
                        /\ \A m, n \in S : m = n \/ node[m].parent = node[n].parent}
Movable(t) == IF CyclicMoves THEN Live ELSE Live \ Above(t)

-----------------------------------------------------------------------------
(* POST /nodes/ : create_folder, create_document *)

BeginCreate(r) ==
    /\ MayBegin(r, "create")
    /\ Cardinality({q \in Reqs : req[q].pc \in {"creRead", "creInsert"}}) < Cardinality(unused)
    /\ \E p \in Live, t \in Titles :
        req' = [req EXCEPT ![r] = [NoRequest EXCEPT
                    !.op = "create", !.pc = "creRead", !.to = p, !.title = t]]
    /\ UNCHANGED <<store, sent, strays>>

\* mutant: the new node belongs to any account, not to that of its parent
CreRead_AnyOwner(r) ==
    /\ At(r, "creRead")
    /\ \E o \in accounts : req' = [req EXCEPT ![r].pc = "creInsert", ![r].owner = o]
    /\ UNCHANGED <<store, sent, strays>>

\* the owner of the parent; no row: fetchone() is None, one() raises
CreRead(r) ==
    /\ At(r, "creRead")
    /\ \/ /\ req[r].to \in Live
          /\ req' = [req EXCEPT ![r].pc = "creInsert", ![r].owner = node[req[r].to].owner]
          /\ UNCHANGED <<store, sent, strays>>
       \/ /\ req[r].to \notin Live
          /\ Raise(r)

\* mutant: the identity is made once, when the module is loaded
CreInsert_SameId(r) ==
    /\ At(r, "creInsert")
    /\ unused # {}
    /\ LET n == CHOOSE m \in unused : TRUE
           rows == [node EXCEPT ![n] = [parent |-> req[r].to, owner |-> req[r].owner,
                                        title |-> req[r].title]]
       IN  \/ /\ Legal(rows, accounts)
              /\ node' = rows
              /\ req' = [req EXCEPT ![r].pc = "creNotify", ![r].ids = {n}]
              /\ UNCHANGED <<unused, accounts, sent, strays>>
           \/ /\ ~Legal(rows, accounts)
              /\ Raise(r)

\* uuid.uuid4(): identities are interchangeable, so one unused one stands for all
\* (left out: an id the client chooses, which could be that of a deleted node)
CreInsert(r) ==
    /\ At(r, "creInsert")
    /\ unused # {}
    /\ LET n == CHOOSE m \in unused : TRUE
           rows == [node EXCEPT ![n] = [parent |-> req[r].to, owner |-> req[r].owner,
                                        title |-> req[r].title]]
       IN  \/ /\ Legal(rows, accounts)
              /\ node' = rows
              /\ unused' = unused \ {n}
              /\ req' = [req EXCEPT ![r].pc = "creNotify", ![r].ids = {n}]
              /\ UNCHANGED <<accounts, sent, strays>>
           \/ /\ ~Legal(rows, accounts)
              /\ Raise(r)

\* mutant: nothing is sent
CreNotify_Silent(r) ==
    /\ At(r, "creNotify")
    /\ IF req[r].ids \subseteq Live THEN Goto(r, "done") ELSE Goto(r, "error")
    /\ UNCHANGED <<store, sent, strays>>

\* the new node is loaded again for the answer, then announced
CreNotify(r) ==
    /\ At(r, "creNotify")
    /\ \/ /\ req[r].ids \subseteq Live
          /\ Send("index_add", req[r].ids)
          /\ Goto(r, "done")
          /\ UNCHANGED <<store, strays>>
       \/ /\ ~(req[r].ids \subseteq Live)
          /\ Raise(r)

-----------------------------------------------------------------------------
(* PATCH /nodes/{node_id} : update_node *)

\* title and parent_id are optional, and a client sets one of them
BeginRename(r) ==
    /\ MayBegin(r, "rename")
    /\ \E n \in Live, t \in Titles :
        req' = [req EXCEPT ![r] = [NoRequest EXCEPT
                    !.op = "rename", !.pc = "updCommit", !.ids = {n}, !.title = t]]
    /\ UNCHANGED <<store, sent, strays>>

\* the parent may be a node of any account: the route asks for the permission to
\* update the node, and nobody asks about the parent
BeginReparent(r) ==
    /\ MayBegin(r, "reparent")
    /\ \E p \in Live : \E n \in Movable(p) :
        req' = [req EXCEPT ![r] = [NoRequest EXCEPT
                    !.op = "reparent", !.pc = "updCommit", !.ids = {n}, !.to = p]]
    /\ UNCHANGED <<store, sent, strays>>

\* the owners stay as they are
Updated(r) ==
    [n \in Nodes |->
        IF n \in req[r].ids
        THEN [node[n] EXCEPT !.parent = IF req[r].to = NoNode THEN @ ELSE req[r].to,
                             !.title = IF req[r].title = NoTitle THEN @ ELSE req[r].title]
        ELSE node[n]]

\* what the update puts below a folder of another account
Strayed(r) == {n \in req[r].ids : req[r].to # NoNode /\ node[n].owner # node[req[r].to].owner}

UpdCommit(r) ==
    /\ At(r, "updCommit")
    /\ \/ /\ req[r].ids \subseteq Live /\ Legal(Updated(r), accounts)
          /\ node' = Updated(r)
          /\ strays' = IF req[r].to = NoNode THEN strays ELSE (strays \ req[r].ids) \cup Strayed(r)
          /\ Goto(r, "updNotify")
          /\ UNCHANGED <<unused, accounts, sent>>
       \/ /\ ~(req[r].ids \subseteq Live /\ Legal(Updated(r), accounts))
          /\ Raise(r)

UpdNotify(r) ==
    /\ At(r, "updNotify")
    /\ \/ /\ req[r].ids \subseteq Live
          /\ Send("index_add", req[r].ids)
          /\ Goto(r, "done")
          /\ UNCHANGED <<store, strays>>
       \/ /\ ~(req[r].ids \subseteq Live)
          /\ Raise(r)

-----------------------------------------------------------------------------
(* POST /nodes/move : move_nodes *)

BeginMove(r) ==
    /\ MayBegin(r, "move")
    /\ \E t \in Live : LET movable == Movable(t) IN \E S \in Selections :
        /\ S \subseteq movable
        /\ req' = [req EXCEPT ![r] = [NoRequest EXCEPT
                    !.op = "move", !.pc = "movTarget", !.ids = S, !.to = t]]
    /\ UNCHANGED <<store, sent, strays>>

TargetOwner(n) == node[n].owner

\* the target; a missing one is noticed after the next query
MovTarget(r) ==
    /\ At(r, "movTarget")
    /\ req' = [req EXCEPT ![r].pc = "movTree",
                          ![r].owner = IF req[r].to \in Live THEN TargetOwner(req[r].to)
                                       ELSE NoOwner]
    /\ UNCHANGED <<store, sent, strays>>

MovTree(r) ==
    /\ At(r, "movTree")
    /\ QueryEnds(req[r].ids)
    /\ req' = [req EXCEPT ![r].pc = IF req[r].owner = NoOwner THEN "error" ELSE "movCommit",
                          ![r].tree = Below(req[r].ids)]
    /\ UNCHANGED <<store, sent, strays>>

\* mutant: source and target swapped
Reparented_Swapped(r) ==
    [n \in Nodes |-> IF n = req[r].to
                     THEN [node[n] EXCEPT !.parent = CHOOSE m \in req[r].ids : TRUE] ELSE node[n]]

\* UPDATE ... SET parent_id: the sources that still exist
Reparented(r) ==
    [n \in Nodes |-> IF n \in req[r].ids \cap Live
                     THEN [node[n] EXCEPT !.parent = req[r].to] ELSE node[n]]

\* mutant: the owner of the sources is updated, that of their descendants is not
Reowned_Sources(r) ==
    [n \in Nodes |-> IF n \in req[r].ids \cap Live
                     THEN [Reparented(r)[n] EXCEPT !.owner = req[r].owner] ELSE node[n]]

\* ... then UPDATE ... SET user_id, group_id of all that was below them
Reowned(r) ==
    [n \in Nodes |-> IF n \in req[r].tree \cap Live
                     THEN [Reparented(r)[n] EXCEPT !.owner = req[r].owner]
                     ELSE Reparented(r)[n]]

\* one transaction; when some sources are gone the answer is 420 (419 when all
\* are), and what was updated stays
MovCommit(r) ==
    LET ok == Legal(Reparented(r), accounts) /\ Legal(Reowned(r), accounts)
    IN  /\ At(r, "movCommit")
        /\ \/ /\ ok
              /\ node' = Reowned(r)
              /\ strays' = strays \ req[r].tree
              /\ Goto(r, IF req[r].ids \subseteq Live THEN "done" ELSE "error")
              /\ UNCHANGED <<unused, accounts, sent>>
           \/ ~ok /\ Raise(r)

-----------------------------------------------------------------------------
(* DELETE /nodes/ : delete_nodes *)

BeginDelete(r) ==
    /\ MayBegin(r, "delete")
    /\ \E S \in Selections :
        req' = [req EXCEPT ![r] = [NoRequest EXCEPT
                    !.op = "delete", !.pc = "delTree", !.ids = S]]
    /\ UNCHANGED <<store, sent, strays>>

\* mutant: the index is told before the rows are gone
DelTree_NotifyFirst(r) ==
    /\ At(r, "delTree")
    /\ QueryEnds(req[r].ids)
    /\ req' = [req EXCEPT ![r].pc = "delCommit", ![r].tree = Below(req[r].ids)]
    /\ Send("index_remove", req[r].ids)
    /\ UNCHANGED <<store, strays>>

DelTree(r) ==
    /\ At(r, "delTree")
    /\ QueryEnds(req[r].ids)
    /\ req' = [req EXCEPT ![r].pc = "delCommit", ![r].tree = Below(req[r].ids)]
    /\ UNCHANGED <<store, sent, strays>>

\* mutant: the rows of the accounts stay
DropRows_KeepAccounts(D) ==
    /\ node' = [n \in Nodes |-> IF n \in D THEN NoRow ELSE node[n]]
    /\ UNCHANGED <<unused, accounts>>

DropRows(D) ==
    /\ node' = [n \in Nodes |-> IF n \in D THEN NoRow ELSE node[n]]
    /\ accounts' = accounts \ DoomedAccounts(D)
    /\ UNCHANGED unused

\* the rows may go: nothing that stays refers to them
Removable(D) ==
    /\ DoomedAccounts(D) \cap Tied = {}
    /\ \A n \in Live \ D : node[n].parent \notin D

DelCommit(r) ==
    LET D == Doomed(req[r].tree)
    IN  /\ At(r, "delCommit")
        /\ \/ /\ Removable(D)
              /\ DropRows(D)
              /\ Goto(r, "delNotify")
              /\ UNCHANGED <<sent, strays>>
           \/ /\ ~Removable(D)
              /\ Raise(r)

\* only the nodes of the request, not those below them
DelNotify(r) ==
    /\ At(r, "delNotify")
    /\ Send("index_remove", req[r].ids)
    /\ Goto(r, "done")
    /\ UNCHANGED <<store, strays>>

-----------------------------------------------------------------------------
(* The specification *)

Init ==
    /\ node = Start
    /\ unused = {n \in Nodes : Start[n] = NoRow}
    /\ accounts = Owners
    /\ sent = {}
    /\ strays = {}
    /\ req = [r \in Reqs |-> NoRequest]

Begin(r) == BeginCreate(r) \/ BeginRename(r) \/ BeginReparent(r) \/ BeginMove(r) \/ BeginDelete(r)

\* the rest of a handler, once its request is accepted
Step(r) ==
    \/ CreRead(r) \/ CreInsert(r) \/ CreNotify(r)
    \/ UpdCommit(r) \/ UpdNotify(r)
    \/ MovTarget(r) \/ MovTree(r) \/ MovCommit(r)
    \/ DelTree(r) \/ DelCommit(r) \/ DelNotify(r)

Next == \E r \in Reqs : Begin(r) \/ Step(r)

Spec == Init /\ [][Next]_vars

-----------------------------------------------------------------------------
(* Properties *)

\* Types of all variables.
TypeOK ==
    /\ node \in [Nodes -> Row \cup {NoRow}]
    /\ unused \subseteq Nodes \ Live
    /\ accounts \subseteq Owners
    /\ strays \subseteq Nodes
    /\ req \in [Reqs -> Request]

\* A folder and all it holds belong to one account: the owner of a node is that
\* of its parent, wherever nodes were created and moved (has_node_perm looks at
\* the owner of the node alone).  Only a PATCH of parent_id may break this, for
\* the one node it names: what is below that node still has its owner, and a
\* move of the node, or of what it hangs below, gives all of it one owner again.
OwnersFollowParents ==
    \A n \in Live \ strays :
        node[n].parent # NoNode => node[n].owner = node[node[n].parent].owner

\* Every node hangs in the tree of some home or inbox: no set of nodes has all
\* its parents in itself, and a node without parent is a home or inbox of its
\* owner ("home or inbox folders will be first", db/common.py:22).
RootedAtSpecial == Rooted(node)

\* Within a folder titles are distinct ("Within a folder title must be unique",
\* document/db/api.py:387).  The constraints compare the owner too, so this needs
\* that the nodes of a folder have one owner: of two nodes with the same title
\* one was put there by a PATCH of parent_id from another account.
SiblingTitlesDistinct ==
    \A m, n \in Live : m # n /\ node[m].parent = node[n].parent /\ node[m].parent # NoNode =>
        node[m].title # node[n].title \/ {m, n} \cap strays # {}

\* An account that exists has its home and inbox, whatever is deleted.
AccountsKeepFolders == \A o \in accounts : Special[o] \subseteq Live

\* The search index is told to drop only nodes that are gone.
IndexDropsGone == \A n \in Nodes : <<"index_remove", n>> \in sent => n \notin Live

\* When no handler is at work, every node that was created and still exists was
\* announced to the search index.
CreatedAnnounced ==
    (\A r \in Reqs : req[r].pc \in Stopped) =>
        \A n \in Live : Start[n] = NoRow => <<"index_add", n>> \in sent

\* A delete takes the nodes the user selected with all that is below them, and
\* otherwise only what belongs to an account that goes with its home or inbox.
DeleteTakesSubtree ==
    [][\A r \in Reqs : At(r, "delCommit") /\ req'[r].pc = "delNotify" =>
          \A n \in Live :
              \/ Above(n) \cap req[r].ids # {} /\ n \notin Live'
              \/ Above(n) \cap req[r].ids = {} /\ (n \in Live' \/ node[n].owner \notin accounts')]_vars

=============================================================================
