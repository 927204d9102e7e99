------------------------------ MODULE Sharing ------------------------------
(***************************************************************************)
(* The grants of shared nodes, as                                          *)
(*   papermerge/core/features/shared_nodes/db/api.py                        *)
(* writes them and has_node_perm of papermerge/core/db/common.py reads them.*)
(* update_shared_node_access compares a list from the client with two      *)
(* selects, deletes in two statements and inserts with the commit; it holds *)
(* no lock before its first delete, and each statement sees what is         *)
(* committed at its time.  Every action below is what happens between two   *)
(* of these points.                                                         *)
(*                                                                          *)
(* Abstracted: moves of nodes, memberships and permissions of roles are     *)
(* fixed; names, time stamps and pages of the listing are left out.         *)
(***************************************************************************)
CONSTANTS
    Nodes,
    NoNode,
    Parent,         \* [Nodes -> Nodes \cup {NoNode}]
    Owner,          \* [Nodes -> Users \cup Groups]
    Users, Groups,
    Members,        \* [Groups -> SUBSET Users]
    Roles,
    Perms,
    RolePerms,      \* [Roles -> SUBSET Perms]
    Reqs,           \* requests; each one runs one handler
    Start,          \* the grants the system starts with
    Lists,          \* bound: access lists a client sends
    Shares          \* bound: what a client shares: [ns, who, roles]

\* the value of user_id in a row of a group, and of group_id in that of a user
NULL == "NULL"
First == "first"    \* who made the rows of Start

Holders == Users \cup Groups
Grants == Holders \X Roles

\* class SharedNode; by stands for the row's identity, each request inserts a
\* grant of a node at most once
Row == [node : Nodes, who : Holders, role : Roles, by : Reqs \cup {First}]

ASSUME SentinelsAssumption ==
    /\ NoNode \notin Nodes /\ First \notin Reqs
    /\ NULL \notin Holders /\ Users \cap Groups = {}
ASSUME TreeAssumption ==
    /\ Parent \in [Nodes -> Nodes \cup {NoNode}]
    /\ Owner \in [Nodes -> Holders]
ASSUME RolesAssumption == Members \in [Groups -> SUBSET Users] /\ RolePerms \in [Roles -> SUBSET Perms]
ASSUME StartAssumption == \A row \in Start : row \in Row /\ row.by = First
ASSUME ListsAssumption == \A list \in Lists : list \subseteq Grants
ASSUME SharesAssumption ==
    \A s \in Shares : s.ns \subseteq Nodes /\ s.who \subseteq Holders /\ s.roles \subseteq Roles

VARIABLES
    nodes,      \* nodes that exist
    roles,      \* roles that exist
    shared,     \* the shared_nodes rows
    req,        \* the requests: what was asked, and where the handler is
    crossed     \* auxiliary: requests that took effect on its node since it began

vars == <<nodes, roles, shared, req, crossed>>

Stopped == {"idle", "done", "error"}
Pcs == Stopped \cup {"readGroups", "dropUsers", "waitUsers", "dropGroups", "waitGroups", "commit"}

Request == [pc : Pcs,                           \* where the handler is
            ns : SUBSET Nodes,                  \* nodes it works on
            ask : SUBSET Grants,                \* grants it was asked for
            users : SUBSET ((Users \cup {NULL}) \X Roles),    \* pairs it has read
            groups : SUBSET ((Groups \cup {NULL}) \X Roles),
            drop : SUBSET Row,                  \* rows it has deleted
            found : SUBSET Row]                 \* rows its waiting delete has found

NoRequest == [pc |-> "idle", ns |-> {}, ask |-> {}, users |-> {}, groups |-> {},
              drop |-> {}, found |-> {}]

-----------------------------------------------------------------------------
(* Helpers *)

UserId(row) == IF row.who \in Users THEN row.who ELSE NULL
GroupId(row) == IF row.who \in Groups THEN row.who ELSE NULL
GrantOf(row) == <<row.who, row.role>>
RoleOf(grant) == grant[2]

RowsOf(n) == {row \in shared : row.node = n}
Fresh(r, ns, grants) == {[node |-> n, who |-> g[1], role |-> g[2], by |-> r] : n \in ns, g \in grants}

\* the foreign keys node_id and role_id
References(rows) == \A row \in rows : row.node \in nodes /\ row.role \in roles

UserGrants(grants) == {g \in grants : g[1] \in Users}
GroupGrants(grants) == {g \in grants : g[1] \in Groups}

At(r, pc) == req[r].pc = pc

\* r commits rows of the nodes ns: the other running requests on them are crossed
Effect(r, ns) ==
    crossed' = [q \in Reqs |->
        IF q # r /\ req[q].pc \notin Stopped /\ req[q].ns \cap ns # {}
        THEN crossed[q] \cup {r} ELSE crossed[q]]

-----------------------------------------------------------------------------
(* POST /shared-nodes/ : create_shared_nodes *)

\* one commit; nothing is unique, so a grant may get a second row
Share(r) ==
    /\ At(r, "idle")
    /\ \E s \in Shares :
        LET ask == s.who \X s.roles
            rows == Fresh(r, s.ns, ask)
            asked == [NoRequest EXCEPT !.ns = s.ns, !.ask = ask]
        IN  \/ /\ References(rows)
               /\ shared' = shared \cup rows
               /\ req' = [req EXCEPT ![r] = [asked EXCEPT !.pc = "done"]]
               /\ Effect(r, s.ns)
            \/ /\ ~References(rows)
               /\ req' = [req EXCEPT ![r] = [asked EXCEPT !.pc = "error"]]
               /\ UNCHANGED <<shared, crossed>>
    /\ UNCHANGED <<nodes, roles>>

-----------------------------------------------------------------------------
(* PATCH /shared-nodes/access/{node_id} : update_shared_node_access *)

\* up to the first select, of the user_id and role_id of all rows of the node;
\* that the node exists is nowhere asked
BeginSync(r) ==
    /\ At(r, "idle")
    /\ \E n \in Nodes, list \in Lists :
        req' = [req EXCEPT ![r] = [NoRequest EXCEPT
                    !.pc = "readGroups", !.ns = {n}, !.ask = list,
                    !.users = {<<UserId(row), row.role>> : row \in RowsOf(n)}]]
    /\ UNCHANGED <<nodes, roles, shared, crossed>>

SyncReadGroups(r) ==
    /\ At(r, "readGroups")
    /\ \E n \in req[r].ns :
        req' = [req EXCEPT ![r].pc = "dropUsers",
                           ![r].groups = {<<GroupId(row), row.role>> : row \in RowsOf(n)}]
    /\ UNCHANGED <<nodes, roles, shared, crossed>>

\* mutant: NULL is equal to NULL, so the rows of groups match as well
UserMatches_Null(row, pairs) == <<UserId(row), row.role>> \in pairs

\* (user_id, role_id) IN (...): NULL is equal to nothing
UserMatches(row, pairs) == UserId(row) # NULL /\ <<UserId(row), row.role>> \in pairs
GroupMatches(row, pairs) == GroupId(row) # NULL /\ <<GroupId(row), row.role>> \in pairs

\* rows that another request has deleted and not committed
Locked(r, rows) == \E q \in Reqs \ {r} : req[q].drop \cap rows # {}

\* a delete of the rows it finds; it waits when one of them is locked
Delete(r, rows, waiting, next) ==
    /\ \/ /\ Locked(r, rows)
          /\ req' = [req EXCEPT ![r].pc = waiting, ![r].found = rows]
       \/ /\ ~Locked(r, rows)
          /\ req' = [req EXCEPT ![r].pc = next, ![r].drop = @ \cup rows]
    /\ UNCHANGED <<nodes, roles, shared, crossed>>

SyncDropUsers(r) ==
    LET pairs == req[r].users \ UserGrants(req[r].ask)
    IN  /\ At(r, "dropUsers")
        /\ Delete(r, {row \in shared : row.node \in req[r].ns /\ UserMatches(row, pairs)},
                  "waitUsers", "dropGroups")

SyncDropGroups(r) ==
    LET pairs == req[r].groups \ GroupGrants(req[r].ask)
    IN  /\ At(r, "dropGroups")
        /\ Delete(r, {row \in shared : row.node \in req[r].ns /\ GroupMatches(row, pairs)},
                  "waitGroups", "commit")

\* the locks are gone, and of the rows found those that are left are deleted;
\* what was inserted meanwhile the statement does not see
SyncGoOn(r) ==
    /\ At(r, "waitUsers") \/ At(r, "waitGroups")
    /\ ~Locked(r, req[r].found)
    /\ req' = [req EXCEPT ![r].pc = IF At(r, "waitUsers") THEN "dropGroups" ELSE "commit",
                          ![r].drop = @ \cup (req[r].found \cap shared),
                          ![r].found = {}]
    /\ UNCHANGED <<nodes, roles, shared, crossed>>

\* mutant: only users are added
Added_OnlyUsers(r) == UserGrants(req[r].ask) \ req[r].users

\* to_add_users and to_add_groups
Added(r) ==
    (UserGrants(req[r].ask) \ req[r].users) \cup (GroupGrants(req[r].ask) \ req[r].groups)

SyncCommit(r) ==
    LET rows == Fresh(r, req[r].ns, Added(r))
    IN  /\ At(r, "commit")
        /\ \/ /\ References(rows)
              /\ shared' = (shared \ req[r].drop) \cup rows
              /\ req' = [req EXCEPT ![r].pc = "done", ![r].drop = {}]
              /\ Effect(r, req[r].ns)
           \/ /\ ~References(rows)
              /\ req' = [req EXCEPT ![r].pc = "error", ![r].drop = {}]
              /\ UNCHANGED <<shared, crossed>>
        /\ UNCHANGED <<nodes, roles>>

-----------------------------------------------------------------------------
(* Deletes that take grants with them: ON DELETE CASCADE *)

\* get_ancestors: the node itself and all above it
Ancestors(n) ==
    {m \in Nodes : \A X \in SUBSET Nodes :
        n \in X /\ (\A k \in X : Parent[k] \in X \cup {NoNode}) => m \in X}

\* a row that a running synchronisation has deleted is locked until its commit
DeleteNode ==
    \E n \in nodes :
        LET gone == {m \in nodes : n \in Ancestors(m)}
            rows == {row \in shared : row.node \in gone}
        IN  /\ \A r \in Reqs : req[r].drop \cap rows = {}
            /\ nodes' = nodes \ gone
            /\ shared' = shared \ rows
            /\ UNCHANGED <<roles, req, crossed>>

\* mutant: the foreign key role_id has no ON DELETE CASCADE, nor is it enforced
DeleteRole_KeepsRows ==
    \E role \in roles :
        /\ roles' = roles \ {role}
        /\ UNCHANGED <<nodes, shared, req, crossed>>

DeleteRole ==
    \E role \in roles :
        LET rows == {row \in shared : row.role = role}
        IN  /\ \A r \in Reqs : req[r].drop \cap rows = {}
            /\ roles' = roles \ {role}
            /\ shared' = shared \ rows
            /\ UNCHANGED <<nodes, req, crossed>>

-----------------------------------------------------------------------------
(* Reading the grants *)

\* the rows for the user or one of the groups of the user
HeldBy(row, u) == row.who = u \/ (row.who \in Groups /\ u \in Members[row.who])

\* mutant: what is shared with the groups of the user is forgotten
HasNodePerm_NoGroups(u, n, p) ==
    /\ n \in nodes
    /\ \/ Owner[n] = u \/ (Owner[n] \in Groups /\ u \in Members[Owner[n]])
       \/ \E row \in shared :
            row.who = u /\ p \in RolePerms[row.role] /\ row.node \in Ancestors(n)

\* has_node_perm
HasNodePerm(u, n, p) ==
    /\ n \in nodes
    /\ \/ Owner[n] = u \/ (Owner[n] \in Groups /\ u \in Members[Owner[n]])
       \/ \E row \in shared :
            HeldBy(row, u) /\ p \in RolePerms[row.role] /\ row.node \in Ancestors(n)

\* get_paginated_shared_nodes: the nodes of the listing, and perms of each (left out:
\* the KeyError, and no listing at all, when a node is listed and no permission of
\* it was found: its roles have none, or it was shared between the two statements)
Listed(u) == {row.node : row \in {x \in shared : HeldBy(x, u)}}
ListedPerms(u, n) == UNION {RolePerms[row.role] : row \in {x \in RowsOf(n) : HeldBy(x, u)}}

\* get_shared_doc: where the breadcrumb of a shared document stops
SharedAbove(u, n) == Ancestors(n) \cap Listed(u)

-----------------------------------------------------------------------------
(* The specification *)

Init ==
    /\ nodes = Nodes
    /\ roles = Roles
    /\ shared = Start
    /\ req = [r \in Reqs |-> NoRequest]
    /\ crossed = [r \in Reqs |-> {}]

Next ==
    \/ \E r \in Reqs :
        \/ Share(r) \/ BeginSync(r) \/ SyncReadGroups(r)
        \/ SyncDropUsers(r) \/ SyncDropGroups(r) \/ SyncGoOn(r) \/ SyncCommit(r)
    \/ DeleteNode \/ DeleteRole

Spec == Init /\ [][Next]_vars

-----------------------------------------------------------------------------
(* Properties *)

\* Types of all variables; rows refer to nodes and roles that exist.
TypeOK ==
    /\ nodes \subseteq Nodes
    /\ roles \subseteq Roles
    /\ shared \subseteq Row
    /\ References(shared)
    /\ req \in [Reqs -> Request]
    /\ crossed \in [Reqs -> SUBSET Reqs]

StateOf(pc) == CASE pc = "idle" -> "idle"
                 [] pc = "done" -> "done"
                 [] pc = "error" -> "failed"
                 [] OTHER -> "open"

Table == INSTANCE AccessTable WITH
    access <- [n \in Nodes |-> {GrantOf(row) : row \in RowsOf(n)}],
    call <- [r \in Reqs |-> [state |-> StateOf(req[r].pc), ns |-> req[r].ns, ask |-> req[r].ask]]

\* The rows implement a table of grants: an update of the access of a node leaves
\* exactly its list unless another request commits to the node meanwhile, and then
\* no grant that neither asks for; a failed request changes nothing.
TableSpec == Table!Spec

\* A synchronisation leaves the rows it wants as they are (who shared the node,
\* and when), whatever runs beside it.
WantedRowsStay ==
    [][\A r \in Reqs : At(r, "commit") /\ req'[r].pc = "done" =>
          \A row \in shared : GrantOf(row) \in req[r].ask => row \in shared']_vars

\* What the listing of shared nodes says of a user's permissions on a node is
\* what a check of the permission finds, there and on every node below.
ListedPermsHeld ==
    \A u \in Users : \A n \in nodes : \A m \in SharedAbove(u, n) :
        \A p \in ListedPerms(u, m) : HasNodePerm(u, n, p)

-----------------------------------------------------------------------------
(* What comments of the code say, and the code does not do *)

\* "it actually syncs content in `access_update` for specific node_id to match
\* data in `shared_nodes` table" (shared_nodes/db/api.py:262): once the updates of
\* a node are answered, its grants are the list of one of them, when nobody
\* shared it meanwhile.
SyncedToOneList ==
    \A n \in nodes :
        LET users == {r \in Reqs : n \in req[r].ns}
        IN  (Shares = {} /\ users # {} /\ \A r \in users : At(r, "done")) =>
                \E r \in users : {GrantOf(row) : row \in RowsOf(n)}
                                     = {g \in req[r].ask : RoleOf(g) \in roles}

=============================================================================
