--------------------------- MODULE Sharing_proofs ---------------------------
(***************************************************************************)
(* Types of Sharing, and that it implements AccessTable.                   *)
(***************************************************************************)
EXTENDS Sharing, TLAPS

-----------------------------------------------------------------------------
(* Types *)

\* What the steps build rows of is typed.
LEMMA FreshRows ==
    ASSUME NEW r \in Reqs, NEW ns \in SUBSET Nodes, NEW grants \in SUBSET Grants
    PROVE  Fresh(r, ns, grants) \in SUBSET Row
  BY DEF Fresh, Grants, Row

\* The grants a synchronisation adds are among those asked for.
LEMMA AddedAsked ==
    ASSUME NEW r \in Reqs
    PROVE  Added(r) \subseteq req[r].ask
  BY DEF Added, UserGrants, GroupGrants

\* A record of a request, one field at a time.
LEMMA RequestFields ==
    ASSUME NEW x \in Request
    PROVE  /\ x.pc \in Pcs /\ x.ns \in SUBSET Nodes /\ x.ask \in SUBSET Grants
           /\ x.users \in SUBSET ((Users \cup {NULL}) \X Roles)
           /\ x.groups \in SUBSET ((Groups \cup {NULL}) \X Roles)
           /\ x.drop \in SUBSET Row /\ x.found \in SUBSET Row
  BY DEF Request

\* The fields a step writes keep their types.
LEMMA ReadRecord ==
    ASSUME NEW x \in Request, NEW groups \in SUBSET ((Groups \cup {NULL}) \X Roles)
    PROVE  [x EXCEPT !.pc = "dropUsers", !.groups = groups] \in Request
  BY DEF Request, Pcs

LEMMA DropRecord ==
    ASSUME NEW x \in Request, NEW pc \in Pcs, NEW drop \in SUBSET Row
    PROVE  [x EXCEPT !.pc = pc, !.drop = drop, !.found = {}] \in Request
  BY DEF Request

LEMMA InitType == Init => TypeOK
  <1> SUFFICES ASSUME Init PROVE TypeOK
    OBVIOUS
  <1>1. Start \subseteq Row
    BY StartAssumption
  <1>2. References(shared)
    BY <1>1 DEF Init, References, Row
  <1>3. NoRequest \in Request
    BY DEF NoRequest, Request, Pcs, Stopped
  <1>4. QED
    BY <1>1, <1>2, <1>3 DEF Init, TypeOK

LEMMA ShareType == TypeOK /\ (\E r \in Reqs : Share(r)) => TypeOK'
  <1> SUFFICES ASSUME TypeOK, NEW r \in Reqs, NEW s \in Shares, At(r, "idle"),
                      LET ask == s.who \X s.roles
                          rows == Fresh(r, s.ns, ask)
                          asked == [NoRequest EXCEPT !.ns = s.ns, !.ask = ask]
                      IN  \/ /\ References(rows)
                             /\ shared' = shared \cup rows
                             /\ req' = [req EXCEPT ![r] = [asked EXCEPT !.pc = "done"]]
                             /\ Effect(r, s.ns)
                          \/ /\ ~References(rows)
                             /\ req' = [req EXCEPT ![r] = [asked EXCEPT !.pc = "error"]]
                             /\ UNCHANGED <<shared, crossed>>,
                      UNCHANGED <<nodes, roles>>
               PROVE  TypeOK'
    BY DEF Share
  <1> DEFINE ask == s.who \X s.roles
             rows == Fresh(r, s.ns, ask)
  <1>1. s.ns \in SUBSET Nodes /\ ask \in SUBSET Grants
    BY SharesAssumption DEF Grants
  <1>2. rows \in SUBSET Row
    BY <1>1, FreshRows
  <1>3. req' \in [Reqs -> Request]
    <2>1. \A pc \in {"done", "error"} :
            [[NoRequest EXCEPT !.ns = s.ns, !.ask = ask] EXCEPT !.pc = pc] \in Request
      BY <1>1 DEF Request, NoRequest, Pcs, Stopped
    <2>2. QED
      BY <2>1 DEF TypeOK
  <1>4. crossed' \in [Reqs -> SUBSET Reqs]
    BY DEF TypeOK, Effect
  <1>5. shared' \subseteq Row /\ References(shared)'
    BY <1>2 DEF TypeOK, References
  <1>6. QED
    BY <1>3, <1>4, <1>5 DEF TypeOK

LEMMA ReadType ==
    TypeOK /\ (\E r \in Reqs : BeginSync(r) \/ SyncReadGroups(r)) => TypeOK'
  <1> SUFFICES ASSUME TypeOK, NEW r \in Reqs, BeginSync(r) \/ SyncReadGroups(r)
               PROVE  TypeOK'
    OBVIOUS
  <1>1. \A row \in shared : /\ <<UserId(row), row.role>> \in (Users \cup {NULL}) \X Roles
                            /\ <<GroupId(row), row.role>> \in (Groups \cup {NULL}) \X Roles
    BY DEF TypeOK, Row, UserId, GroupId, Holders
  <1>2. req' \in [Reqs -> Request]
    <2>1. CASE BeginSync(r)
      <3> PICK n \in Nodes, list \in Lists :
            req' = [req EXCEPT ![r] = [NoRequest EXCEPT
                        !.pc = "readGroups", !.ns = {n}, !.ask = list,
                        !.users = {<<UserId(row), row.role>> : row \in RowsOf(n)}]]
        BY <2>1 DEF BeginSync
      <3>1. {<<UserId(row), row.role>> : row \in RowsOf(n)} \in SUBSET ((Users \cup {NULL}) \X Roles)
        BY <1>1 DEF RowsOf
      <3>2. [NoRequest EXCEPT !.pc = "readGroups", !.ns = {n}, !.ask = list,
                !.users = {<<UserId(row), row.role>> : row \in RowsOf(n)}] \in Request
        BY <3>1, ListsAssumption DEF Request, NoRequest, Pcs, Stopped
      <3>3. QED
        BY <3>2 DEF TypeOK
    <2>2. CASE SyncReadGroups(r)
      <3> PICK n \in req[r].ns :
            req' = [req EXCEPT ![r].pc = "dropUsers",
                               ![r].groups = {<<GroupId(row), row.role>> : row \in RowsOf(n)}]
        BY <2>2 DEF SyncReadGroups
      <3>1. {<<GroupId(row), row.role>> : row \in RowsOf(n)} \in SUBSET ((Groups \cup {NULL}) \X Roles)
        BY <1>1 DEF RowsOf
      <3>2. req[r] \in Request
        BY DEF TypeOK
      <3>3. PICK x \in Request : req' = [req EXCEPT ![r] = x]
        BY <3>1, <3>2, ReadRecord
      <3>4. QED
        BY <3>3 DEF TypeOK
    <2>3. QED
      BY <2>1, <2>2
  <1>3. UNCHANGED <<nodes, roles, shared, crossed>>
    BY DEF BeginSync, SyncReadGroups
  <1>4. QED
    BY <1>2, <1>3 DEF TypeOK, References

LEMMA DropType ==
    TypeOK /\ (\E r \in Reqs : SyncDropUsers(r) \/ SyncDropGroups(r) \/ SyncGoOn(r)) => TypeOK'
  <1> SUFFICES ASSUME TypeOK, NEW r \in Reqs,
                      SyncDropUsers(r) \/ SyncDropGroups(r) \/ SyncGoOn(r)
               PROVE  TypeOK'
    OBVIOUS
  <1>1. ASSUME NEW rows \in SUBSET Row, NEW waiting \in Pcs, NEW next \in Pcs,
               Delete(r, rows, waiting, next)
        PROVE  req' \in [Reqs -> Request]
    BY <1>1 DEF Delete, TypeOK, Request
  <1>2. {"waitUsers", "waitGroups", "dropGroups", "commit"} \subseteq Pcs
    BY DEF Pcs
  <1>3. req' \in [Reqs -> Request]
    <2>1. CASE SyncDropUsers(r)
      BY <1>1, <1>2, <2>1 DEF SyncDropUsers, TypeOK
    <2>2. CASE SyncDropGroups(r)
      BY <1>1, <1>2, <2>2 DEF SyncDropGroups, TypeOK
    <2>3. CASE SyncGoOn(r)
      <3>1. req[r].drop \cup (req[r].found \cap shared) \in SUBSET Row
        BY RequestFields DEF TypeOK
      <3>2. PICK pc \in Pcs, drop \in SUBSET Row :
              req' = [req EXCEPT ![r].pc = pc, ![r].drop = drop, ![r].found = {}]
        BY <1>2, <2>3, <3>1 DEF SyncGoOn
      <3>3. QED
        BY <3>2, DropRecord DEF TypeOK
    <2>4. QED
      BY <2>1, <2>2, <2>3
  <1>4. UNCHANGED <<nodes, roles, shared, crossed>>
    BY DEF SyncDropUsers, SyncDropGroups, SyncGoOn, Delete
  <1>5. QED
    BY <1>3, <1>4 DEF TypeOK, References

LEMMA CommitType == TypeOK /\ (\E r \in Reqs : SyncCommit(r)) => TypeOK'
  <1> SUFFICES ASSUME TypeOK, NEW r \in Reqs, SyncCommit(r)
               PROVE  TypeOK'
    OBVIOUS
  <1> DEFINE rows == Fresh(r, req[r].ns, Added(r))
  <1>1. rows \in SUBSET Row
    BY FreshRows, AddedAsked, RequestFields DEF TypeOK
  <1>2. req' \in [Reqs -> Request]
    BY DEF SyncCommit, TypeOK, Request, Pcs, Stopped
  <1>3. shared' \subseteq Row /\ References(shared)'
    BY <1>1 DEF SyncCommit, TypeOK, References
  <1>4. crossed' \in [Reqs -> SUBSET Reqs]
    BY DEF SyncCommit, TypeOK, Effect
  <1>5. QED
    BY <1>2, <1>3, <1>4 DEF SyncCommit, TypeOK

LEMMA RemoveType == TypeOK /\ (DeleteNode \/ DeleteRole) => TypeOK'
  BY DEF TypeOK, DeleteNode, DeleteRole, References

LEMMA StepType == TypeOK /\ [Next]_vars => TypeOK'
  <1>1. TypeOK /\ UNCHANGED vars => TypeOK'
    BY DEF TypeOK, vars, References
  <1>2. QED
    BY <1>1, ShareType, ReadType, DropType, CommitType, RemoveType DEF Next

\* The types of all variables, and that no row of a shared node ever refers to a
\* node or a role that is gone, for any tree, groups, roles and requests.
THEOREM TypeCorrect == Spec => []TypeOK
  BY InitType, StepType, PTL DEF Spec

-----------------------------------------------------------------------------
(* What is still true of what a synchronisation has read *)

Working(r) == req[r].pc \notin Stopped

\* what the requests that crossed r asked for
Meanwhile(r) == UNION {req[q].ask : q \in crossed[r]}

\* a synchronisation has one node, and only a finished request crosses
NodeOk(r) ==
    /\ Working(r) => \E n \in Nodes : req[r].ns = {n}
    /\ \A q \in crossed[r] : At(q, "done")

\* what it deletes, or waits to delete, is on its node and not asked for
DropOk(r) ==
    /\ req[r].pc \in {"readGroups", "dropUsers", "waitUsers"} => req[r].drop = {}
    /\ \A row \in req[r].drop \cup req[r].found :
        row.node \in req[r].ns /\ GrantOf(row) \notin req[r].ask

\* the rows of its node are those it has read, and after its deletes those it
\* asks for, but for the rows that crossing requests asked for
UserCover(r, row) ==
    /\ GrantOf(row) \in req[r].users
    /\ At(r, "waitUsers") => row \in req[r].found \/ GrantOf(row) \in req[r].ask
    /\ req[r].pc \in {"dropGroups", "waitGroups", "commit"} =>
            row \in req[r].drop \/ GrantOf(row) \in req[r].ask

GroupCover(r, row) ==
    /\ ~At(r, "readGroups") => GrantOf(row) \in req[r].groups
    /\ At(r, "waitGroups") => row \in req[r].found \/ GrantOf(row) \in req[r].ask
    /\ At(r, "commit") => row \in req[r].drop \/ GrantOf(row) \in req[r].ask

Cover(r, row) == IF row.who \in Users THEN UserCover(r, row) ELSE GroupCover(r, row)

CoverOk(r) ==
    Working(r) => \A row \in shared :
        row.node \in req[r].ns => GrantOf(row) \in Meanwhile(r) \/ Cover(r, row)

\* a grant it has read keeps a row, unless a request crosses
KeptOk(r) ==
    Working(r) /\ crossed[r] = {} =>
        \A n \in req[r].ns \cap nodes : \A g \in req[r].users \cup req[r].groups :
            g[1] # NULL /\ RoleOf(g) \in roles =>
                \E row \in shared : row.node = n /\ GrantOf(row) = g

SyncOk(r) == NodeOk(r) /\ DropOk(r) /\ CoverOk(r) /\ KeptOk(r)

SyncInv == TypeOK /\ \A r \in Reqs : SyncOk(r)

LEMMA InitSync == Init => SyncInv
  BY InitType DEF Init, SyncInv, SyncOk, NodeOk, DropOk, CoverOk, KeptOk, Working, Stopped, NoRequest, At

\* What crossed a request stays, and asked for what it asked.
LEMMA MeanwhileGrows ==
    ASSUME SyncInv, NEW q \in Reqs, crossed[q] \subseteq crossed'[q],
           \A p \in Reqs : At(p, "done") => req'[p] = req[p]
    PROVE  Meanwhile(q) \subseteq Meanwhile(q)'
  <1>1. \A p \in crossed[q] : p \in crossed'[q] /\ req'[p] = req[p]
    BY DEF SyncInv, SyncOk, NodeOk, TypeOK
  <1>2. QED
    BY <1>1 DEF Meanwhile

\* What crossed a request is done, and a step that writes only r, which is not
\* done, leaves it so.
LEMMA CrossedDone ==
    ASSUME SyncInv, NEW q \in Reqs, crossed'[q] = crossed[q],
           \A p \in Reqs : At(p, "done") => req'[p] = req[p]
    PROVE  \A p \in crossed'[q] : At(p, "done")'
  <1>1. \A p \in crossed[q] : p \in Reqs /\ At(p, "done")
    BY DEF SyncInv, SyncOk, NodeOk, TypeOK
  <1>2. QED
    BY <1>1 DEF At

\* A step of another request that leaves the tables alone.
LEMMA OthersRead ==
    ASSUME SyncInv, NEW q \in Reqs, req'[q] = req[q],
           UNCHANGED <<nodes, roles, shared, crossed>>,
           \A p \in Reqs : At(p, "done") => req'[p] = req[p]
    PROVE  SyncOk(q)'
  <1>1. Meanwhile(q) \subseteq Meanwhile(q)'
    BY MeanwhileGrows
  <1>2. SyncOk(q)
    BY DEF SyncInv
  <1>3. NodeOk(q)'
    BY <1>2, CrossedDone DEF SyncOk, NodeOk, Working
  <1>4. DropOk(q)'
    BY <1>2 DEF SyncOk, DropOk
  <1>5. CoverOk(q)'
    <2>1. \A row \in shared : Cover(q, row) => Cover(q, row)'
      BY DEF Cover, UserCover, GroupCover, At
    <2>2. QED
      BY <1>1, <1>2, <2>1 DEF SyncOk, CoverOk, Working
  <1>6. KeptOk(q)'
    BY <1>2 DEF SyncOk, KeptOk, Working
  <1>7. QED
    BY <1>3, <1>4, <1>5, <1>6 DEF SyncOk

\* A commit of another request: rows go and come on its nodes ns only, and the
\* request q on one of them is crossed.
LEMMA OthersCommit ==
    ASSUME SyncInv, NEW r \in Reqs, NEW q \in Reqs, q # r, req'[q] = req[q],
           \A p \in Reqs \ {r} : req'[p] = req[p],
           ~At(r, "done"), At(r, "done")',
           NEW ns, Effect(r, ns), NEW gone, NEW rows,
           shared' = (shared \ gone) \cup rows,
           \A row \in gone : row.node \in ns,
           \A row \in rows : row.node \in ns /\ GrantOf(row) \in req'[r].ask,
           UNCHANGED <<nodes, roles>>
    PROVE  SyncOk(q)'
  <1> DEFINE hit == Working(q) /\ req[q].ns \cap ns # {}
  <1>1. SyncOk(q)
    BY DEF SyncInv
  <1>2. crossed'[q] = IF hit THEN crossed[q] \cup {r} ELSE crossed[q]
    BY DEF Effect, Working
  <1>3. Meanwhile(q) \subseteq Meanwhile(q)'
    <2>1. crossed[q] \subseteq crossed'[q]
      BY <1>2
    <2>2. \A p \in Reqs : At(p, "done") => req'[p] = req[p]
      OBVIOUS
    <2>3. QED
      BY <2>1, <2>2, MeanwhileGrows
  <1>4. NodeOk(q)'
    <2>1. \A p \in crossed[q] : p \in Reqs /\ At(p, "done")
      BY <1>1 DEF SyncInv, SyncOk, NodeOk, TypeOK
    <2>2. \A p \in crossed'[q] : At(p, "done")'
      BY <1>2, <2>1 DEF At
    <2>3. QED
      BY <1>1, <2>2 DEF SyncOk, NodeOk, Working
  <1>5. DropOk(q)'
    BY <1>1 DEF SyncOk, DropOk
  <1>6. CoverOk(q)'
    <2> SUFFICES ASSUME Working(q), NEW row \in shared', row.node \in req[q].ns
                 PROVE  GrantOf(row) \in Meanwhile(q)' \/ Cover(q, row)'
      BY DEF CoverOk, Working, GrantOf
    <2>1. CASE row \in rows
      <3>1. r \in crossed'[q]
        BY <1>2, <2>1
      <3>2. QED
        BY <2>1, <3>1 DEF Meanwhile
    <2>2. CASE row \in shared
      <3>1. Cover(q, row) => Cover(q, row)'
        BY DEF Cover, UserCover, GroupCover, At
      <3>2. QED
        BY <1>1, <1>3, <2>2, <3>1 DEF SyncOk, CoverOk
    <2>3. QED
      BY <2>1, <2>2
  <1>7. KeptOk(q)'
    <2> SUFFICES ASSUME Working(q), crossed'[q] = {},
                        NEW n \in req[q].ns \cap nodes,
                        NEW g \in req[q].users \cup req[q].groups,
                        g[1] # NULL, RoleOf(g) \in roles
                 PROVE  \E row \in shared' : row.node = n /\ GrantOf(row) = g
      BY DEF KeptOk, Working
    <2>1. crossed[q] = {} /\ ~hit
      BY <1>2
    <2>2. PICK row \in shared : row.node = n /\ GrantOf(row) = g
      BY <1>1, <2>1 DEF SyncOk, KeptOk
    <2>3. row \notin gone
      BY <2>1, <2>2
    <2>4. QED
      BY <2>2, <2>3
  <1>8. QED
    BY <1>4, <1>5, <1>6, <1>7 DEF SyncOk

\* A step of r that writes no table keeps the invariant when it does so for r.
LEMMA ReadStep ==
    ASSUME SyncInv, TypeOK', NEW r \in Reqs, ~At(r, "done"),
           \A p \in Reqs \ {r} : req'[p] = req[p],
           UNCHANGED <<nodes, roles, shared, crossed>>,
           SyncOk(r)'
    PROVE  SyncInv'
  <1>1. \A p \in Reqs : At(p, "done") => req'[p] = req[p]
    OBVIOUS
  <1>2. ASSUME NEW q \in Reqs, q # r
        PROVE  SyncOk(q)'
    BY <1>1, <1>2, OthersRead
  <1>3. QED
    BY <1>2 DEF SyncInv

\* A step of r that writes only the record of r.
LEMMA OnlyRecord ==
    ASSUME TypeOK, NEW r \in Reqs, NEW x, req' = [req EXCEPT ![r] = x]
    PROVE  req'[r] = x /\ \A p \in Reqs \ {r} : req'[p] = req[p]
  BY DEF TypeOK

LEMMA BeginSyncStep ==
    ASSUME SyncInv, TypeOK', NEW r \in Reqs, BeginSync(r)
    PROVE  SyncInv'
  <1> PICK n \in Nodes, list \in Lists :
        req' = [req EXCEPT ![r] = [NoRequest EXCEPT
                    !.pc = "readGroups", !.ns = {n}, !.ask = list,
                    !.users = {<<UserId(row), row.role>> : row \in RowsOf(n)}]]
    BY DEF BeginSync
  <1>1. TypeOK /\ At(r, "idle") /\ UNCHANGED <<nodes, roles, shared, crossed>> /\ SyncOk(r)
    BY DEF BeginSync, SyncInv
  <1>2. /\ req'[r].pc = "readGroups" /\ req'[r].ns = {n}
        /\ req'[r].users = {<<UserId(row), row.role>> : row \in RowsOf(n)}
        /\ req'[r].groups = {} /\ req'[r].drop = {} /\ req'[r].found = {}
    BY <1>1 DEF TypeOK, NoRequest
  <1>3. \A p \in Reqs \ {r} : req'[p] = req[p]
    BY <1>1 DEF TypeOK
  <1>4. ~At(r, "done")
    BY <1>1 DEF At
  <1>5. NodeOk(r)'
    <2>1. \A p \in Reqs : At(p, "done") => req'[p] = req[p]
      BY <1>3, <1>4
    <2>2. QED
      BY <1>1, <1>2, <2>1, CrossedDone DEF NodeOk
  <1>6. DropOk(r)'
    BY <1>2 DEF DropOk
  <1>7. CoverOk(r)'
    <2>1. \A row \in shared : row.node = n /\ row.who \in Users => GrantOf(row) \in req'[r].users
      BY <1>2 DEF RowsOf, UserId, GrantOf
    <2>2. QED
      BY <1>1, <1>2, <2>1 DEF CoverOk, Cover, UserCover, GroupCover, At, GrantOf
  <1>8. KeptOk(r)'
    <2>1. \A row \in RowsOf(n) : UserId(row) # NULL => <<UserId(row), row.role>> = GrantOf(row)
      BY DEF UserId, GrantOf
    <2>2. \A row \in RowsOf(n) : row \in shared /\ row.node = n
      BY DEF RowsOf
    <2>3. QED
      BY <1>1, <1>2, <2>1, <2>2 DEF KeptOk, GrantOf
  <1>9. QED
    BY ZenonT(40), <1>1, <1>3, <1>4, <1>5, <1>6, <1>7, <1>8, ReadStep DEF SyncOk

LEMMA ReadGroupsStep ==
    ASSUME SyncInv, TypeOK', NEW r \in Reqs, SyncReadGroups(r)
    PROVE  SyncInv'
  <1> PICK n \in req[r].ns :
        req' = [req EXCEPT ![r].pc = "dropUsers",
                           ![r].groups = {<<GroupId(row), row.role>> : row \in RowsOf(n)}]
    BY DEF SyncReadGroups
  <1>1. TypeOK /\ At(r, "readGroups") /\ UNCHANGED <<nodes, roles, shared, crossed>> /\ SyncOk(r)
    BY DEF SyncReadGroups, SyncInv
  <1>2. /\ req'[r].pc = "dropUsers" /\ req'[r].ns = req[r].ns /\ req'[r].ask = req[r].ask
        /\ req'[r].users = req[r].users
        /\ req'[r].groups = {<<GroupId(row), row.role>> : row \in RowsOf(n)}
        /\ req'[r].drop = req[r].drop /\ req'[r].found = req[r].found
    BY ZenonT(40), <1>1, RequestFields DEF TypeOK, Request
  <1>3. \A p \in Reqs \ {r} : req'[p] = req[p]
    BY <1>1 DEF TypeOK
  <1>4. ~At(r, "done") /\ Working(r)
    BY <1>1 DEF At, Working, Stopped
  <1>5. req[r].ns = {n}
    BY <1>1, <1>4 DEF SyncOk, NodeOk
  <1>6. \A p \in Reqs : At(p, "done") => req'[p] = req[p]
    BY <1>3, <1>4
  <1>7. NodeOk(r)'
    BY <1>1, <1>2, <1>4, <1>6, CrossedDone DEF SyncOk, NodeOk
  <1>8. DropOk(r)'
    BY <1>1, <1>2 DEF SyncOk, DropOk, At
  <1>9. CoverOk(r)'
    <2>1. Meanwhile(r) \subseteq Meanwhile(r)'
      BY <1>1, <1>6, MeanwhileGrows
    <2>2. \A row \in shared : row.node = n /\ row.who \notin Users => GrantOf(row) \in req'[r].groups
      <3>1. \A row \in shared : row.who \in Users \/ row.who \in Groups
        BY <1>1 DEF TypeOK, Row, Holders
      <3>2. QED
        BY <1>2, <3>1 DEF RowsOf, GroupId, GrantOf
    <2>3. QED
      BY <1>1, <1>2, <1>4, <1>5, <2>1, <2>2 DEF SyncOk, CoverOk, Cover, UserCover, GroupCover, At, GrantOf
  <1>10. KeptOk(r)'
    <2>1. \A row \in RowsOf(n) : GroupId(row) # NULL => <<GroupId(row), row.role>> = GrantOf(row)
      BY DEF GroupId, GrantOf
    <2>2. \A row \in RowsOf(n) : row \in shared /\ row.node = n
      BY DEF RowsOf
    <2>3. QED
      <3> SUFFICES ASSUME crossed[r] = {}, NEW m \in req[r].ns \cap nodes,
                          NEW g \in req'[r].users \cup req'[r].groups,
                          g[1] # NULL, RoleOf(g) \in roles
                   PROVE  \E row \in shared : row.node = m /\ GrantOf(row) = g
        <4>1. UNCHANGED <<nodes, roles, shared, crossed>> /\ req'[r].ns = req[r].ns
          BY <1>1, <1>2
        <4>2. QED
          BY <4>1 DEF KeptOk, GrantOf, RoleOf
      <3>1. CASE g \in req[r].users
        BY <1>1, <1>4, <3>1 DEF SyncOk, KeptOk
      <3>2. CASE g \in req'[r].groups
        <4>1. PICK row \in RowsOf(n) : g = <<GroupId(row), row.role>>
          BY <1>2, <3>2
        <4>2. GroupId(row) # NULL
          BY <4>1
        <4>3. QED
          BY <1>5, <2>1, <2>2, <4>1, <4>2
      <3>3. QED
        BY <1>2, <3>1, <3>2
  <1>11. QED
    BY <1>1, <1>3, <1>4, <1>7, <1>8, <1>9, <1>10, ReadStep DEF SyncOk

\* A delete of the rows that match, which are on the node and not asked for.
LEMMA DeleteStep ==
    ASSUME SyncInv, TypeOK', NEW r \in Reqs, NEW rows \in SUBSET shared,
           \A row \in rows : row.node \in req[r].ns /\ GrantOf(row) \notin req[r].ask,
           \/ /\ At(r, "dropUsers") /\ Delete(r, rows, "waitUsers", "dropGroups")
              /\ \A row \in shared : row.node \in req[r].ns /\ row.who \in Users
                    /\ GrantOf(row) \in req[r].users /\ GrantOf(row) \notin req[r].ask => row \in rows
           \/ /\ At(r, "dropGroups") /\ Delete(r, rows, "waitGroups", "commit")
              /\ \A row \in shared : row.node \in req[r].ns /\ row.who \notin Users
                    /\ GrantOf(row) \in req[r].groups /\ GrantOf(row) \notin req[r].ask => row \in rows
    PROVE  SyncInv'
  <1>1. TypeOK /\ UNCHANGED <<nodes, roles, shared, crossed>> /\ SyncOk(r) /\ Working(r) /\ ~At(r, "done")
    BY DEF SyncInv, Delete, At, Working, Stopped
  <1>2. /\ req'[r].ns = req[r].ns /\ req'[r].ask = req[r].ask
        /\ req'[r].users = req[r].users /\ req'[r].groups = req[r].groups
        /\ \/ /\ \/ At(r, "dropUsers") /\ req'[r].pc = "waitUsers"
                 \/ At(r, "dropGroups") /\ req'[r].pc = "waitGroups"
              /\ req'[r].found = rows /\ req'[r].drop = req[r].drop
           \/ /\ \/ At(r, "dropUsers") /\ req'[r].pc = "dropGroups"
                 \/ At(r, "dropGroups") /\ req'[r].pc = "commit"
              /\ req'[r].found = req[r].found /\ req'[r].drop = req[r].drop \cup rows
    BY <1>1, RequestFields DEF Delete, TypeOK, Request, At
  <1>3. \A p \in Reqs \ {r} : req'[p] = req[p]
    BY <1>1 DEF Delete, TypeOK
  <1>4. \A p \in Reqs : At(p, "done") => req'[p] = req[p]
    BY <1>1, <1>3
  <1>5. NodeOk(r)'
    BY <1>1, <1>2, <1>4, CrossedDone DEF SyncOk, NodeOk
  <1>6. DropOk(r)'
    BY <1>1, <1>2 DEF SyncOk, DropOk, At
  <1>7. CoverOk(r)'
    <2> SUFFICES ASSUME NEW row \in shared, row.node \in req[r].ns, GrantOf(row) \notin Meanwhile(r)
                 PROVE  Cover(r, row)'
      <3>1. Meanwhile(r) \subseteq Meanwhile(r)'
        BY <1>1, <1>4, MeanwhileGrows
      <3>2. QED
        BY <1>1, <1>2, <3>1 DEF CoverOk, GrantOf
    <2>1. Cover(r, row)
      BY <1>1 DEF SyncOk, CoverOk
    <2>2. CASE row.who \in Users
      BY <1>2, <2>1, <2>2 DEF Cover, UserCover, At, GrantOf
    <2>3. CASE row.who \notin Users
      BY <1>2, <2>1, <2>3 DEF Cover, GroupCover, At, GrantOf
    <2>4. QED
      BY <2>2, <2>3
  <1>8. KeptOk(r)'
    BY <1>1, <1>2 DEF SyncOk, KeptOk, Working
  <1>9. QED
    BY <1>1, <1>3, <1>5, <1>6, <1>7, <1>8, ReadStep DEF SyncOk

LEMMA DropUsersStep ==
    ASSUME SyncInv, TypeOK', NEW r \in Reqs, SyncDropUsers(r)
    PROVE  SyncInv'
  <1> DEFINE pairs == req[r].users \ UserGrants(req[r].ask)
             rows == {row \in shared : row.node \in req[r].ns /\ UserMatches(row, pairs)}
  <1>1. At(r, "dropUsers") /\ Delete(r, rows, "waitUsers", "dropGroups")
    BY DEF SyncDropUsers
  <1>2. \A row \in shared : UserMatches(row, pairs) <=>
            row.who \in Users /\ GrantOf(row) \in req[r].users /\ GrantOf(row) \notin req[r].ask
    BY SentinelsAssumption DEF UserMatches, UserId, GrantOf, UserGrants, Holders
  <1>3. /\ rows \in SUBSET shared
        /\ \A row \in rows : row.node \in req[r].ns /\ GrantOf(row) \notin req[r].ask
        /\ \A row \in shared : row.node \in req[r].ns /\ row.who \in Users
              /\ GrantOf(row) \in req[r].users /\ GrantOf(row) \notin req[r].ask => row \in rows
    BY <1>2
  <1> HIDE DEF rows
  <1>4. QED
    BY <1>1, <1>3, DeleteStep

LEMMA DropGroupsStep ==
    ASSUME SyncInv, TypeOK', NEW r \in Reqs, SyncDropGroups(r)
    PROVE  SyncInv'
  <1> DEFINE pairs == req[r].groups \ GroupGrants(req[r].ask)
             rows == {row \in shared : row.node \in req[r].ns /\ GroupMatches(row, pairs)}
  <1>1. At(r, "dropGroups") /\ Delete(r, rows, "waitGroups", "commit")
    BY DEF SyncDropGroups
  <1>2. \A row \in shared : row.who \in Users \/ row.who \in Groups
    BY DEF SyncInv, TypeOK, Row, Holders
  <1>3. \A row \in shared : GroupMatches(row, pairs) <=>
            row.who \notin Users /\ GrantOf(row) \in req[r].groups /\ GrantOf(row) \notin req[r].ask
    BY <1>2, SentinelsAssumption DEF SyncInv, TypeOK, Row, GroupMatches, GroupId, GrantOf, GroupGrants, Holders
  <1>4. QED
    BY <1>1, <1>3, DeleteStep

LEMMA GoOnStep ==
    ASSUME SyncInv, TypeOK', NEW r \in Reqs, SyncGoOn(r)
    PROVE  SyncInv'
  <1>1. TypeOK /\ UNCHANGED <<nodes, roles, shared, crossed>> /\ SyncOk(r) /\ Working(r) /\ ~At(r, "done")
    BY DEF SyncInv, SyncGoOn, At, Working, Stopped
  <1>2. /\ req'[r].ns = req[r].ns /\ req'[r].ask = req[r].ask
        /\ req'[r].users = req[r].users /\ req'[r].groups = req[r].groups
        /\ \/ At(r, "waitUsers") /\ req'[r].pc = "dropGroups"
           \/ At(r, "waitGroups") /\ req'[r].pc = "commit"
        /\ req'[r].found = {} /\ req'[r].drop = req[r].drop \cup (req[r].found \cap shared)
    BY <1>1 DEF SyncGoOn, TypeOK, Request, At
  <1>3. \A p \in Reqs \ {r} : req'[p] = req[p]
    BY <1>1 DEF SyncGoOn, TypeOK
  <1>4. \A p \in Reqs : At(p, "done") => req'[p] = req[p]
    BY <1>1, <1>3
  <1>5. NodeOk(r)'
    BY <1>1, <1>2, <1>4, CrossedDone DEF SyncOk, NodeOk
  <1>6. DropOk(r)'
    BY <1>1, <1>2 DEF SyncOk, DropOk, At
  <1>7. CoverOk(r)'
    <2> SUFFICES ASSUME NEW row \in shared, row.node \in req[r].ns, GrantOf(row) \notin Meanwhile(r)
                 PROVE  Cover(r, row)'
      <3>1. Meanwhile(r) \subseteq Meanwhile(r)'
        BY <1>1, <1>4, MeanwhileGrows
      <3>2. QED
        BY <1>1, <1>2, <3>1 DEF CoverOk, GrantOf
    <2>1. Cover(r, row)
      BY <1>1 DEF SyncOk, CoverOk
    <2>2. CASE row.who \in Users
      BY <1>2, <2>1, <2>2 DEF Cover, UserCover, At, GrantOf
    <2>3. CASE row.who \notin Users
      BY <1>2, <2>1, <2>3 DEF Cover, GroupCover, At, GrantOf
    <2>4. QED
      BY <2>2, <2>3
  <1>8. KeptOk(r)'
    BY <1>1, <1>2 DEF SyncOk, KeptOk, Working
  <1>9. QED
    BY <1>1, <1>3, <1>5, <1>6, <1>7, <1>8, ReadStep DEF SyncOk

\* A commit of r, of rows on its nodes with grants it was asked for.
LEMMA CommitStep ==
    ASSUME SyncInv, TypeOK', NEW r \in Reqs, ~At(r, "done"), At(r, "done")',
           \A p \in Reqs \ {r} : req'[p] = req[p],
           NEW ns, Effect(r, ns), NEW gone, NEW rows,
           shared' = (shared \ gone) \cup rows,
           \A row \in gone : row.node \in ns,
           \A row \in rows : row.node \in ns /\ GrantOf(row) \in req'[r].ask,
           UNCHANGED <<nodes, roles>>,
           DropOk(r)'
    PROVE  SyncInv'
  <1>1. ASSUME NEW q \in Reqs, q # r
        PROVE  SyncOk(q)'
    <2>1. req'[q] = req[q]
      BY <1>1
    <2>2. QED
      BY <1>1, <2>1, OthersCommit
  <1>2. crossed'[r] = crossed[r]
    BY DEF Effect
  <1>3. \A p \in Reqs : At(p, "done") => req'[p] = req[p]
    OBVIOUS
  <1>4. ~Working(r)'
    BY DEF Working, At, Stopped
  <1>5. NodeOk(r)'
    BY <1>2, <1>3, <1>4, CrossedDone DEF NodeOk
  <1>6. CoverOk(r)' /\ KeptOk(r)'
    BY <1>4 DEF CoverOk, KeptOk
  <1>7. QED
    BY <1>1, <1>5, <1>6 DEF SyncInv, SyncOk

\* A request that fails writes only its record.
LEMMA ErrorStep ==
    ASSUME SyncInv, TypeOK', NEW r \in Reqs, ~At(r, "done"), At(r, "error")',
           \A p \in Reqs \ {r} : req'[p] = req[p],
           UNCHANGED <<nodes, roles, shared, crossed>>,
           DropOk(r)'
    PROVE  SyncInv'
  <1>1. \A p \in Reqs : At(p, "done") => req'[p] = req[p]
    OBVIOUS
  <1>2. ~Working(r)'
    BY DEF Working, At, Stopped
  <1>3. NodeOk(r)'
    BY <1>1, <1>2, CrossedDone DEF NodeOk
  <1>4. CoverOk(r)' /\ KeptOk(r)'
    BY <1>2 DEF CoverOk, KeptOk
  <1>5. QED
    BY <1>3, <1>4, ReadStep DEF SyncOk

\* The rows a request inserts are on its nodes, with the grants given.
LEMMA FreshOn ==
    ASSUME NEW r \in Reqs, NEW ns, NEW grants \in SUBSET Grants,
           NEW row \in Fresh(r, ns, grants)
    PROVE  row.node \in ns /\ GrantOf(row) \in grants
  BY DEF Fresh, GrantOf, Grants

LEMMA ShareStep ==
    ASSUME SyncInv, TypeOK', NEW r \in Reqs, Share(r)
    PROVE  SyncInv'
  <1> PICK s \in Shares :
        LET ask == s.who \X s.roles
            rows == Fresh(r, s.ns, ask)
            asked == [NoRequest EXCEPT !.ns = s.ns, !.ask = ask]
        IN  \/ /\ References(rows)
               /\ shared' = shared \cup rows
               /\ req' = [req EXCEPT ![r] = [asked EXCEPT !.pc = "done"]]
               /\ Effect(r, s.ns)
            \/ /\ ~References(rows)
               /\ req' = [req EXCEPT ![r] = [asked EXCEPT !.pc = "error"]]
               /\ UNCHANGED <<shared, crossed>>
    BY DEF Share
  <1> DEFINE ask == s.who \X s.roles
             rows == Fresh(r, s.ns, ask)
  <1>1. TypeOK /\ At(r, "idle") /\ ~At(r, "done") /\ UNCHANGED <<nodes, roles>>
    BY DEF Share, SyncInv, At
  <1>2. ask \in SUBSET Grants
    BY SharesAssumption DEF Grants
  <1>3. /\ req'[r].ask = ask /\ req'[r].drop = {} /\ req'[r].found = {}
        /\ req'[r].pc \in {"done", "error"}
        /\ \A p \in Reqs \ {r} : req'[p] = req[p]
    <2>1. PICK pc \in {"done", "error"} :
            req' = [req EXCEPT ![r] = [[NoRequest EXCEPT !.ns = s.ns, !.ask = ask] EXCEPT !.pc = pc]]
      OBVIOUS
    <2>2. req'[r] = [[NoRequest EXCEPT !.ns = s.ns, !.ask = ask] EXCEPT !.pc = pc]
      BY <1>1, <2>1 DEF TypeOK
    <2>3. QED
      BY <1>1, <2>1, <2>2 DEF TypeOK, NoRequest
  <1>4. DropOk(r)'
    BY <1>3 DEF DropOk
  <1>5. CASE At(r, "done")'
    <2>1. shared' = (shared \ {}) \cup rows /\ Effect(r, s.ns)
      BY <1>1, <1>5 DEF At, TypeOK, NoRequest
    <2>2. \A row \in rows : row.node \in s.ns /\ GrantOf(row) \in req'[r].ask
      BY <1>2, <1>3, FreshOn
    <2> HIDE DEF rows, ask
    <2>3. QED
      BY ZenonT(40), <1>1, <1>3, <1>4, <1>5, <2>1, <2>2, CommitStep
  <1>6. CASE At(r, "error")'
    <2>1. UNCHANGED <<shared, crossed>>
      BY <1>1, <1>6 DEF At, TypeOK, NoRequest
    <2>2. QED
      BY <1>1, <1>3, <1>4, <1>6, <2>1, ErrorStep
  <1>7. QED
    BY <1>3, <1>5, <1>6 DEF At

LEMMA SyncCommitStep ==
    ASSUME SyncInv, TypeOK', NEW r \in Reqs, SyncCommit(r)
    PROVE  SyncInv'
  <1> DEFINE rows == Fresh(r, req[r].ns, Added(r))
  <1>1. /\ TypeOK /\ SyncOk(r) /\ At(r, "commit") /\ ~At(r, "done")
        /\ UNCHANGED <<nodes, roles>>
    BY DEF SyncCommit, SyncInv, At
  <1>2. /\ req'[r].ns = req[r].ns /\ req'[r].ask = req[r].ask
        /\ req'[r].drop = {} /\ req'[r].found = req[r].found
        /\ req'[r].pc \in {"done", "error"}
        /\ \A p \in Reqs \ {r} : req'[p] = req[p]
    BY <1>1, RequestFields DEF SyncCommit, TypeOK, Request
  <1>3. DropOk(r)'
    BY <1>1, <1>2 DEF SyncOk, DropOk
  <1>4. CASE At(r, "done")'
    <2>1. shared' = (shared \ req[r].drop) \cup rows /\ Effect(r, req[r].ns)
      BY <1>1, <1>4 DEF SyncCommit, At, TypeOK, Request
    <2>2. Added(r) \in SUBSET Grants
      BY <1>1, AddedAsked, RequestFields DEF TypeOK
    <2>3. \A row \in rows : row.node \in req[r].ns /\ GrantOf(row) \in req'[r].ask
      BY <1>2, <2>2, AddedAsked, FreshOn
    <2>4. \A row \in req[r].drop : row.node \in req[r].ns
      BY <1>1 DEF SyncOk, DropOk
    <2> HIDE DEF rows
    <2>5. QED
      BY <1>1, <1>2, <1>3, <1>4, <2>1, <2>3, <2>4, CommitStep
  <1>5. CASE At(r, "error")'
    <2>1. UNCHANGED <<shared, crossed>>
      BY <1>1, <1>5 DEF SyncCommit, At, TypeOK, Request
    <2>2. QED
      BY <1>1, <1>2, <1>3, <1>5, <2>1, ErrorStep
  <1>6. QED
    BY <1>2, <1>4, <1>5 DEF At

\* Rows that go with their node or role are missed by nobody.
LEMMA RemoveStep ==
    ASSUME SyncInv, TypeOK', DeleteNode \/ DeleteRole
    PROVE  SyncInv'
  <1>1. /\ shared' \subseteq shared /\ UNCHANGED <<req, crossed>>
        /\ nodes' \subseteq nodes /\ roles' \subseteq roles
        /\ \A row \in shared : row.node \in nodes' /\ row.role \in roles' => row \in shared'
    BY DEF DeleteNode, DeleteRole
  <1>2. ASSUME NEW r \in Reqs
        PROVE  SyncOk(r)'
    <2>1. SyncOk(r)
      BY DEF SyncInv
    <2>2. NodeOk(r)' /\ DropOk(r)'
      BY <1>1, <2>1 DEF SyncOk, NodeOk, DropOk, Working, At
    <2>3. CoverOk(r)'
      <3>1. \A row \in shared : Cover(r, row) <=> Cover(r, row)'
        BY <1>1 DEF Cover, UserCover, GroupCover, At
      <3>2. Meanwhile(r)' = Meanwhile(r)
        BY <1>1 DEF Meanwhile
      <3>3. QED
        BY <1>1, <2>1, <3>1, <3>2 DEF SyncOk, CoverOk, Working
    <2>4. KeptOk(r)'
      <3> SUFFICES ASSUME Working(r), crossed[r] = {}, NEW n \in req[r].ns \cap nodes',
                          NEW g \in req[r].users \cup req[r].groups,
                          g[1] # NULL, RoleOf(g) \in roles'
                   PROVE  \E row \in shared' : row.node = n /\ GrantOf(row) = g
        BY <1>1 DEF KeptOk, Working, GrantOf, RoleOf
      <3>1. PICK row \in shared : row.node = n /\ GrantOf(row) = g
        BY <1>1, <2>1 DEF SyncOk, KeptOk
      <3>2. row.role \in roles'
        BY <3>1 DEF GrantOf, RoleOf
      <3>3. QED
        BY <1>1, <3>1, <3>2
    <2>5. QED
      BY <2>1, <2>2, <2>3, <2>4 DEF SyncOk
  <1>3. QED
    BY <1>2 DEF SyncInv

LEMMA StepSync == SyncInv /\ [Next]_vars => SyncInv'
  <1> SUFFICES ASSUME SyncInv, [Next]_vars
               PROVE  SyncInv'
    OBVIOUS
  <1>1. TypeOK'
    BY StepType DEF SyncInv
  <1>2. CASE UNCHANGED vars
    <2>1. \A p \in Reqs : req'[p] = req[p]
      BY <1>2 DEF vars
    <2>2. \A q \in Reqs : SyncOk(q)'
      BY <1>2, <2>1, OthersRead DEF vars
    <2>3. QED
      BY <1>1, <2>2 DEF SyncInv
  <1>3. QED
    BY <1>1, <1>2, ShareStep, BeginSyncStep, ReadGroupsStep, DropUsersStep, DropGroupsStep,
       GoOnStep, SyncCommitStep, RemoveStep DEF Next

LEMMA SyncAlways == Spec => []SyncInv
  BY InitSync, StepSync, PTL DEF Spec

\* A synchronisation leaves the rows it wants as they are, whatever other updates,
\* shares and deletions run beside it, on any tree and with any lists.
THEOREM WantedStay == Spec => WantedRowsStay
  <1>1. ASSUME SyncInv, [Next]_vars, NEW r \in Reqs, At(r, "commit"), req'[r].pc = "done",
               NEW row \in shared, GrantOf(row) \in req[r].ask
        PROVE  row \in shared'
    <2>1. TypeOK /\ req'[r] # req[r]
      BY <1>1 DEF SyncInv, At
    <2>2. row \notin req[r].drop
      BY <1>1 DEF SyncInv, SyncOk, DropOk
    <2>3. SyncCommit(r) => row \in shared'
      BY <2>2, <1>1 DEF SyncCommit
    <2>4. \A q \in Reqs \ {r} : ~(\/ Share(q) \/ BeginSync(q) \/ SyncReadGroups(q) \/ SyncDropUsers(q)
                                 \/ SyncDropGroups(q) \/ SyncGoOn(q) \/ SyncCommit(q))
      BY ZenonT(40), <2>1 DEF TypeOK, Share, BeginSync, SyncReadGroups, SyncDropUsers, SyncDropGroups,
                  Delete, SyncGoOn, SyncCommit
    <2>5. ~(\/ Share(r) \/ BeginSync(r) \/ SyncReadGroups(r) \/ SyncDropUsers(r)
            \/ SyncDropGroups(r) \/ SyncGoOn(r))
      BY <1>1 DEF At, Share, BeginSync, SyncReadGroups, SyncDropUsers, SyncDropGroups, SyncGoOn
    <2>6. ~(DeleteNode \/ DeleteRole \/ UNCHANGED vars)
      BY <2>1 DEF DeleteNode, DeleteRole, vars
    <2>7. QED
      BY <1>1, <2>3, <2>4, <2>5, <2>6 DEF Next
  <1>2. SyncInv /\ [Next]_vars =>
            [\A r \in Reqs : At(r, "commit") /\ req'[r].pc = "done" =>
                \A row \in shared : GrantOf(row) \in req[r].ask => row \in shared']_vars
    BY <1>1
  <1>3. QED
    BY <1>2, SyncAlways, PTL DEF Spec, WantedRowsStay

-----------------------------------------------------------------------------
(* The rows implement the table of AccessTable *)

\* the grants of a node, and what the table knows of a request
AccessOf(n) == {GrantOf(row) : row \in RowsOf(n)}
CallOf(r) == [state |-> StateOf(req[r].pc), ns |-> req[r].ns, ask |-> req[r].ask]

Access == [n \in Nodes |-> AccessOf(n)]
Calls == [r \in Reqs |-> CallOf(r)]

\* A step that writes only the record of r changes the call of r.
LEMMA OnlyCall ==
    ASSUME NEW r \in Reqs, \A p \in Reqs \ {r} : req'[p] = req[p]
    PROVE  Calls' = [Calls EXCEPT ![r] = CallOf(r)']
  BY DEF Calls, CallOf

\* Nothing of the table changes.
LEMMA Stutter ==
    ASSUME UNCHANGED <<nodes, roles, shared, crossed>>, Calls' = Calls
    PROVE  UNCHANGED Table!vars
  BY DEF Table!vars, Calls, CallOf, RowsOf, GrantOf

\* The states of requests.
LEMMA States ==
    /\ StateOf("idle") = "idle" /\ StateOf("done") = "done" /\ StateOf("error") = "failed"
    /\ \A pc \in Pcs \ Stopped : StateOf(pc) = "open"
    /\ \A pc \in Pcs : StateOf(pc) = "open" <=> pc \notin Stopped
  BY DEF StateOf, Pcs, Stopped

LEMMA BeginRefines ==
    ASSUME TypeOK, NEW r \in Reqs, BeginSync(r)
    PROVE  Table!Open(r)
  <1> PICK n \in Nodes, list \in Lists :
        req' = [req EXCEPT ![r] = [NoRequest EXCEPT
                    !.pc = "readGroups", !.ns = {n}, !.ask = list,
                    !.users = {<<UserId(row), row.role>> : row \in RowsOf(n)}]]
    BY DEF BeginSync
  <1>1. CallOf(r)' = [state |-> "open", ns |-> {n}, ask |-> list]
    BY States DEF TypeOK, NoRequest, CallOf, Pcs, Stopped
  <1>2. \A p \in Reqs \ {r} : req'[p] = req[p]
    BY DEF TypeOK
  <1>3. Calls' = [Calls EXCEPT ![r] = [state |-> "open", ns |-> {n}, ask |-> list]]
    BY <1>1, <1>2, OnlyCall
  <1>4. Calls[r].state = "idle"
    BY States DEF BeginSync, At, Calls, CallOf
  <1>5. list \in SUBSET Grants
    BY ListsAssumption
  <1>6. UNCHANGED <<nodes, roles, shared, crossed>>
    BY DEF BeginSync
  <1>7. QED
    BY <1>3, <1>4, <1>5, <1>6 DEF Table!Open, Table!Grants, Grants, Calls, CallOf, RowsOf, GrantOf

\* What lies between the first select and the commit is not seen in the table.
LEMMA WorkRefines ==
    ASSUME TypeOK, NEW r \in Reqs,
           SyncReadGroups(r) \/ SyncDropUsers(r) \/ SyncDropGroups(r) \/ SyncGoOn(r)
    PROVE  UNCHANGED Table!vars
  <1>1. UNCHANGED <<nodes, roles, shared, crossed>>
    BY DEF SyncReadGroups, SyncDropUsers, SyncDropGroups, SyncGoOn, Delete
  <1>2. /\ req[r].pc \in Pcs \ Stopped /\ req'[r].pc \in Pcs \ Stopped
        /\ req'[r].ns = req[r].ns /\ req'[r].ask = req[r].ask
        /\ \A p \in Reqs \ {r} : req'[p] = req[p]
    BY RequestFields DEF TypeOK, Request, SyncReadGroups, SyncDropUsers, SyncDropGroups, SyncGoOn,
                         Delete, At, Pcs, Stopped
  <1>3. CallOf(r)' = CallOf(r)
    BY <1>2, States DEF CallOf
  <1>4. Calls' = Calls
    BY <1>2, <1>3 DEF Calls, CallOf
  <1>5. QED
    BY <1>1, <1>4, Stutter

\* A request takes effect in the table on the requests it crosses in the rows.
LEMMA EffectRefines ==
    ASSUME TypeOK, NEW r \in Reqs, NEW ns, Effect(r, ns)
    PROVE  Table!Effect(r, ns)
  <1>1. \A q \in Reqs : /\ Calls[q].state = "open" <=> req[q].pc \notin Stopped
                        /\ Calls[q].ns = req[q].ns
    BY States, RequestFields DEF TypeOK, Calls, CallOf
  <1>2. crossed' = [q \in Reqs |->
            IF q # r /\ Calls[q].state = "open" /\ Calls[q].ns \cap ns # {}
            THEN crossed[q] \cup {r} ELSE crossed[q]]
    BY <1>1 DEF Effect
  <1>3. QED
    BY <1>2 DEF Table!Effect, Calls, CallOf

\* The rows a request inserts refer to what exists when nothing it asks for is missing.
LEMMA FreshReferences ==
    ASSUME NEW r \in Reqs, NEW ns, NEW grants \in SUBSET Grants
    PROVE  References(Fresh(r, ns, grants)) <=> ~Table!Missing(ns, grants)
  <1>1. \A n \in ns, g \in grants :
            [node |-> n, who |-> g[1], role |-> g[2], by |-> r] \in Fresh(r, ns, grants)
    BY DEF Fresh
  <1>2. \A row \in Fresh(r, ns, grants) : \E n \in ns, g \in grants : row.node = n /\ row.role = g[2]
    BY DEF Fresh
  <1>3. ASSUME References(Fresh(r, ns, grants)), NEW n \in ns, NEW g \in grants
        PROVE  n \in nodes /\ g[2] \in roles
    BY <1>1, <1>3 DEF References
  <1>4. ASSUME ~Table!Missing(ns, grants)
        PROVE  References(Fresh(r, ns, grants))
    BY <1>2, <1>4 DEF Table!Missing, Table!RoleOf, References
  <1>5. QED
    BY <1>3, <1>4 DEF Table!Missing, Table!RoleOf

\* the grants of a node without those of the rows gone
LeftOf(n, gone) == {GrantOf(row) : row \in RowsOf(n) \ gone}

\* The grants of a node after an insert of rows on ns with all grants of a set.
LEMMA FreshAccess ==
    ASSUME TypeOK, NEW r \in Reqs, NEW ns \in SUBSET Nodes, NEW grants \in SUBSET Grants,
           NEW gone \in SUBSET Row, shared' = (shared \ gone) \cup Fresh(r, ns, grants),
           NEW n \in Nodes
    PROVE  AccessOf(n)' = LeftOf(n, gone) \cup (IF n \in ns THEN grants ELSE {})
  <1>1. \A g \in grants : g = <<g[1], g[2]>>
    BY DEF Grants
  <1>2. ASSUME NEW g \in grants, n \in ns
        PROVE  \E row \in Fresh(r, ns, grants) : row.node = n /\ GrantOf(row) = g
    <2>1. [node |-> n, who |-> g[1], role |-> g[2], by |-> r] \in Fresh(r, ns, grants)
      BY <1>2 DEF Fresh
    <2>2. QED
      BY <1>1, <2>1 DEF GrantOf
  <1>3. \A row \in Fresh(r, ns, grants) : row.node \in ns /\ GrantOf(row) \in grants
    BY FreshOn
  <1>4. AccessOf(n)' = {GrantOf(row) : row \in {x \in shared' : x.node = n}}
    BY DEF AccessOf, RowsOf, GrantOf
  <1>5. ASSUME NEW g \in AccessOf(n)'
        PROVE  g \in LeftOf(n, gone) \cup (IF n \in ns THEN grants ELSE {})
    <2>1. PICK row \in shared' : row.node = n /\ g = GrantOf(row)
      BY <1>4, <1>5
    <2>2. CASE row \in Fresh(r, ns, grants)
      BY <1>3, <2>1, <2>2
    <2>3. CASE row \in shared \ gone
      BY <2>1, <2>3 DEF RowsOf, LeftOf
    <2>4. QED
      BY <2>1, <2>2, <2>3
  <1>6. ASSUME NEW g, g \in LeftOf(n, gone) \cup (IF n \in ns THEN grants ELSE {})
        PROVE  g \in AccessOf(n)'
    <2>1. CASE \E row \in RowsOf(n) \ gone : g = GrantOf(row)
      BY <1>4, <2>1 DEF RowsOf
    <2>2. CASE n \in ns /\ g \in grants
      BY <1>2, <1>4, <2>2
    <2>3. QED
      BY <1>6, <2>1, <2>2 DEF LeftOf
  <1>7. QED
    BY <1>5, <1>6

LEMMA ShareRefines ==
    ASSUME TypeOK, NEW r \in Reqs, Share(r)
    PROVE  Table!Share(r) \/ Table!Fail(r)
  <1> PICK s \in Shares :
        LET ask == s.who \X s.roles
            rows == Fresh(r, s.ns, ask)
            asked == [NoRequest EXCEPT !.ns = s.ns, !.ask = ask]
        IN  \/ /\ References(rows)
               /\ shared' = shared \cup rows
               /\ req' = [req EXCEPT ![r] = [asked EXCEPT !.pc = "done"]]
               /\ Effect(r, s.ns)
            \/ /\ ~References(rows)
               /\ req' = [req EXCEPT ![r] = [asked EXCEPT !.pc = "error"]]
               /\ UNCHANGED <<shared, crossed>>
    BY DEF Share
  <1> DEFINE ask == s.who \X s.roles
             rows == Fresh(r, s.ns, ask)
  <1>1. UNCHANGED <<nodes, roles>> /\ Calls[r].state = "idle"
    BY States DEF Share, At, Calls, CallOf
  <1>2. s.ns \in SUBSET Nodes /\ ask \in SUBSET Grants
    BY SharesAssumption DEF Grants
  <1>3. \A p \in Reqs \ {r} : req'[p] = req[p]
    BY DEF TypeOK
  <1>4. CASE /\ References(rows) /\ shared' = shared \cup rows /\ Effect(r, s.ns)
             /\ req' = [req EXCEPT ![r] = [[NoRequest EXCEPT !.ns = s.ns, !.ask = ask] EXCEPT !.pc = "done"]]
    <2>1. CallOf(r)' = [state |-> "done", ns |-> s.ns, ask |-> ask]
      BY <1>4, States DEF TypeOK, NoRequest, CallOf
    <2>2. Calls' = [Calls EXCEPT ![r] = [state |-> "done", ns |-> s.ns, ask |-> ask]]
      BY <1>3, <2>1, OnlyCall
    <2>3. ~Table!Missing(s.ns, ask)
      BY <1>2, <1>4, FreshReferences
    <2>4. Access' = [n \in Nodes |-> IF n \in s.ns THEN Access[n] \cup ask ELSE Access[n]]
      <3> DEFINE none == {}
      <3>1. shared' = (shared \ none) \cup Fresh(r, s.ns, ask)
        BY <1>4
      <3>2. ASSUME NEW n \in Nodes
            PROVE  AccessOf(n)' = AccessOf(n) \cup (IF n \in s.ns THEN ask ELSE {})
        <4>1. LeftOf(n, none) = AccessOf(n)
          BY DEF LeftOf, AccessOf
        <4>2. none \in SUBSET Row
          OBVIOUS
        <4> HIDE DEF none, ask
        <4>3. QED
          BY <1>2, <3>1, <4>1, <4>2, FreshAccess
      <3>3. QED
        BY <3>2 DEF Access
    <2>5. Table!Effect(r, s.ns)
      BY <1>4, EffectRefines
    <2> HIDE DEF ask, rows
    <2>6. QED
      BY <1>1, <1>2, <2>2, <2>3, <2>4, <2>5
      DEF Table!Share, Table!Grants, Grants, Calls, CallOf, Access, AccessOf
  <1>5. CASE /\ ~References(rows) /\ UNCHANGED <<shared, crossed>>
             /\ req' = [req EXCEPT ![r] = [[NoRequest EXCEPT !.ns = s.ns, !.ask = ask] EXCEPT !.pc = "error"]]
    <2>1. CallOf(r)' = [state |-> "failed", ns |-> s.ns, ask |-> ask]
      BY <1>5, States DEF TypeOK, NoRequest, CallOf
    <2>2. Calls' = [Calls EXCEPT ![r] = [state |-> "failed", ns |-> s.ns, ask |-> ask]]
      BY <1>3, <2>1, OnlyCall
    <2>3. Table!Missing(s.ns, ask)
      BY <1>2, <1>5, FreshReferences
    <2> HIDE DEF ask, rows
    <2>4. QED
      BY <1>1, <1>2, <1>5, <2>2, <2>3
      DEF Table!Fail, Table!Grants, Grants, Calls, CallOf, Access, AccessOf, RowsOf, GrantOf
  <1>6. QED
    BY <1>4, <1>5

\* What a synchronisation leaves of the rows of its node.
LEMMA LeftBounds ==
    ASSUME SyncInv, NEW r \in Reqs, At(r, "commit"), NEW n \in req[r].ns
    PROVE  /\ LeftOf(n, req[r].drop) \subseteq req[r].ask \cup Meanwhile(r)
           /\ req[r].ask \cap AccessOf(n) \subseteq LeftOf(n, req[r].drop)
  <1>1. SyncOk(r) /\ TypeOK /\ Working(r)
    BY DEF SyncInv, At, Working, Stopped
  <1>2. \A row \in RowsOf(n) \ req[r].drop : GrantOf(row) \in req[r].ask \cup Meanwhile(r)
    BY <1>1 DEF SyncOk, CoverOk, Cover, UserCover, GroupCover, At, RowsOf
  <1>3. \A row \in req[r].drop : GrantOf(row) \notin req[r].ask
    BY <1>1 DEF SyncOk, DropOk
  <1>4. QED
    BY <1>2, <1>3 DEF LeftOf, AccessOf

\* The grants of a node name nodes and roles that exist.
NamesExist ==
    \A n \in Nodes : /\ AccessOf(n) \subseteq Grants
                     /\ \A g \in AccessOf(n) : n \in nodes /\ RoleOf(g) \in roles

LEMMA AccessTyped == TypeOK => NamesExist
  <1>1. ASSUME TypeOK, NEW n \in Nodes, NEW row \in RowsOf(n)
        PROVE  GrantOf(row) \in Grants /\ n \in nodes /\ RoleOf(GrantOf(row)) \in roles
    BY <1>1 DEF TypeOK, References, Row, RowsOf, GrantOf, RoleOf, Grants
  <1>2. QED
    BY <1>1 DEF AccessOf, NamesExist

\* Alone on its node a synchronisation keeps what it asks for and has read.
LEMMA KeptGrants ==
    ASSUME SyncInv, NEW r \in Reqs, At(r, "commit"), crossed[r] = {},
           NEW n \in req[r].ns, n \in nodes,
           NEW g \in req[r].ask, RoleOf(g) \in roles, g \notin Added(r)
    PROVE  g \in AccessOf(n)
  <1>1. SyncOk(r) /\ TypeOK /\ Working(r)
    BY DEF SyncInv, At, Working, Stopped
  <1>2. g \in Grants
    BY <1>1, RequestFields DEF TypeOK
  <1>3. g[1] # NULL
    BY <1>2, SentinelsAssumption DEF Grants
  <1>4. g \in req[r].users \cup req[r].groups
    BY <1>2 DEF Added, UserGrants, GroupGrants, Grants, Holders
  <1>5. \E row \in shared : row.node = n /\ GrantOf(row) = g
    BY <1>1, <1>3, <1>4 DEF SyncOk, KeptOk
  <1>6. QED
    BY <1>5 DEF AccessOf, RowsOf

LEMMA CommitRefines ==
    ASSUME SyncInv, TypeOK', NEW r \in Reqs, SyncCommit(r)
    PROVE  Table!Sync(r) \/ Table!Fail(r)
  <1> DEFINE ask == req[r].ask
             ns == req[r].ns
             rows == Fresh(r, ns, Added(r))
  <1>0. NamesExist'
    BY AccessTyped, PTL
  <1>1. /\ TypeOK /\ SyncOk(r) /\ At(r, "commit") /\ Working(r)
        /\ UNCHANGED <<nodes, roles>> /\ Calls[r].state = "open"
        /\ Calls[r].ns = ns /\ Calls[r].ask = ask
    BY States DEF SyncCommit, SyncInv, At, Calls, CallOf, Working, Pcs, Stopped
  <1>2. ns \in SUBSET Nodes /\ ask \in SUBSET Grants /\ req[r].drop \in SUBSET Row
        /\ Added(r) \in SUBSET Grants /\ Added(r) \subseteq ask
    BY <1>1, RequestFields, AddedAsked DEF TypeOK
  <1>3. /\ req'[r].ns = ns /\ req'[r].ask = ask
        /\ \A p \in Reqs \ {r} : req'[p] = req[p]
    BY <1>1, RequestFields DEF SyncCommit, TypeOK, Request
  <1>4. CASE /\ References(rows) /\ shared' = (shared \ req[r].drop) \cup rows
             /\ req'[r].pc = "done" /\ Effect(r, ns)
    <2>1. Calls' = [Calls EXCEPT ![r].state = "done"]
      <3>1. CallOf(r)' = [CallOf(r) EXCEPT !.state = "done"]
        BY <1>3, <1>4, States DEF CallOf
      <3>2. QED
        BY <1>3, <3>1, OnlyCall DEF Calls
    <2>2. ASSUME NEW n \in Nodes
          PROVE  Access'[n] = LeftOf(n, req[r].drop) \cup (IF n \in ns THEN Added(r) ELSE {})
      <3>1. AccessOf(n)' = LeftOf(n, req[r].drop) \cup (IF n \in ns THEN Added(r) ELSE {})
        BY <1>1, <1>2, <1>4, FreshAccess
      <3>2. QED
        BY <3>1 DEF Access
    <2>3. ASSUME NEW n \in ns
          PROVE  IF crossed[r] = {}
                 THEN Access'[n] = {g \in ask : n \in nodes /\ RoleOf(g) \in roles}
                 ELSE /\ ask \cap Access[n] \subseteq Access'[n]
                      /\ Access'[n] \subseteq {g \in ask \cup Meanwhile(r) :
                                                n \in nodes /\ RoleOf(g) \in roles}
      <3>1. n \in Nodes
        BY <1>2
      <3>2. Access'[n] = AccessOf(n)'
        BY <3>1 DEF Access
      <3>3. \A g \in Access'[n] : n \in nodes /\ RoleOf(g) \in roles
        <4>1. \A g \in AccessOf(n)' : n \in nodes' /\ RoleOf(g) \in roles'
          BY <1>0, <3>1 DEF NamesExist, RoleOf
        <4>2. QED
          BY <1>1, <3>2, <4>1 DEF RoleOf
      <3>4. /\ Access'[n] = LeftOf(n, req[r].drop) \cup Added(r)
            /\ LeftOf(n, req[r].drop) \subseteq ask \cup Meanwhile(r)
            /\ ask \cap Access[n] \subseteq LeftOf(n, req[r].drop)
        BY <1>1, <2>2, <3>1, LeftBounds DEF Access
      <3>5. CASE crossed[r] = {}
        <4>1. Meanwhile(r) = {}
          BY <3>5 DEF Meanwhile
        <4>2. \A g \in ask : n \in nodes /\ RoleOf(g) \in roles => g \in Access'[n]
          <5>1. \A g \in ask : n \in nodes /\ RoleOf(g) \in roles /\ g \notin Added(r) => g \in Access[n]
            BY <1>1, <3>1, <3>5, KeptGrants DEF Access
          <5>2. QED
            BY <3>4, <5>1
        <4>3. QED
          BY <1>2, <3>3, <3>4, <3>5, <4>1, <4>2
      <3>6. CASE crossed[r] # {}
        BY <1>2, <3>3, <3>4, <3>6
      <3>7. QED
        BY <3>5, <3>6
    <2>4. Access' \in [Nodes -> SUBSET Grants]
      <3>1. \A n \in Nodes : AccessOf(n)' \subseteq Grants
        BY <1>0 DEF NamesExist
      <3>2. QED
        BY <3>1 DEF Access
    <2>5. \A n \in Nodes \ ns : Access'[n] = Access[n]
      <3>1. \A n \in Nodes \ ns : LeftOf(n, req[r].drop) = AccessOf(n)
        BY <1>1 DEF SyncOk, DropOk, LeftOf, AccessOf, RowsOf
      <3>2. QED
        BY <2>2, <3>1 DEF Access
    <2>6. Table!Effect(r, ns)
      BY <1>1, <1>4, EffectRefines
    <2>7. Table!AskedMeanwhile(r) = Meanwhile(r)
      <3>1. \A q \in crossed[r] : q \in Reqs
        BY <1>1 DEF TypeOK
      <3>2. \A q \in crossed[r] : Calls[q].ask = req[q].ask
        BY <3>1 DEF Calls, CallOf
      <3>3. Table!AskedMeanwhile(r) = UNION {Calls[q].ask : q \in crossed[r]}
        BY DEF Table!AskedMeanwhile, Calls, CallOf
      <3>4. QED
        BY <3>2, <3>3 DEF Meanwhile
    <2>8. QED
      BY <1>1, <2>1, <2>3, <2>4, <2>5, <2>6, <2>7
      DEF Table!Sync, Table!Valid, Table!RoleOf, RoleOf, Table!Grants, Grants,
          Calls, CallOf, Access, AccessOf
  <1>5. CASE ~References(rows) /\ req'[r].pc = "error" /\ UNCHANGED <<shared, crossed>>
    <2>1. Calls' = [Calls EXCEPT ![r].state = "failed"]
      <3>1. CallOf(r)' = [CallOf(r) EXCEPT !.state = "failed"]
        BY <1>3, <1>5, States DEF CallOf
      <3>2. QED
        BY <1>3, <3>1, OnlyCall DEF Calls
    <2>2. Table!Missing(ns, Added(r))
      BY <1>2, <1>5, FreshReferences
    <2>3. Table!Missing(ns, ask)
      BY <1>2, <2>2 DEF Table!Missing
    <2>4. QED
      BY <1>1, <1>5, <2>1, <2>3 DEF Table!Fail, Calls, CallOf, RowsOf, GrantOf
  <1>6. QED
    BY <1>1, <1>4, <1>5 DEF SyncCommit, TypeOK, Request

LEMMA RemoveRefines ==
    ASSUME TypeOK, DeleteNode \/ DeleteRole
    PROVE  Table!Remove
  <1>1. /\ shared' \subseteq shared /\ UNCHANGED <<req, crossed>>
        /\ nodes' \subseteq nodes /\ roles' \subseteq roles
        /\ \A row \in shared : row \in shared' <=> row.node \in nodes' /\ row.role \in roles'
    BY DEF DeleteNode, DeleteRole, TypeOK, References
  <1>2. ASSUME NEW n \in Nodes
        PROVE  AccessOf(n)' = {g \in AccessOf(n) : n \in nodes' /\ RoleOf(g) \in roles'}
    BY <1>1 DEF AccessOf, RowsOf, GrantOf, RoleOf
  <1>3. Access' = [n \in Nodes |-> {g \in Access[n] : n \in nodes' /\ RoleOf(g) \in roles'}]
    BY <1>2 DEF Access
  <1>4. Calls' = Calls
    BY <1>1 DEF Calls, CallOf
  <1>5. QED
    BY <1>1, <1>3, <1>4 DEF Table!Remove, Table!RoleOf, RoleOf, Access, AccessOf, Calls, CallOf

\* The rows of shared nodes implement the table of grants: whatever updates,
\* shares and deletions overlap, an update leaves exactly its list unless another
\* request commits to the node meanwhile, and never a grant that neither asks for.
THEOREM RowsImplementTable == Spec => TableSpec
  <1>1. Init => Table!Init
    <2> SUFFICES ASSUME Init PROVE Table!Init
      OBVIOUS
    <2>1. TypeOK
      BY InitType
    <2>2. Access \in [Nodes -> SUBSET Grants]
      BY <2>1, AccessTyped DEF Access, NamesExist
    <2>3. Calls = [r \in Reqs |-> [state |-> "idle", ns |-> {}, ask |-> {}]]
      BY States DEF Init, Calls, CallOf, NoRequest
    <2>4. QED
      BY <2>2, <2>3 DEF Init, Table!Init, Table!Grants, Grants, Calls, CallOf, Access, AccessOf
  <1>2. SyncInv /\ [Next]_vars => [Table!Next]_Table!vars
    <2> SUFFICES ASSUME SyncInv, [Next]_vars PROVE [Table!Next]_Table!vars
      OBVIOUS
    <2>1. TypeOK /\ TypeOK'
      BY StepType DEF SyncInv
    <2>2. CASE UNCHANGED vars
      <3>1. Calls' = Calls
        BY <2>2 DEF vars, Calls, CallOf
      <3>2. QED
        BY <2>2, <3>1, Stutter DEF vars
    <2>3. QED
      BY <2>1, <2>2, ShareRefines, BeginRefines, WorkRefines, CommitRefines, RemoveRefines
      DEF Next, Table!Next
  <1>3. QED
    BY <1>1, <1>2, SyncAlways, PTL DEF Spec, TableSpec, Table!Spec

-----------------------------------------------------------------------------
(* What the listing of shared nodes says *)

\* A permission that the listing of shared nodes (get_paginated_shared_nodes)
\* names for a node is found by has_node_perm on the node and on all below it,
\* of whoever the rows are: for the user, or for a group of the user.
THEOREM ListingIsHeld == Spec => []ListedPermsHeld
  <1>1. ASSUME NEW u \in Users, NEW n \in nodes, NEW m \in SharedAbove(u, n), NEW p \in ListedPerms(u, m)
        PROVE  HasNodePerm(u, n, p)
    <2>1. PICK row \in shared : row.node = m /\ HeldBy(row, u) /\ p \in RolePerms[row.role]
      BY DEF ListedPerms, RowsOf
    <2>2. m \in Ancestors(n)
      BY DEF SharedAbove
    <2>3. QED
      BY <2>1, <2>2 DEF HasNodePerm
  <1>2. ListedPermsHeld
    BY <1>1 DEF ListedPermsHeld
  <1>3. QED
    BY <1>2, PTL

=============================================================================
