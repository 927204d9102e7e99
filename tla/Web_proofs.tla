----------------------------- MODULE Web_proofs ------------------------------
(***************************************************************************)
(* The dialogs and panels of the web interface, and the interface as a     *)
(* whole.  A save of the access of a shared node gives nobody more than    *)
(* was loaded or picked; the dialog of a role loses no permission on its   *)
(* way to the server and back; a panel ticks only nodes of the folder it   *)
(* lists, a viewer has the document of its own panel, and both show nodes  *)
(* there are.  With the tables, the commander and the viewer, which have   *)
(* modules of their own, all parts of the interface keep typed state.  All *)
(* of it for any users, groups, roles and nodes and any number of clicks.  *)
(***************************************************************************)
EXTENDS MCWeb, Caches_proofs, DocViewer_proofs

-----------------------------------------------------------------------------
(* The access dialog of a shared node *)

IsManage(m) ==
    /\ m = [f \in DOMAIN m |-> m[f]]
    /\ {"mounted", "modal", "tab", "ticked", "access", "picker", "managed",
        "loaded", "removed", "picked", "misled"} \subseteq DOMAIN m

\* what the dialog lists is loaded or picked, for the grantees it loaded and did not
\* remove, but for the groups that got roles picked for a user
FairList(access, loaded, removed, chosen, misled) ==
    /\ DOMAIN access = DOMAIN loaded \ removed
    /\ misled \subseteq Groups
    /\ \A g \in DOMAIN access \ misled : access[g] \subseteq loaded[g] \cup chosen[g]

\* roles left behind by the role dialog were picked for the row they belong to
FairManage(m) ==
    /\ IsManage(m)
    /\ FairList(m.access, m.loaded, m.removed, m.picked, m.misled)
    /\ DOMAIN m.access \subseteq Grantees
    /\ m.picked = [g \in Grantees |-> m.picked[g]]
    /\ \A g \in (m.managed.id \cap Grantees) \ m.misled : m.managed.roles \subseteq m.picked[g]

FairUpdate(u) ==
    /\ FairList(u.sent, u.loaded, u.removed, u.picked, u.misled)
    /\ DOMAIN u.sent \subseteq Grantees

\* what is ticked: one group at most, beside the tab of the groups no user, and
\* under the role dialog one row of the tab
Ticks(open, tab, ticked) ==
    /\ tab \in {"users", "groups"} /\ ticked \subseteq Grantees
    /\ tab = "groups" => ticked \subseteq Groups
    /\ \A g, h \in ticked \cap Groups : g = h
    /\ open = "role" => \E g \in Grantees : ticked \cap TabRows(tab) = {g}

\* while a list loads no role dialog was open, so nothing is left behind for it
ManageInv ==
    /\ FairManage(manage)
    /\ Ticks(manage.modal, manage.tab, manage.ticked)
    /\ ~manage.mounted => manage = Unmounted
    /\ manage.mounted => details.is # "none"
    /\ details.is = "loading" => manage.modal # "role" /\ manage.managed = NotManaged
    /\ details.is = "data" => DOMAIN details.list \subseteq Grantees
    /\ DOMAIN grants \subseteq Grantees
    /\ \E S : updates \in Seq(S)
    /\ \A k \in DOMAIN updates : FairUpdate(updates[k])

LEMMA UnmountedIs ==
    /\ ~Unmounted.mounted /\ Unmounted.modal = "none" /\ Unmounted.managed = NotManaged
    /\ Ticks(Unmounted.modal, Unmounted.tab, Unmounted.ticked)
BY DEF Unmounted, Ticks

LEMMA UnmountedFair == FairManage(Unmounted)
BY DEF FairManage, IsManage, FairList, Unmounted, NoGrants, NotManaged

LEMMA WithDataFair ==
    ASSUME NEW m, FairManage(m), m.managed = NotManaged, NEW list, DOMAIN list \subseteq Grantees
    PROVE  FairManage(WithData(m, list))
<1> DEFINE n == WithData(m, list)
<1>1. /\ IsManage(n)
      /\ n.access = list /\ n.loaded = list /\ n.removed = {}
      /\ n.picked = [g \in Grantees |-> {}] /\ n.managed = NotManaged /\ n.misled = {}
  BY DEF FairManage, IsManage, WithData
<1>2. FairList(n.access, n.loaded, n.removed, n.picked, n.misled)
  BY <1>1 DEF FairList
<1> QED BY <1>1, <1>2 DEF FairManage, NotManaged

LEMMA ManageInit == ShareInit => ManageInv
<1>1. ASSUME ShareInit PROVE ManageInv
  <2>1. DOMAIN grants \subseteq Grantees
    BY <1>1, ShareAssumption DEF ShareInit
  <2>2. updates \in Seq({}) /\ DOMAIN updates = {}
    BY <1>1 DEF ShareInit
  <2>3. details.is = "none" /\ manage = Unmounted
    BY <1>1 DEF ShareInit
  <2>4. ~Unmounted.mounted
    BY DEF Unmounted
  <2> QED BY <2>1, <2>2, <2>3, <2>4, UnmountedFair, UnmountedIs DEF ManageInv
<1> QED BY <1>1

\* steps of the dialog alone
LEMMA ManagingStep ==
    ASSUME ManageInv, NEW m, Managing(m), FairManage(m),
           m.mounted, manage.mounted, Ticks(m.modal, m.tab, m.ticked),
           details.is = "loading" => m.modal # "role" /\ m.managed = NotManaged
    PROVE  ManageInv'
<1>1. manage' = m /\ UNCHANGED <<grants, details, updates>>
  BY DEF Managing
<1>2. FairManage(manage') /\ manage'.mounted /\ Ticks(manage'.modal, manage'.tab, manage'.ticked)
  BY <1>1
<1>3. (\E S : updates \in Seq(S))' /\ (\A k \in DOMAIN updates : FairUpdate(updates[k]))'
  BY <1>1 DEF ManageInv, FairUpdate, FairList
<1> QED BY <1>1, <1>2, <1>3 DEF ManageInv

LEMMA UnmountStep ==
    ASSUME ManageInv, manage' = Unmounted, UNCHANGED <<details, updates>>,
           DOMAIN grants' \subseteq Grantees
    PROVE  ManageInv'
<1>1. FairManage(manage') /\ Unmounted.modal # "role" /\ Unmounted.managed = NotManaged /\ ~Unmounted.mounted
  BY UnmountedFair DEF Unmounted
<1>2. Ticks(manage'.modal, manage'.tab, manage'.ticked)
  BY UnmountedIs
<1> QED BY <1>1, <1>2 DEF ManageInv, FairManage, IsManage, FairList, FairUpdate

LEMMA SelectStep == ManageInv /\ SelectNode => ManageInv'
<1> SUFFICES ASSUME ManageInv, SelectNode PROVE ManageInv'
  OBVIOUS
<1> DEFINE fresh == [Unmounted EXCEPT !.mounted = TRUE]
<1>1. /\ FairManage(fresh) /\ fresh.managed = NotManaged /\ fresh.modal = "none" /\ fresh.mounted
      /\ Ticks(fresh.modal, fresh.tab, fresh.ticked)
  BY UnmountedFair DEF FairManage, IsManage, FairList, Unmounted, Ticks
<1> HIDE DEF fresh
<1>2. /\ FairManage(manage') /\ manage'.managed = NotManaged /\ manage'.modal = "none" /\ manage'.mounted
      /\ Ticks(manage'.modal, manage'.tab, manage'.ticked)
  <2>1. CASE details.is = "data"
    <3>1. manage' = WithData(fresh, details.list)
      BY <2>1 DEF SelectNode, fresh
    <3>2. FairManage(WithData(fresh, details.list))
      BY <2>1, <1>1, WithDataFair DEF ManageInv
    <3> QED BY <3>1, <3>2, <1>1 DEF WithData, FairManage, IsManage
  <2>2. CASE details.is # "data"
    BY <2>2, <1>1 DEF SelectNode, fresh
  <2> QED BY <2>1, <2>2
<1>3. details'.is # "none" /\ (details'.is = "data" => details' = details)
  <2>1. CASE details.is \in {"none", "error"}
    <3>1. details' = [details EXCEPT !.is = "loading"]
      BY <2>1 DEF SelectNode
    <3> QED BY <3>1
  <2>2. CASE details.is \notin {"none", "error"}
    BY <2>2 DEF SelectNode
  <2> QED BY <2>1, <2>2
<1> QED BY <1>2, <1>3 DEF ManageInv, SelectNode, FairUpdate, FairList

LEMMA LoadStep == ManageInv /\ LoadDetails => ManageInv'
<1> SUFFICES ASSUME ManageInv, LoadDetails PROVE ManageInv'
  OBVIOUS
<1>1. manage.managed = NotManaged /\ details.is = "loading"
  BY DEF ManageInv, LoadDetails
<1> DEFINE n == WithData(manage, grants)
<1>2. /\ FairManage(n) /\ n.mounted = manage.mounted
      /\ n.modal = manage.modal /\ n.tab = manage.tab /\ n.ticked = manage.ticked
  <2>1. FairManage(WithData(manage, grants))
    BY <1>1, WithDataFair DEF ManageInv
  <2>2. /\ n.mounted = manage.mounted /\ n.modal = manage.modal
        /\ n.tab = manage.tab /\ n.ticked = manage.ticked
    BY DEF ManageInv, FairManage, IsManage, WithData
  <2> QED BY <2>1, <2>2
<1>3. CASE details' = [is |-> "data", list |-> grants]
            /\ manage' = IF manage.mounted THEN WithData(manage, grants) ELSE manage
  <2>1. /\ FairManage(manage') /\ manage'.mounted = manage.mounted
        /\ Ticks(manage'.modal, manage'.tab, manage'.ticked)
    BY <1>2, <1>3 DEF ManageInv
  <2>2. details'.is = "data" /\ details'.list = grants
    BY <1>3
  <2> QED BY <1>3, <2>1, <2>2 DEF ManageInv, LoadDetails, FairUpdate, FairList
<1>4. CASE details' = [is |-> "error", list |-> NoGrants] /\ UNCHANGED manage
  BY <1>4 DEF ManageInv, LoadDetails, FairManage, IsManage, FairList, FairUpdate
<1> QED BY <1>3, <1>4 DEF LoadDetails

LEMMA DialogStep ==
    /\ ManageInv
    /\ \/ OpenAccess \/ CloseModal \/ \E tab \in {"users", "groups"} : OnClickTab(tab)
       \/ \E g \in Grantees : OnSelectionChange(g)
       \/ OnClickViewRole \/ OnCancelRoleView
    => ManageInv'
<1> SUFFICES ASSUME ManageInv,
                    \/ OpenAccess \/ CloseModal \/ \E tab \in {"users", "groups"} : OnClickTab(tab)
                    \/ \E g \in Grantees : OnSelectionChange(g)
                    \/ OnClickViewRole \/ OnCancelRoleView
             PROVE  ManageInv'
  OBVIOUS
<1>1. manage.modal # "none" => manage.mounted
  BY UnmountedIs DEF ManageInv
<1>2. /\ IsManage(manage) /\ DOMAIN manage.access \subseteq Grantees
      /\ Ticks(manage.modal, manage.tab, manage.ticked)
  BY DEF ManageInv, FairManage
<1> DEFINE Becomes(o, t, s, p) ==
               Managing([manage EXCEPT !.modal = o, !.tab = t, !.ticked = s, !.picker = p])
           Other == \E o, t, s, p :
               /\ Becomes(o, t, s, p) /\ Ticks(o, t, s)
               /\ manage.mounted /\ (o = "role" => details.is # "loading")
<1>3. Other
  <2>2. CASE OpenAccess
    <3>1. Becomes("access", manage.tab, manage.ticked, manage.picker)
      BY <1>2, <2>2 DEF OpenAccess, IsManage, Managing
    <3>2. manage.mounted /\ Ticks("access", manage.tab, manage.ticked)
      BY <1>2, <2>2 DEF OpenAccess, Ticks
    <3> HIDE DEF Becomes
    <3> QED BY <3>1, <3>2
  <2>3. CASE CloseModal
    <3>1. \/ Becomes("access", manage.tab, manage.ticked, manage.picker)
          \/ Becomes("none", "users", manage.ticked, manage.picker)
      BY <1>2, <2>3 DEF CloseModal, IsManage, Managing
    <3>2. /\ manage.mounted /\ Ticks("access", manage.tab, manage.ticked)
          /\ Ticks("none", "users", manage.ticked)
      BY <1>1, <1>2, <2>3 DEF CloseModal, OnList, Ticks
    <3> HIDE DEF Becomes
    <3> QED BY <3>1, <3>2
  <2>4. ASSUME NEW tab \in {"users", "groups"}, OnClickTab(tab) PROVE Other
    <3>1. Becomes("access", tab, {}, manage.picker)
      BY <1>2, <2>4 DEF OnClickTab, IsManage, Managing, OnList
    <3>2. manage.mounted /\ Ticks("access", tab, {})
      BY <1>1, <2>4 DEF OnClickTab, OnList, Ticks
    <3> HIDE DEF Becomes
    <3> QED BY <3>1, <3>2
  <2>5. ASSUME NEW g \in Grantees, OnSelectionChange(g) PROVE Other
    <3>1. manage.modal = "access" /\ g \in TabRows(manage.tab)
      BY <2>5, Zenon DEF OnSelectionChange, OnList
    <3>2. PICK s : /\ Managing([manage EXCEPT !.ticked = s])
                   /\ s = IF g \in manage.ticked THEN manage.ticked \ {g} ELSE Added(g)
      BY <1>2, <2>5 DEF OnSelectionChange, IsManage
    <3>3. Becomes("access", manage.tab, s, manage.picker)
      BY <1>2, <3>1, <3>2 DEF IsManage, Managing
    <3>4. Ticks("access", manage.tab, s)
      BY <1>2, <3>1, <3>2, ShareAssumption DEF Ticks, Added, TabRows, Grantees
    <3> HIDE DEF Becomes
    <3> QED BY <1>1, <3>1, <3>3, <3>4
  <2>6. CASE OnClickViewRole
    <3>1. PICK p : Becomes("role", manage.tab, manage.ticked, p)
      BY <1>2, <2>6 DEF OnClickViewRole, IsManage, Managing, OnList
    <3>2. manage.mounted /\ details.is # "loading" /\ Ticks("role", manage.tab, manage.ticked)
      BY <1>1, <1>2, <2>6 DEF OnClickViewRole, OnList, Ticks, Seen
    <3> HIDE DEF Becomes
    <3> QED BY <3>1, <3>2
  <2>7. CASE OnCancelRoleView
    <3>1. Becomes("access", manage.tab, {}, manage.picker)
      BY <1>2, <2>7 DEF OnCancelRoleView, IsManage, Managing
    <3>2. manage.mounted /\ Ticks("access", manage.tab, {})
      BY <1>1, <1>2, <2>7 DEF OnCancelRoleView, Ticks
    <3> HIDE DEF Becomes
    <3> QED BY <3>1, <3>2
  <2> QED BY <2>2, <2>3, <2>4, <2>5, <2>6, <2>7
<1>4. PICK o, t, s, p : /\ Becomes(o, t, s, p) /\ Ticks(o, t, s)
                        /\ manage.mounted /\ (o = "role" => details.is # "loading")
  BY <1>3
<1> DEFINE m == [manage EXCEPT !.modal = o, !.tab = t, !.ticked = s, !.picker = p]
<1>5. /\ m.mounted /\ m.modal = o /\ m.managed = manage.managed /\ m.tab = t /\ m.ticked = s
      /\ IsManage(m) /\ m.access = manage.access /\ m.loaded = manage.loaded
      /\ m.removed = manage.removed /\ m.picked = manage.picked /\ m.misled = manage.misled
  BY <1>2, <1>4 DEF IsManage
<1>6. Managing(m)
  BY <1>4
<1> HIDE DEF m, Becomes
<1>7. FairManage(m) /\ Ticks(m.modal, m.tab, m.ticked)
  BY <1>4, <1>5 DEF ManageInv, FairManage
<1> QED BY <1>4, <1>5, <1>6, <1>7, ManagingStep DEF ManageInv

LEMMA CancelLoadingStep == ManageInv /\ CancelLoading => ManageInv'
<1>1. ManageInv /\ CancelLoading => DOMAIN grants' \subseteq Grantees
  BY DEF ManageInv, CancelLoading, Managing
<1> QED BY <1>1, UnmountStep DEF CancelLoading, Managing

LEMMA DeleteRoleStep == ManageInv /\ OnClickDeleteRole => ManageInv'
<1> SUFFICES ASSUME ManageInv, OnClickDeleteRole PROVE ManageInv'
  OBVIOUS
<1> DEFINE access == [g \in DOMAIN manage.access \ Seen |-> manage.access[g]]
           m == [manage EXCEPT !.access = access, !.removed = @ \cup Seen, !.ticked = @ \ Seen]
<1>1. Managing(m) /\ manage.modal = "access" /\ details.is # "loading" /\ manage.mounted
  BY UnmountedIs DEF OnClickDeleteRole, OnList, ManageInv
<1>2. /\ IsManage(m) /\ m.access = access /\ m.removed = manage.removed \cup Seen
      /\ m.modal = manage.modal /\ m.tab = manage.tab /\ m.ticked = manage.ticked \ Seen
      /\ m.loaded = manage.loaded /\ m.picked = manage.picked /\ m.managed = manage.managed
      /\ m.mounted = manage.mounted /\ m.misled = manage.misled
  BY DEF ManageInv, FairManage, IsManage
<1>3. FairList(m.access, m.loaded, m.removed, m.picked, m.misled) /\ DOMAIN m.access \subseteq Grantees
  <2>1. FairList(manage.access, manage.loaded, manage.removed, manage.picked, manage.misled) /\ DOMAIN manage.access \subseteq Grantees
    BY DEF ManageInv, FairManage
  <2>2. DOMAIN access = DOMAIN manage.access \ Seen /\ \A g \in DOMAIN access : access[g] = manage.access[g]
    OBVIOUS
  <2> HIDE DEF access, m
  <2> QED BY <1>2, <2>1, <2>2 DEF FairList
<1>4. FairManage(m) /\ Ticks(m.modal, m.tab, m.ticked)
  <2> HIDE DEF access, m
  <2>1. FairManage(m)
    BY <1>2, <1>3 DEF ManageInv, FairManage
  <2>2. Ticks(m.modal, m.tab, m.ticked)
    BY <1>1, <1>2 DEF ManageInv, Ticks
  <2> QED BY <2>1, <2>2
<1> HIDE DEF m
<1> QED BY <1>1, <1>2, <1>4, ManagingStep

\* the role dialog is about the row seen ticked, or about a group
LEMMA TickedIs ==
    ASSUME ManageInv, manage.modal = "role"
    PROVE  TheTicked \in Grantees /\ (Seen # {TheTicked} => TheTicked \in Groups)
<1>1. Ticks("role", manage.tab, manage.ticked)
  BY DEF ManageInv
<1>2. PICK g \in Grantees : Seen = {g} /\ g \in manage.ticked
  BY <1>1 DEF Ticks, Seen
<1>3. \E h \in manage.ticked : h \in Groups \/ manage.ticked \cap Groups = {}
  BY <1>2
<1>4. TheTicked \in manage.ticked /\ (TheTicked \in Groups \/ manage.ticked \cap Groups = {})
  BY <1>3 DEF TheTicked
<1>5. TheTicked \in Grantees
  BY <1>1, <1>4 DEF Ticks
<1>6. ASSUME TheTicked \notin Groups PROVE Seen = {TheTicked}
  <2>1. manage.ticked \cap Groups = {} /\ manage.tab = "users"
    BY <1>1, <1>4, <1>6 DEF Ticks
  <2>2. TheTicked \in Users
    BY <1>5, <1>6 DEF Grantees
  <2>3. TheTicked \in Seen
    BY <1>4, <2>1, <2>2 DEF Seen, TabRows
  <2> QED BY <1>2, <2>3
<1> QED BY <1>5, <1>6

\* the role dialog: what is picked in it is added to what was picked for its row,
\* or its row is a group that was misled
LEMMA RoleChangedStep == ManageInv /\ OnRoleChanged => ManageInv'
<1> SUFFICES ASSUME ManageInv, OnRoleChanged PROVE ManageInv'
  OBVIOUS
<1> DEFINE g == TheTicked
           led == Seen # {g}
<1>1. PICK roles :
        manage' = [manage EXCEPT !.managed = [id |-> {g}, roles |-> roles], !.picker = roles,
                            !.picked[g] = IF led THEN @ ELSE @ \cup roles,
                            !.misled = IF led THEN @ \cup {g} ELSE @]
  BY Zenon DEF OnRoleChanged
<1>2. /\ manage.modal = "role" /\ details.is # "loading" /\ manage.mounted
      /\ UNCHANGED <<grants, details, updates>>
  BY UnmountedIs DEF OnRoleChanged, ManageInv
<1>3. led \in BOOLEAN /\ (led => g \in Groups)
  BY <1>2, TickedIs
<1> HIDE DEF g, led
<1>4. /\ IsManage(manage') /\ manage'.access = manage.access /\ manage'.removed = manage.removed
      /\ manage'.loaded = manage.loaded /\ manage'.mounted = manage.mounted
      /\ manage'.modal = manage.modal /\ manage'.tab = manage.tab /\ manage'.ticked = manage.ticked
      /\ manage'.managed = [id |-> {g}, roles |-> roles]
      /\ manage'.picked = [manage.picked EXCEPT ![g] = IF led THEN @ ELSE @ \cup roles]
      /\ manage'.misled = IF led THEN manage.misled \cup {g} ELSE manage.misled
  BY <1>1 DEF ManageInv, FairManage, IsManage
<1>5. \A h \in Grantees : manage'.picked[h] = IF h = g /\ ~led THEN manage.picked[h] \cup roles ELSE manage.picked[h]
  BY <1>4 DEF ManageInv, FairManage
<1>6. FairManage(manage')
  <2>1. FairList(manage'.access, manage'.loaded, manage'.removed, manage'.picked, manage'.misled)
    <3>1. /\ FairList(manage.access, manage.loaded, manage.removed, manage.picked, manage.misled)
          /\ DOMAIN manage.access \subseteq Grantees
      BY DEF ManageInv, FairManage
    <3>2. manage'.misled \subseteq Groups /\ manage.misled \subseteq manage'.misled
      BY <1>3, <1>4, <3>1 DEF FairList
    <3>3. ASSUME NEW h \in DOMAIN manage.access \ manage'.misled
          PROVE  manage.access[h] \subseteq manage.loaded[h] \cup manage'.picked[h]
      <4>1. manage.access[h] \subseteq manage.loaded[h] \cup manage.picked[h]
        BY <3>1, <3>2 DEF FairList
      <4>2. manage.picked[h] \subseteq manage'.picked[h]
        BY <1>5, <3>1
      <4> QED BY <4>1, <4>2
    <3> QED BY <1>4, <3>1, <3>2, <3>3 DEF FairList
  <2>2. manage'.picked = [h \in Grantees |-> manage'.picked[h]]
    BY <1>4 DEF ManageInv, FairManage
  <2>3. \A h \in (manage'.managed.id \cap Grantees) \ manage'.misled : manage'.managed.roles \subseteq manage'.picked[h]
    BY <1>4, <1>5
  <2> QED BY <1>4, <2>1, <2>2, <2>3 DEF ManageInv, FairManage
<1>7. Ticks(manage'.modal, manage'.tab, manage'.ticked)
  BY <1>4 DEF ManageInv
<1> QED BY <1>2, <1>4, <1>6, <1>7 DEF ManageInv, FairUpdate, FairList

LEMMA SubmitRoleStep == ManageInv /\ OnSubmitRoleView => ManageInv'
<1> SUFFICES ASSUME ManageInv, OnSubmitRoleView PROVE ManageInv'
  OBVIOUS
<1> DEFINE changed == ChangedRows(manage)
           access == [g \in DOMAIN manage.access \cup changed |->
                         IF g \in changed THEN manage.managed.roles \cap allRoles ELSE manage.access[g]]
           ticked == manage.ticked \ Users
           m == [manage EXCEPT !.modal = "access", !.access = access,
                               !.ticked = ticked, !.managed = NotManaged]
<1>1. Managing(m)
  BY DEF OnSubmitRoleView, Managing, ManageInv, FairManage, IsManage
<1>2. details.is # "loading" /\ manage.mounted
  BY UnmountedIs DEF OnSubmitRoleView, ManageInv
<1>3. /\ IsManage(m) /\ m.access = access /\ m.removed = manage.removed
      /\ m.loaded = manage.loaded /\ m.picked = manage.picked /\ m.managed = NotManaged
      /\ m.mounted = manage.mounted /\ m.misled = manage.misled
      /\ m.modal = "access" /\ m.tab = manage.tab /\ m.ticked = ticked
  BY DEF ManageInv, FairManage, IsManage
<1>8. Ticks(m.modal, m.tab, m.ticked)
  BY <1>3 DEF ManageInv, Ticks
<1>4. changed \subseteq DOMAIN manage.access /\ changed \subseteq manage.managed.id
  BY DEF ChangedRows
<1>5. FairList(m.access, m.loaded, m.removed, m.picked, m.misled) /\ DOMAIN m.access \subseteq Grantees
  BY <1>3, <1>4 DEF ManageInv, FairManage, FairList
<1>6. FairManage(m)
  BY <1>3, <1>5 DEF ManageInv, FairManage, NotManaged
<1> HIDE DEF m
<1> QED BY <1>1, <1>2, <1>3, <1>6, <1>8, ManagingStep

-----------------------------------------------------------------------------
(* Saving *)

LEMMA SaveStep == ManageInv /\ LocalSubmitAccess => ManageInv'
<1> SUFFICES ASSUME ManageInv, LocalSubmitAccess PROVE ManageInv'
  OBVIOUS
<1> DEFINE u == [sent |-> GetAccessData4BE, loaded |-> manage.loaded,
                 removed |-> manage.removed, picked |-> manage.picked, misled |-> manage.misled]
<1>1. updates' = Append(updates, u) /\ UNCHANGED <<grants, details, manage>>
  BY DEF LocalSubmitAccess
<1>2. FairUpdate(u)
  BY DEF ManageInv, FairManage, FairUpdate, FairList, GetAccessData4BE
<1> HIDE DEF u
<1>3. PICK S : updates \in Seq(S)
  BY DEF ManageInv
<1>4. updates \in Seq(S \cup {u})
  BY <1>3
<1>5. updates' \in Seq(S \cup {u})
  BY <1>1, <1>4
<1>6. \A k \in DOMAIN updates' : FairUpdate(updates'[k])
  <2>1. \A k \in DOMAIN updates' : updates'[k] = u \/ (k \in DOMAIN updates /\ updates'[k] = updates[k])
    BY <1>1, <1>4
  <2> QED BY <2>1, <1>2 DEF ManageInv
<1> QED BY <1>1, <1>5, <1>6 DEF ManageInv, FairManage, IsManage, FairList

LEMMA UpdateAnswerStep == ManageInv /\ UpdateAnswered => ManageInv'
<1> SUFFICES ASSUME ManageInv, UpdateAnswered PROVE ManageInv'
  OBVIOUS
<1>1. PICK S : updates \in Seq(S)
  BY DEF ManageInv
<1>2. updates # <<>> /\ updates' = Tail(updates) /\ manage' = Unmounted /\ UNCHANGED details
  BY DEF UpdateAnswered
<1>3. DOMAIN Head(updates).sent \subseteq Grantees
  BY <1>1, <1>2 DEF ManageInv, FairUpdate
<1>4. DOMAIN grants' \subseteq Grantees
  BY <1>3 DEF UpdateAnswered, ManageInv
<1>5. updates' \in Seq(S) /\ \A k \in DOMAIN updates' : FairUpdate(updates'[k])
  <2>1. updates' \in Seq(S) /\ \A k \in DOMAIN updates' : k + 1 \in DOMAIN updates /\ updates'[k] = updates[k + 1]
    BY <1>1, <1>2
  <2> QED BY <2>1 DEF ManageInv
<1>6. FairManage(manage')
  BY <1>2, UnmountedFair
<1> QED BY <1>2, <1>4, <1>5, <1>6, UnmountedIs DEF ManageInv

LEMMA ShareStep ==
    ManageInv /\ (LocalCancelShare \/ \E to \in SUBSET Grantees, roles \in SUBSET ShareRoles \ {{}} : LocalSubmitShare(to, roles))
    => ManageInv'
<1>1. ASSUME ManageInv, LocalCancelShare PROVE ManageInv'
  BY <1>1, UnmountStep DEF LocalCancelShare, Managing, ManageInv
<1>2. ASSUME ManageInv, NEW to \in SUBSET Grantees, NEW roles \in SUBSET ShareRoles \ {{}}, LocalSubmitShare(to, roles)
      PROVE  ManageInv'
  BY <1>2, UnmountStep DEF LocalSubmitShare, ManageInv
<1> QED BY <1>1, <1>2

LEMMA CacheStep == ManageInv /\ (ExpireDetails \/ LoadRoles \/ UNCHANGED shareVars) => ManageInv'
<1> SUFFICES ASSUME ManageInv, ExpireDetails \/ LoadRoles \/ UNCHANGED shareVars PROVE ManageInv'
  OBVIOUS
<1>1. UNCHANGED <<grants, manage, updates>> /\ (details' = details \/ (~manage.mounted /\ details'.is = "none"))
  BY DEF ExpireDetails, LoadRoles, shareVars
<1>2. FairManage(manage') /\ Ticks(manage'.modal, manage'.tab, manage'.ticked)
  BY <1>1 DEF ManageInv
<1>3. (\E S : updates \in Seq(S))' /\ (\A k \in DOMAIN updates : FairUpdate(updates[k]))'
  BY <1>1 DEF ManageInv, FairUpdate, FairList
<1> QED BY <1>1, <1>2, <1>3 DEF ManageInv

LEMMA ManageNext == ManageInv /\ [ShareNext]_shareVars => ManageInv'
BY SelectStep, LoadStep, DialogStep, CancelLoadingStep, DeleteRoleStep, RoleChangedStep, SubmitRoleStep,
   SaveStep, UpdateAnswerStep, ShareStep, CacheStep DEF ShareNext

\* A save of the access of a shared node lists whom it loaded less those the user
\* removed, and gives nobody a role that was neither loaded for it nor picked while
\* it was the row seen ticked: whatever dialogs are opened, left and opened again,
\* whichever rows are ticked meanwhile, and however late the answers of the server
\* come.  Only a group, never a user, can get the roles picked for a ticked user.
THEOREM SavesGiveNoMore == ShareSpec => []SaveGivesNoMore
<1>1. ManageInv => SaveGivesNoMore
  BY DEF ManageInv, FairUpdate, FairList, SaveGivesNoMore
<1> QED BY <1>1, ManageInit, ManageNext, PTL DEF ShareSpec

\* wherever roles of grantees are kept, they are roles of the installation
RolesOf(f) == \A g \in DOMAIN f : f[g] \subseteq ShareRoles

\* the type invariant but for the ticks, which ManageInv has
ShareTyped ==
    /\ DOMAIN grants \subseteq Grantees /\ RolesOf(grants)
    /\ details.is \in {"none", "loading", "data", "error"}
    /\ allRoles \in {{}, ShareRoles}
    /\ manage.modal \in {"none", "access", "role"}
    /\ details = [is |-> details.is, list |-> details.list]
    /\ RolesOf(details.list) /\ RolesOf(manage.access)
    /\ \A k \in DOMAIN updates : RolesOf(updates[k].sent)

LEMMA UnmountedTyped ==
    /\ Unmounted.modal = "none"
    /\ RolesOf(Unmounted.access)
BY DEF Unmounted, NoGrants, RolesOf

LEMMA ShareTypedInit == ShareInit => ShareTyped
<1> SUFFICES ASSUME ShareInit PROVE ShareTyped
  OBVIOUS
<1>1. DOMAIN grants \subseteq Grantees /\ RolesOf(grants)
  BY ShareAssumption DEF ShareInit, RolesOf
<1>2. RolesOf(NoGrants)
  BY DEF RolesOf, NoGrants
<1> QED BY <1>1, <1>2, UnmountedTyped DEF ShareInit, ShareTyped, RolesOf

\* steps of the dialog alone: what they leave in it is typed
LEMMA ManagingTyped ==
    ASSUME ShareTyped, NEW m, Managing(m), RolesOf(m.access),
           m.modal \in {"none", "access", "role"}
    PROVE  ShareTyped'
BY DEF Managing, ShareTyped, RolesOf

LEMMA UnmountTyped ==
    ASSUME ShareTyped, manage' = Unmounted, UNCHANGED <<details, allRoles, updates>>,
           DOMAIN grants' \subseteq Grantees, RolesOf(grants')
    PROVE  ShareTyped'
BY UnmountedTyped DEF ShareTyped, RolesOf

LEMMA SelectTyped == ManageInv /\ ShareTyped /\ (SelectNode \/ LoadDetails) => ShareTyped'
<1> SUFFICES ASSUME ManageInv, ShareTyped, SelectNode \/ LoadDetails PROVE ShareTyped'
  OBVIOUS
<1>1. /\ DOMAIN grants \subseteq Grantees /\ RolesOf(grants) /\ RolesOf(NoGrants)
      /\ IsManage(manage)
  BY DEF ShareTyped, RolesOf, NoGrants, ManageInv, FairManage
<1>2. \A m, list : IsManage(m) =>
          LET n == WithData(m, list)
          IN  n.access = list /\ n.modal = m.modal
  BY DEF IsManage, WithData
<1>3. CASE SelectNode
  <2> DEFINE fresh == [Unmounted EXCEPT !.mounted = TRUE]
  <2>1. IsManage(fresh) /\ fresh.access = Unmounted.access /\ fresh.modal = "none"
    BY DEF Unmounted, IsManage
  <2>2. manage' = IF details.is = "data" THEN WithData(fresh, details.list) ELSE fresh
    BY <1>3 DEF SelectNode
  <2> HIDE DEF fresh
  <2>3. RolesOf(manage'.access) /\ manage'.modal = "none"
    BY <1>2, <2>1, <2>2, UnmountedTyped DEF ShareTyped
  <2>4. /\ details' = [is |-> details'.is, list |-> details'.list]
        /\ details'.is \in {"none", "loading", "data", "error"} /\ details'.list = details.list
    BY <1>3 DEF SelectNode, ShareTyped
  <2> QED BY <1>3, <2>3, <2>4 DEF SelectNode, ShareTyped, RolesOf
<1>4. CASE LoadDetails
  <2>1. RolesOf(manage'.access) /\ manage'.modal = manage.modal
    BY <1>1, <1>2, <1>4 DEF LoadDetails, ShareTyped
  <2>2. /\ details' = [is |-> details'.is, list |-> details'.list]
        /\ details'.is \in {"none", "loading", "data", "error"} /\ RolesOf(details'.list)
    BY <1>1, <1>4 DEF LoadDetails
  <2> QED BY <1>4, <2>1, <2>2 DEF LoadDetails, ShareTyped, RolesOf
<1> QED BY <1>3, <1>4

LEMMA DialogTyped ==
    ASSUME ManageInv, ShareTyped,
           \/ OpenAccess \/ CloseModal \/ CancelLoading \/ LocalCancelShare
           \/ \E tab \in {"users", "groups"} : OnClickTab(tab)
           \/ \E g \in Grantees : OnSelectionChange(g)
           \/ OnClickDeleteRole \/ OnClickViewRole \/ OnCancelRoleView \/ OnSubmitRoleView
    PROVE  ShareTyped'
<1>1. IsManage(manage) /\ RolesOf(manage.access)
  BY DEF ManageInv, FairManage, ShareTyped
<1>0. manage.modal \in {"none", "access", "role"} /\ allRoles \subseteq ShareRoles
  BY DEF ShareTyped
<1> DEFINE Fits(m) == /\ Managing(m) /\ RolesOf(m.access)
                      /\ m.modal \in {"none", "access", "role"}
<1>2. SUFFICES \E m : Fits(m)
  BY <1>2, ManagingTyped
<1>3. CASE CancelLoading \/ LocalCancelShare
  <2>1. Managing(Unmounted)
    BY <1>3 DEF CancelLoading, LocalCancelShare
  <2> QED BY <2>1, UnmountedTyped
<1>4. CASE OpenAccess
  <2>1. Fits([manage EXCEPT !.modal = "access"])
    BY <1>0, <1>1, <1>4 DEF IsManage, OpenAccess
  <2> QED BY <2>1
<1>9. CASE CloseModal
  <2>1. CASE Managing([manage EXCEPT !.modal = "access"])
    <3>1. Fits([manage EXCEPT !.modal = "access"])
      BY <1>0, <1>1, <2>1 DEF IsManage
    <3> QED BY <3>1
  <2>2. CASE Managing([manage EXCEPT !.modal = "none", !.tab = "users"])
    <3>1. Fits([manage EXCEPT !.modal = "none", !.tab = "users"])
      BY <1>0, <1>1, <2>2 DEF IsManage
    <3> QED BY <3>1
  <2> QED BY <1>9, <2>1, <2>2 DEF CloseModal
<1>11. CASE OnCancelRoleView
  <2>1. Fits([manage EXCEPT !.modal = "access", !.ticked = {}])
    BY <1>0, <1>1, <1>11 DEF IsManage, OnCancelRoleView
  <2> QED BY <2>1
<1>5. ASSUME NEW tab \in {"users", "groups"}, OnClickTab(tab) PROVE \E m : Fits(m)
  <2>1. Managing([manage EXCEPT !.tab = tab, !.ticked = {}])
    BY <1>5 DEF OnClickTab
  <2>2. Fits([manage EXCEPT !.tab = tab, !.ticked = {}])
    BY <1>0, <1>1, <2>1 DEF IsManage
  <2> QED BY <2>2
<1>6. ASSUME NEW g \in Grantees, OnSelectionChange(g) PROVE \E m : Fits(m)
  <2>1. PICK s : Managing([manage EXCEPT !.ticked = s])
    BY <1>6, Zenon DEF OnSelectionChange
  <2>2. Fits([manage EXCEPT !.ticked = s])
    BY <1>0, <1>1, <2>1 DEF IsManage
  <2> QED BY <2>2
<1>7. CASE OnClickDeleteRole
  <2> DEFINE access == [g \in DOMAIN manage.access \ Seen |-> manage.access[g]]
             m == [manage EXCEPT !.access = access, !.removed = @ \cup Seen, !.ticked = @ \ Seen]
  <2>1. Managing(m)
    BY <1>7 DEF OnClickDeleteRole
  <2>2. RolesOf(access)
    BY <1>1 DEF RolesOf
  <2>3. m.access = access /\ m.modal = manage.modal
    BY <1>1 DEF IsManage
  <2> HIDE DEF m, access
  <2> QED BY <1>0, <2>1, <2>2, <2>3
<1>8. CASE OnClickViewRole
  <2>1. PICK p : Managing([manage EXCEPT !.modal = "role", !.picker = p])
    BY <1>8 DEF OnClickViewRole
  <2>2. Fits([manage EXCEPT !.modal = "role", !.picker = p])
    BY <1>0, <1>1, <2>1 DEF IsManage
  <2> QED BY <2>2
<1>10. CASE OnSubmitRoleView
  <2> DEFINE access == [g \in DOMAIN manage.access \cup ChangedRows(manage) |->
                           IF g \in ChangedRows(manage) THEN manage.managed.roles \cap allRoles
                                                        ELSE manage.access[g]]
             m == [manage EXCEPT !.modal = "access", !.access = access, !.ticked = @ \ Users,
                                 !.managed = NotManaged]
  <2>1. Managing(m)
    BY <1>1, <1>10 DEF OnSubmitRoleView, IsManage, Managing
  <2>2. RolesOf(access)
    BY <1>0, <1>1 DEF RolesOf
  <2>3. m.access = access /\ m.modal = "access"
    BY <1>1 DEF IsManage
  <2> HIDE DEF m, access
  <2> QED BY <1>0, <2>1, <2>2, <2>3
<1> QED BY <1>3, <1>4, <1>5, <1>6, <1>7, <1>8, <1>9, <1>10, <1>11

LEMMA RolePickTyped == ManageInv /\ ShareTyped /\ OnRoleChanged => ShareTyped'
<1> SUFFICES ASSUME ManageInv, ShareTyped, OnRoleChanged PROVE ShareTyped'
  OBVIOUS
<1> DEFINE g == TheTicked
           led == Seen # {g}
<1>1. PICK roles :
        manage' = [manage EXCEPT !.managed = [id |-> {g}, roles |-> roles], !.picker = roles,
                            !.picked[g] = IF led THEN @ ELSE @ \cup roles,
                            !.misled = IF led THEN @ \cup {g} ELSE @]
  BY Zenon DEF OnRoleChanged
<1> HIDE DEF g, led
<1>2. manage'.access = manage.access /\ manage'.modal = manage.modal
  BY <1>1 DEF ManageInv, FairManage, IsManage
<1> QED BY <1>2 DEF OnRoleChanged, ShareTyped, RolesOf

LEMMA SaveTyped == ManageInv /\ ShareTyped /\ (LocalSubmitAccess \/ UpdateAnswered) => ShareTyped'
<1> SUFFICES ASSUME ManageInv, ShareTyped, LocalSubmitAccess \/ UpdateAnswered PROVE ShareTyped'
  OBVIOUS
<1>1. PICK S : updates \in Seq(S)
  BY DEF ManageInv
<1>2. CASE LocalSubmitAccess
  <2> DEFINE u == [sent |-> GetAccessData4BE, loaded |-> manage.loaded,
                   removed |-> manage.removed, picked |-> manage.picked, misled |-> manage.misled]
  <2>1. updates' = Append(updates, u) /\ UNCHANGED <<grants, details, allRoles, manage>>
    BY <1>2 DEF LocalSubmitAccess
  <2>2. RolesOf(u.sent)
    BY DEF ShareTyped, GetAccessData4BE
  <2> HIDE DEF u
  <2>3. \A k \in DOMAIN updates' : updates'[k] = u \/ (k \in DOMAIN updates /\ updates'[k] = updates[k])
    BY <1>1, <2>1
  <2>4. \A k \in DOMAIN updates' : RolesOf(updates'[k].sent)
    BY <2>2, <2>3 DEF ShareTyped
  <2> QED BY <2>1, <2>4 DEF ShareTyped, RolesOf
<1>3. CASE UpdateAnswered
  <2>1. updates # <<>> /\ updates' = Tail(updates) /\ manage' = Unmounted /\ UNCHANGED <<details, allRoles>>
    BY <1>3 DEF UpdateAnswered
  <2>2. RolesOf(Head(updates).sent) /\ DOMAIN Head(updates).sent \subseteq Grantees
    BY <1>1, <2>1 DEF ShareTyped, ManageInv, FairUpdate
  <2>3. DOMAIN grants' \subseteq Grantees /\ RolesOf(grants')
    BY <1>3, <2>2 DEF UpdateAnswered, ShareTyped, RolesOf
  <2>4. \A k \in DOMAIN updates' : RolesOf(updates'[k].sent)
    <3>1. \A k \in DOMAIN updates' : k + 1 \in DOMAIN updates /\ updates'[k] = updates[k + 1]
      BY <1>1, <2>1
    <3> QED BY <3>1 DEF ShareTyped
  <2> QED BY <2>1, <2>3, <2>4, UnmountedTyped DEF ShareTyped, RolesOf
<1> QED BY <1>2, <1>3

LEMMA ShareRowsTyped ==
    ASSUME ShareTyped, NEW to \in SUBSET Grantees, NEW roles \in SUBSET ShareRoles, LocalSubmitShare(to, roles)
    PROVE  ShareTyped'
<1>1. DOMAIN grants' \subseteq Grantees /\ RolesOf(grants')
  BY DEF LocalSubmitShare, ShareTyped, RolesOf
<1> QED BY <1>1, UnmountTyped DEF LocalSubmitShare

LEMMA CacheTyped == ShareTyped /\ (ExpireDetails \/ LoadRoles \/ UNCHANGED shareVars) => ShareTyped'
BY DEF ShareTyped, ExpireDetails, LoadRoles, shareVars, RolesOf, NoGrants

LEMMA ShareTypedNext == ManageInv /\ ShareTyped /\ [ShareNext]_shareVars => ShareTyped'
BY SelectTyped, DialogTyped, RolePickTyped, SaveTyped, ShareRowsTyped, CacheTyped DEF ShareNext

\* The roles the server keeps for a shared node are roles of the installation, and
\* the dialog that manages them never has two groups ticked, nor a user beside the
\* tab of the groups: of what getIDType may find, only a group left ticked beside a
\* ticked user of the tab of the users is a mix-up.
THEOREM ShareTypes == ShareSpec => []ShareTypeOK
<1>1. ManageInv /\ ShareTyped => ShareTypeOK
  BY DEF ManageInv, Ticks, ShareTyped, RolesOf, ShareTypeOK
<1> QED BY <1>1, ManageInit, ManageNext, ShareTypedInit, ShareTypedNext, PTL DEF ShareSpec

-----------------------------------------------------------------------------
(* The role dialogs: the tree's names and the server's *)

TreeFields == {"folder", "document", "document_download", "document_update", "document_page", "tag",
           "document_type", "shared_node", "user", "role", "group"}

LEMMA TreeFieldsAre == DOMAIN PermissionTree = TreeFields
BY DEF PermissionTree, TreeFields

LEMMA NotCategory ==
    ASSUME NEW n \in TreeNodes, n \notin SCOPE_TO_SKIP
    PROVE  \E f \in TreeFields : n \in PermissionTree[f]
BY TreeFieldsAre DEF TreeNodes, SCOPE_TO_SKIP

Sent(n) == PageManagementC2S(FolderDocumentNodeMap(n))
Back(n) == {PageManagementS2C(c) : c \in NodeFolderDocumentMap(Sent(n))}

LEMMA SentIsKnown ==
    ASSUME NEW f \in TreeFields, NEW n \in PermissionTree[f], n \notin SCOPE_TO_SKIP
    PROVE  Sent(n) \in ServerScopes
<1> USE DEF PermissionTree, Sent, FolderDocumentNodeMap, PageManagementC2S, ServerScopes
<1>1. CASE f = "folder"
  BY <1>1
<1>2. CASE f = "document"
  BY <1>2 DEF SCOPE_TO_SKIP
<1>3. CASE f = "document_download"
  BY <1>3
<1>4. CASE f = "document_update"
  BY <1>4
<1>5. CASE f = "document_page"
  BY <1>5
<1>6. CASE f = "tag"
  BY <1>6
<1>7. CASE f = "document_type"
  BY <1>7
<1>8. CASE f = "shared_node"
  BY <1>8
<1>9. CASE f \in {"user", "role", "group"}
  BY <1>9
<1> QED BY <1>1, <1>2, <1>3, <1>4, <1>5, <1>6, <1>7, <1>8, <1>9 DEF TreeFields

LEMMA InnerHaveChildren ==
    ASSUME NEW n \in Leaves
    PROVE  n \notin Inner /\ n \notin TreeFields
BY TreeFieldsAre DEF Leaves, Inner, ChildNodes, FieldOf, TreeFields, PermissionTree

LEMMA LeafIsSent ==
    ASSUME NEW n \in Leaves
    PROVE  n \in TreeNodes /\ n \notin SCOPE_TO_SKIP /\ LeavesOf(n) = {n}
<1>1. n \in TreeNodes /\ LeavesOf(n) = {n}
  BY DEF Leaves, LeavesOf
<1>2. n \notin SCOPE_TO_SKIP
  BY InnerHaveChildren, TreeFieldsAre DEF SCOPE_TO_SKIP, Categories, Inner
<1> QED BY <1>1, <1>2

LEMMA LeafComesBack ==
    ASSUME NEW n \in Leaves
    PROVE  n \in Back(n)
<1> USE DEF PermissionTree, Back, Sent, FolderDocumentNodeMap, PageManagementC2S,
            NodeFolderDocumentMap, PageManagementS2C
<1>0. PICK f \in TreeFields : n \in PermissionTree[f]
  BY LeafIsSent, NotCategory
<1>1. CASE f = "folder"
  BY <1>0, <1>1
<1>2. CASE f = "document"
  BY <1>0, <1>2, InnerHaveChildren DEF Inner
<1>3. CASE f = "document_download"
  BY <1>0, <1>3
<1>4. CASE f = "document_update"
  BY <1>0, <1>4
<1>5. CASE f = "document_page"
  BY <1>0, <1>5
<1>6. CASE f = "tag"
  BY <1>0, <1>6
<1>7. CASE f = "document_type"
  BY <1>0, <1>7
<1>8. CASE f = "shared_node"
  BY <1>0, <1>8
<1>9. CASE f = "user"
  BY <1>0, <1>9
<1>10. CASE f = "role"
  BY <1>0, <1>10
<1>11. CASE f = "group"
  BY <1>0, <1>11
<1> QED BY <1>1, <1>2, <1>3, <1>4, <1>5, <1>6, <1>7, <1>8, <1>9, <1>10, <1>11 DEF TreeFields

LEMMA ScopesKnown ==
    ASSUME NEW checked
    PROVE  Scopes(checked) \subseteq ServerScopes
<1>1. \A n \in CheckedNodes(checked) \ SCOPE_TO_SKIP : Sent(n) \in ServerScopes
  BY NotCategory, SentIsKnown DEF CheckedNodes
<1>2. "user.me" \in ServerScopes
  BY DEF ServerScopes
<1> QED BY <1>1, <1>2 DEF Scopes, Client2ServerPerms, Sent

LEMMA SavedComesBack ==
    ASSUME NEW checked \in SUBSET Leaves
    PROVE  checked \subseteq InitialChecked(Server2ClientPerms(Scopes(checked)))
<1> SUFFICES ASSUME NEW n \in checked PROVE n \in InitialChecked(Server2ClientPerms(Scopes(checked)))
  OBVIOUS
<1>1. n \in CheckedNodes(checked) \ SCOPE_TO_SKIP
  BY LeafIsSent DEF CheckedNodes
<1>2. Sent(n) \in Scopes(checked)
  BY <1>1 DEF Scopes, Client2ServerPerms, Sent
<1>3. n \in Server2ClientPerms(Scopes(checked))
  BY <1>2, LeafComesBack DEF Back, Server2ClientPerms
<1> QED BY <1>3, LeafIsSent DEF InitialChecked

\* the tree holds leaves only, and the server has of a role what was sent when it was saved
RoleInv ==
    /\ roleDialog = [opened |-> roleDialog.opened, checked |-> roleDialog.checked,
                     allChecked |-> roleDialog.allChecked]
    /\ roleDialog.checked \subseteq Leaves
    /\ lastSave # Unsaved => lastSave \subseteq Leaves /\ role = Scopes(lastSave)

LEMMA RoleInit == FormInit => RoleInv
BY DEF FormInit, RoleInv, Closed

LEMMA LeavesOfAreLeaves == \A n : LeavesOf(n) \subseteq Leaves
BY DEF LeavesOf

LEMMA RoleNext == RoleInv /\ [FormNext]_formVars => RoleInv'
<1> SUFFICES ASSUME RoleInv, [FormNext]_formVars PROVE RoleInv'
  OBVIOUS
<1>1. CASE FetchRole \/ UNCHANGED formVars
  BY <1>1 DEF FetchRole, formVars, RoleInv
<1>2. CASE OpenRoleDialog
  <2>1. \A perms : InitialChecked(perms) \subseteq Leaves
    BY LeavesOfAreLeaves DEF InitialChecked
  <2> QED BY <1>2, <2>1 DEF OpenRoleDialog, RoleInv, Closed
<1>3. ASSUME NEW n \in Clickable, Click(n) PROVE RoleInv'
  <2>1. AfterClick(n, roleDialog.checked) \subseteq Leaves
    BY LeavesOfAreLeaves DEF AfterClick, RoleInv
  <2> QED BY <1>3, <2>1 DEF Click, RoleInv
<1>4. CASE ToggleAll
  BY <1>4 DEF ToggleAll, RoleInv
<1>5. CASE SubmitRole
  <2>1. role' = Scopes(roleDialog.checked)
    BY <1>5, ScopesKnown DEF SubmitRole
  <2> QED BY <1>5, <2>1 DEF SubmitRole, RoleInv, Closed
<1>6. CASE CancelRole
  BY <1>6 DEF CancelRole, RoleInv, Closed
<1>7. CASE ChangeElsewhere
  BY <1>7 DEF ChangeElsewhere, RoleInv
<1> QED BY <1>1, <1>2, <1>3, <1>4, <1>5, <1>6, <1>7 DEF FormNext

\* What the administrator saw checked when a role was saved is checked again when
\* its dialog is opened on what the server stored: every leaf of the tree survives
\* client2serverPerms, the scopes the server keeps, and server2clientPerms,
\* whatever was clicked before and whatever others stored.
THEOREM SavedAreShown == FormSpec => []SavedIsShown
<1>1. RoleInv => SavedIsShown
  BY SavedComesBack DEF RoleInv, SavedIsShown
<1> QED BY <1>1, RoleInit, RoleNext, PTL DEF FormSpec

\* The server knows every scope that the dialog would send, whatever is checked.
THEOREM ScopesAreKnown == FormSpec => []EveryScopeKnown
<1>1. EveryScopeKnown
  BY ScopesKnown DEF EveryScopeKnown
<1> QED BY <1>1, PTL

\* what is stored and loaded of a role are scopes of the server
IsRole(r) == r = NoRole \/ r \subseteq ServerScopes
RoleDialogOf(d) == d \in [opened : BOOLEAN, checked : SUBSET Leaves, allChecked : BOOLEAN]
FormTyped ==
    /\ IsRole(role) /\ IsRole(fetched) /\ RoleDialogOf(roleDialog)
    /\ lastSave = Unsaved \/ lastSave \subseteq Leaves

LEMMA FormTypedIs == FormTyped <=> FormTypeOK
BY DEF FormTyped, FormTypeOK, IsRole, RoleDialogOf

LEMMA FormTypedInit == FormInit => FormTyped
<1> SUFFICES ASSUME FormInit PROVE FormTyped
  OBVIOUS
<1>1. IsRole(role) /\ IsRole(fetched)
  BY StoredAssumption DEF FormInit, IsRole
<1>2. RoleDialogOf(roleDialog)
  BY DEF FormInit, Closed, RoleDialogOf
<1> QED BY <1>1, <1>2 DEF FormInit, FormTyped

LEMMA RoleTypeNext == RoleInv /\ FormTyped /\ [FormNext]_formVars => FormTyped'
<1> SUFFICES ASSUME RoleInv, FormTyped, [FormNext]_formVars PROVE FormTyped'
  OBVIOUS
<1>3. RoleDialogOf(Closed)
  BY DEF RoleDialogOf, Closed
<1>4. CASE FetchRole \/ UNCHANGED formVars
  BY <1>4 DEF FetchRole, formVars, FormTyped
<1>5. CASE OpenRoleDialog
  <2>1. PICK checked : /\ roleDialog' = [Closed EXCEPT !.opened = TRUE, !.checked = checked]
                       /\ checked = IF fetched = NoRole THEN {} ELSE InitialChecked(Server2ClientPerms(fetched))
    BY <1>5 DEF OpenRoleDialog
  <2>2. checked \subseteq Leaves
    BY <2>1, LeavesOfAreLeaves DEF InitialChecked
  <2>3. RoleDialogOf(roleDialog')
    BY <2>1, <2>2 DEF RoleDialogOf, Closed
  <2> QED BY <1>5, <2>3 DEF OpenRoleDialog, FormTyped
<1>6. ASSUME NEW n \in Clickable, Click(n) PROVE FormTyped'
  <2>1. AfterClick(n, roleDialog.checked) \subseteq Leaves
    BY LeavesOfAreLeaves DEF AfterClick, RoleInv
  <2>2. RoleDialogOf(roleDialog')
    BY <1>6, <2>1 DEF Click, RoleDialogOf, FormTyped
  <2> QED BY <1>6, <2>2 DEF Click, FormTyped
<1>7. CASE ToggleAll
  <2>1. PICK checked \in SUBSET Leaves, all \in BOOLEAN :
           roleDialog' = [roleDialog EXCEPT !.checked = checked, !.allChecked = all]
    BY <1>7 DEF ToggleAll, RoleDialogOf, FormTyped
  <2>2. RoleDialogOf(roleDialog')
    BY <2>1 DEF RoleDialogOf, FormTyped
  <2> QED BY <1>7, <2>2 DEF ToggleAll, FormTyped
<1>8. CASE SubmitRole
  BY <1>3, <1>8 DEF SubmitRole, IsRole, RoleDialogOf, FormTyped
<1>9. CASE CancelRole
  BY <1>3, <1>9 DEF CancelRole, FormTyped
<1>10. CASE ChangeElsewhere
  BY <1>10, StoredAssumption DEF ChangeElsewhere, IsRole, FormTyped
<1> QED BY <1>4, <1>5, <1>6, <1>7, <1>8, <1>9, <1>10 DEF FormNext

\* A role holds scopes the server knows and the tree of its dialog checks leaves,
\* whatever is clicked, saved here and stored by others.
THEOREM FormTypes == FormSpec => []FormTypeOK
<1> QED BY FormTypedInit, FormTypedIs, RoleInit, RoleNext, RoleTypeNext, PTL DEF FormSpec

-----------------------------------------------------------------------------
(* The panels: every reducer of uiSlice takes good panels to good panels,  *)
(* and every action is a reducer or two, then perhaps the loader of a      *)
(* route.                                                                  *)

\* the fields of a panel the argument is about
Watched == {"component", "ctype", "node", "selected", "zoom", "columns", "lastHome", "lastInbox"}
IsPanel(r) == r = [f \in DOMAIN r |-> r[f]] /\ Watched \subseteq DOMAIN r

Components == {"none", "commander", "viewer", "searchResults", "sharedCommander", "sharedViewer"}
\* what a panel shows and what is ticked there, but for x; and what it remembers
GoodShown(component, ctype, node, selected, x) ==
    /\ component \in Components /\ node \in OwnNodes \cup {NoNode}
    /\ component = "viewer" => ctype = "document" /\ node \in OwnNodes
    /\ node # NoNode => ctype \in {"folder", "document"} /\ selected \cap OwnNodes \subseteq Children(node) \cup x
    /\ selected \subseteq OwnNodes \cup SharedNodes
GoodKept(zoom, types, lastHome, lastInbox) ==
    /\ zoom \in Nat /\ zoom > 25 /\ zoom < 300
    /\ types \subseteq DocTypes
    /\ lastHome \in OwnNodes \cup {NoNode} /\ lastInbox \in OwnNodes \cup {NoNode}

GoodPanel(r, x) ==
    /\ IsPanel(r)
    /\ GoodShown(r.component, r.ctype, r.node, r.selected, x)
    /\ GoodKept(r.zoom, DOMAIN r.columns, r.lastHome, r.lastInbox)

\* what may be ticked although it is not in the folder of the panel, before a step
\* and after it: what was ticked astray, and what the step ticks among other rows
Excepted(m) == astray[m] \cup (IF listing[m] # panels[m].node THEN OwnNodes \ panels[m].selected ELSE {})

IsPair(p) == p = [m \in Modes |-> p[m]]
Good(p) == IsPair(p) /\ \A m \in Modes : GoodPanel(p[m], Excepted(m))

\* addresses the interface navigates to
GoodUrl(u) ==
    /\ u.path \in {"folder", "document"} => u.id \in OwnNodes
    /\ u.path \in {"shared folder", "shared document"} => u.id \in SharedNodes \cup {SharedRootID}

\* a commander has rows of its own kind, or none
RowsFit(m) ==
    \/ listing[m] = NoNode
    \/ NodesShown(m) /\ listing[m] \in OwnNodes
    \/ SharedShown(m) /\ listing[m] \in SharedNodes \cup {SharedRootID}

PanelsInv ==
    /\ Good(panels) /\ GoodUrl(url)
    /\ shared.node \in SharedNodes \cup {SharedRootID, NoNode}
    /\ IsPair(listing) /\ astray \in [Modes -> SUBSET OwnNodes]
    /\ \A m \in Modes : RowsFit(m)

\* what a click leaves, before the rows are settled
GoodStep ==
    /\ Good(panels') /\ GoodUrl(url')
    /\ shared'.node \in SharedNodes \cup {SharedRootID, NoNode}

-----------------------------------------------------------------------------
(* The reducers *)

\* a field of a panel set
LEMMA FieldSet ==
    ASSUME NEW q, IsPanel(q), NEW f, NEW x
    PROVE  LET r == [q EXCEPT ![f] = x]
           IN  IsPanel(r) /\ \A g \in Watched : r[g] = IF g = f THEN x ELSE q[g]
BY DEF IsPanel

\* other fields of what a panel shows; other fields of what it remembers
SameKept(q, r) ==
    r.zoom = q.zoom /\ r.columns = q.columns /\ r.lastHome = q.lastHome /\ r.lastInbox = q.lastInbox
SameShown(q, r) ==
    r.component = q.component /\ r.ctype = q.ctype /\ r.node = q.node /\ r.selected = q.selected

LEMMA GoodPanelFrom ==
    ASSUME NEW x, NEW q, GoodPanel(q, x), NEW r, IsPanel(r),
           SameKept(q, r) \/ GoodKept(r.zoom, DOMAIN r.columns, r.lastHome, r.lastInbox),
           SameShown(q, r) \/ GoodShown(r.component, r.ctype, r.node, r.selected, x)
    PROVE  GoodPanel(r, x)
BY DEF GoodPanel, SameKept, SameShown

LEMMA PutGood ==
    ASSUME NEW p, Good(p), NEW m \in Modes, NEW r, GoodPanel(r, Excepted(m))
    PROVE  Good([p EXCEPT ![m] = r])
BY DEF Good, IsPair

LEMMA PanelIsGood ==
    ASSUME NEW p, Good(p), NEW m \in Modes
    PROVE  GoodPanel(p[m], Excepted(m))
BY DEF Good

\* a change of a field that GoodPanel does not look at
LEMMA OtherFieldGood ==
    ASSUME NEW p, Good(p), NEW m \in Modes, NEW f, NEW x,
           f \notin Watched
    PROVE  Good([p EXCEPT ![m] = [p[m] EXCEPT ![f] = x]])
<1> DEFINE r == [p[m] EXCEPT ![f] = x]
<1>0. GoodPanel(p[m], Excepted(m)) /\ IsPanel(p[m])
  BY PanelIsGood DEF GoodPanel
<1>3. IsPanel(r) /\ SameKept(p[m], r) /\ SameShown(p[m], r)
  BY <1>0, FieldSet DEF IsPanel, Watched, SameKept, SameShown
<1>1. GoodPanel(r, Excepted(m))
  BY <1>0, <1>3, GoodPanelFrom
<1> HIDE DEF r
<1>2. Good([p EXCEPT ![m] = r])
  BY <1>1, PutGood
<1> QED BY <1>2 DEF r

LEMMA CurrentNodeChangedGood ==
    ASSUME NEW p, Good(p), NEW m \in Modes, NEW n \in OwnNodes, NEW ctype, ctype \in {"folder", "document"}
    PROVE  Good(CurrentNodeChanged(p, m, n, ctype))
<1> DEFINE r == [p[m] EXCEPT !.node = n, !.ctype = ctype, !.selected = {},
                             !.component = IF ctype = "folder" THEN "commander" ELSE "viewer"]
<1>0. GoodPanel(p[m], Excepted(m)) /\ IsPanel(p[m])
  BY PanelIsGood DEF GoodPanel
<1>4. /\ IsPanel(r) /\ SameKept(p[m], r)
      /\ r.component = (IF ctype = "folder" THEN "commander" ELSE "viewer")
      /\ r.ctype = ctype /\ r.node = n /\ r.selected = {}
  BY <1>0 DEF IsPanel, Watched, SameKept
<1>1. GoodPanel(r, Excepted(m))
  <2> HIDE DEF r
  <2>1. GoodShown(r.component, r.ctype, r.node, r.selected, Excepted(m))
    BY <1>4 DEF GoodShown, Components
  <2> QED BY <1>0, <1>4, <2>1, GoodPanelFrom
<1>2. CurrentNodeChanged(p, m, n, ctype) = [p EXCEPT ![m] = r]
  BY DEF CurrentNodeChanged, Good, IsPair
<1> HIDE DEF r
<1>3. Good([p EXCEPT ![m] = r])
  BY <1>1, PutGood
<1> QED BY <1>2, <1>3

\* the second panel opens with a component and is told its node in the same step
LEMMA OpenedGood ==
    ASSUME NEW p, Good(p), NEW c, NEW n \in OwnNodes, NEW ctype, ctype \in {"folder", "document"}
    PROVE  Good(CurrentNodeChanged(SecondaryPanelOpened(p, c), "secondary", n, ctype))
<1> DEFINE q == [p["secondary"] EXCEPT !.component = c]
           r == [q EXCEPT !.node = n, !.ctype = ctype, !.selected = {},
                          !.component = IF ctype = "folder" THEN "commander" ELSE "viewer"]
<1>0. "secondary" \in Modes
  BY DEF Modes
<1>1. GoodPanel(p["secondary"], Excepted("secondary")) /\ IsPanel(p["secondary"])
  BY <1>0, PanelIsGood DEF GoodPanel
<1>6. IsPanel(q) /\ SameKept(p["secondary"], q)
  BY <1>1 DEF IsPanel, Watched, SameKept
<1>2. SecondaryPanelOpened(p, c) = [p EXCEPT !["secondary"] = q]
  BY <1>0 DEF SecondaryPanelOpened, Good, IsPair
<1> HIDE DEF q
<1>7. /\ IsPanel(r) /\ SameKept(q, r)
      /\ r.component = (IF ctype = "folder" THEN "commander" ELSE "viewer")
      /\ r.ctype = ctype /\ r.node = n /\ r.selected = {}
  BY <1>6 DEF IsPanel, Watched, SameKept
<1>3. GoodPanel(r, Excepted("secondary"))
  <2> HIDE DEF r
  <2>1. GoodShown(r.component, r.ctype, r.node, r.selected, Excepted("secondary"))
    BY <1>7 DEF GoodShown, Components
  <2>2. SameKept(p["secondary"], r)
    BY <1>6, <1>7 DEF SameKept
  <2> QED BY <1>1, <1>7, <2>1, <2>2, GoodPanelFrom
<1>4. CurrentNodeChanged([p EXCEPT !["secondary"] = q], "secondary", n, ctype) = [p EXCEPT !["secondary"] = r]
  BY <1>0 DEF CurrentNodeChanged, Good, IsPair
<1> HIDE DEF r
<1>5. Good([p EXCEPT !["secondary"] = r])
  BY <1>0, <1>3, PutGood
<1> QED BY <1>2, <1>4, <1>5, Zenon

LEMMA SwitchedToSearchGood ==
    ASSUME NEW p, Good(p)
    PROVE  Good(MainPanelSwitchedToSearchResults(p))
<1> DEFINE r == [p["main"] EXCEPT !.component = "searchResults", !.node = NoNode, !.ctype = "none"]
<1>0. "main" \in Modes
  BY DEF Modes
<1>4. GoodPanel(p["main"], Excepted("main")) /\ IsPanel(p["main"])
  BY <1>0, PanelIsGood DEF GoodPanel
<1>5. /\ IsPanel(r) /\ SameKept(p["main"], r)
      /\ r.component = "searchResults" /\ r.node = NoNode /\ r.selected = p["main"].selected
  BY <1>4 DEF IsPanel, Watched, SameKept
<1>1. GoodPanel(r, Excepted("main"))
  <2> HIDE DEF r
  <2>1. GoodShown(r.component, r.ctype, r.node, r.selected, Excepted("main"))
    BY <1>4, <1>5 DEF GoodPanel, GoodShown, Components
  <2> QED BY <1>4, <1>5, <2>1, GoodPanelFrom
<1>2. MainPanelSwitchedToSearchResults(p) = [p EXCEPT !["main"] = r]
  BY <1>0 DEF MainPanelSwitchedToSearchResults, Good, IsPair
<1> HIDE DEF r
<1>3. Good([p EXCEPT !["main"] = r])
  BY <1>0, <1>1, PutGood
<1> QED BY <1>2, <1>3

\* another component than the viewer in a panel
LEMMA ComponentGood ==
    ASSUME NEW p, Good(p), NEW m \in Modes, NEW c \in Components, c # "viewer"
    PROVE  Good([p EXCEPT ![m].component = c])
<1> DEFINE r == [p[m] EXCEPT !.component = c]
<1>4. GoodPanel(p[m], Excepted(m)) /\ IsPanel(p[m])
  BY PanelIsGood DEF GoodPanel
<1>5. /\ IsPanel(r) /\ SameKept(p[m], r) /\ r.component = c
      /\ r.ctype = p[m].ctype /\ r.node = p[m].node /\ r.selected = p[m].selected
  BY <1>4 DEF IsPanel, Watched, SameKept
<1>1. GoodPanel(r, Excepted(m))
  <2> HIDE DEF r
  <2>1. GoodShown(r.component, r.ctype, r.node, r.selected, Excepted(m))
    BY <1>4, <1>5 DEF GoodPanel, GoodShown
  <2> QED BY <1>4, <1>5, <2>1, GoodPanelFrom
<1>2. [p EXCEPT ![m].component = c] = [p EXCEPT ![m] = r]
  BY DEF Good, IsPair
<1> HIDE DEF r
<1>3. Good([p EXCEPT ![m] = r])
  BY <1>1, PutGood
<1> QED BY <1>2, <1>3

\* ticking nodes that are in the folder of the panel, excepted, or not the user's own
LEMMA TickGood ==
    ASSUME NEW p, Good(p), NEW m \in Modes, NEW S \in SUBSET (OwnNodes \cup SharedNodes),
           p[m].node # NoNode => S \cap OwnNodes \subseteq p[m].selected \cup Children(p[m].node) \cup Excepted(m)
    PROVE  Good([p EXCEPT ![m].selected = S])
<1> DEFINE r == [p[m] EXCEPT !.selected = S]
<1>4. GoodPanel(p[m], Excepted(m)) /\ IsPanel(p[m])
  BY PanelIsGood DEF GoodPanel
<1>5. /\ IsPanel(r) /\ SameKept(p[m], r) /\ r.selected = S
      /\ r.ctype = p[m].ctype /\ r.node = p[m].node /\ r.component = p[m].component
  BY <1>4 DEF IsPanel, Watched, SameKept
<1>1. GoodPanel(r, Excepted(m))
  <2> HIDE DEF r
  <2>1. GoodShown(r.component, r.ctype, r.node, r.selected, Excepted(m))
    BY <1>4, <1>5 DEF GoodPanel, GoodShown
  <2> QED BY <1>4, <1>5, <2>1, GoodPanelFrom
<1>2. [p EXCEPT ![m].selected = S] = [p EXCEPT ![m] = r]
  BY DEF Good, IsPair
<1> HIDE DEF r
<1>3. Good([p EXCEPT ![m] = r])
  BY <1>1, PutGood
<1> QED BY <1>2, <1>3

\* a field of what a panel remembers
LEMMA KeptFieldGood ==
    ASSUME NEW p, Good(p), NEW m \in Modes,
           NEW f \in {"zoom", "columns", "lastHome", "lastInbox"}, NEW x,
           f = "zoom" => x \in Nat /\ x > 25 /\ x < 300,
           f = "columns" => DOMAIN x \subseteq DocTypes,
           f \in {"lastHome", "lastInbox"} => x \in OwnNodes
    PROVE  Good([p EXCEPT ![m] = [p[m] EXCEPT ![f] = x]])
<1> DEFINE r == [p[m] EXCEPT ![f] = x]
<1>1. GoodPanel(p[m], Excepted(m)) /\ IsPanel(p[m])
  BY PanelIsGood DEF GoodPanel
<1>2. IsPanel(r) /\ \A g \in Watched : r[g] = IF g = f THEN x ELSE p[m][g]
  <2> DEFINE q == p[m]
             fields == DOMAIN q
  <2>1. q = [g \in fields |-> q[g]] /\ Watched \subseteq fields
    BY <1>1 DEF IsPanel
  <2>2. r = [q EXCEPT ![f] = x]
    OBVIOUS
  <2> HIDE DEF q, r
  <2>3. r = [g \in fields |-> IF g = f THEN x ELSE q[g]]
    BY <2>1, <2>2
  <2>4. DOMAIN r = fields /\ \A g \in fields : r[g] = IF g = f THEN x ELSE q[g]
    BY <2>3
  <2>5. IsPanel(r)
    BY <2>1, <2>3, <2>4 DEF IsPanel
  <2> QED BY <2>1, <2>4, <2>5 DEF q
<1> HIDE DEF r
<1>3. SameShown(p[m], r)
  BY <1>2 DEF SameShown, Watched
<1>4. /\ r.zoom = IF f = "zoom" THEN x ELSE p[m].zoom
      /\ r.columns = IF f = "columns" THEN x ELSE p[m].columns
      /\ r.lastHome = IF f = "lastHome" THEN x ELSE p[m].lastHome
      /\ r.lastInbox = IF f = "lastInbox" THEN x ELSE p[m].lastInbox
  BY <1>2 DEF Watched
<1>5. GoodKept(r.zoom, DOMAIN r.columns, r.lastHome, r.lastInbox)
  BY <1>1, <1>4 DEF GoodPanel, GoodKept
<1>6. GoodPanel(r, Excepted(m))
  BY <1>1, <1>2, <1>3, <1>5, GoodPanelFrom
<1> QED BY <1>6, PutGood DEF r

\* the reducers of such fields
LEMMA SettingsGood ==
    ASSUME NEW p, Good(p), NEW m \in Modes, NEW x
    PROVE  /\ Good(FilterUpdated(p, m, x))
           /\ Good(CommanderLastPageSizeUpdated(p, m, x))
           /\ Good(CommanderSortMenuColumnUpdated(p, m, x))
           /\ Good(CommanderSortMenuDirectionUpdated(p, m, x))
           /\ Good(ViewOptionUpdated(p, m, x))
           /\ Good(DocumentTypeIDUpdated(p, m, x))
           /\ Good(ViewerCurrentPageUpdated(p, m, x))
           /\ Good(CurrentDocVerUpdated(p, m, x))
           /\ Good(ViewerSelectionPageAdded(p, m, x))
           /\ Good(ViewerSelectionPageRemoved(p, m, x))
<1>1. Good(FilterUpdated(p, m, x))
  <2>1. Good([p EXCEPT ![m] = [p[m] EXCEPT !["filter"] = x]])
    BY OtherFieldGood DEF Watched
  <2>2. FilterUpdated(p, m, x) = [p EXCEPT ![m] = [p[m] EXCEPT !["filter"] = x]]
    BY DEF FilterUpdated, Good, IsPair
  <2> QED BY <2>1, <2>2, Zenon
<1>2. Good(CommanderLastPageSizeUpdated(p, m, x))
  <2>1. Good([p EXCEPT ![m] = [p[m] EXCEPT !["size"] = x]])
    BY OtherFieldGood DEF Watched
  <2>2. CommanderLastPageSizeUpdated(p, m, x) = [p EXCEPT ![m] = [p[m] EXCEPT !["size"] = x]]
    BY DEF CommanderLastPageSizeUpdated, Good, IsPair
  <2> QED BY <2>1, <2>2, Zenon
<1>3. Good(CommanderSortMenuColumnUpdated(p, m, x))
  <2>1. Good([p EXCEPT ![m] = [p[m] EXCEPT !["sortColumn"] = x]])
    BY OtherFieldGood DEF Watched
  <2>2. CommanderSortMenuColumnUpdated(p, m, x) = [p EXCEPT ![m] = [p[m] EXCEPT !["sortColumn"] = x]]
    BY DEF CommanderSortMenuColumnUpdated, Good, IsPair
  <2> QED BY <2>1, <2>2, Zenon
<1>4. Good(CommanderSortMenuDirectionUpdated(p, m, x))
  <2>1. Good([p EXCEPT ![m] = [p[m] EXCEPT !["sortDir"] = x]])
    BY OtherFieldGood DEF Watched
  <2>2. CommanderSortMenuDirectionUpdated(p, m, x) = [p EXCEPT ![m] = [p[m] EXCEPT !["sortDir"] = x]]
    BY DEF CommanderSortMenuDirectionUpdated, Good, IsPair
  <2> QED BY <2>1, <2>2, Zenon
<1>5. Good(ViewOptionUpdated(p, m, x))
  <2>1. Good([p EXCEPT ![m] = [p[m] EXCEPT !["view"] = x]])
    BY OtherFieldGood DEF Watched
  <2>2. ViewOptionUpdated(p, m, x) = [p EXCEPT ![m] = [p[m] EXCEPT !["view"] = x]]
    BY DEF ViewOptionUpdated, Good, IsPair
  <2> QED BY <2>1, <2>2, Zenon
<1>6. Good(DocumentTypeIDUpdated(p, m, x))
  <2>1. Good([p EXCEPT ![m] = [p[m] EXCEPT !["docType"] = x]])
    BY OtherFieldGood DEF Watched
  <2>2. DocumentTypeIDUpdated(p, m, x) = [p EXCEPT ![m] = [p[m] EXCEPT !["docType"] = x]]
    BY DEF DocumentTypeIDUpdated, Good, IsPair
  <2> QED BY <2>1, <2>2, Zenon
<1>9. Good(ViewerCurrentPageUpdated(p, m, x))
  <2>1. Good([p EXCEPT ![m] = [p[m] EXCEPT !["page"] = x]])
    BY OtherFieldGood DEF Watched
  <2>2. ViewerCurrentPageUpdated(p, m, x) = [p EXCEPT ![m] = [p[m] EXCEPT !["page"] = x]]
    BY DEF ViewerCurrentPageUpdated, Good, IsPair
  <2> QED BY <2>1, <2>2, Zenon
<1>10. Good(CurrentDocVerUpdated(p, m, x))
  <2>1. Good([p EXCEPT ![m] = [p[m] EXCEPT !["docVer"] = x]])
    BY OtherFieldGood DEF Watched
  <2>2. CurrentDocVerUpdated(p, m, x) = [p EXCEPT ![m] = [p[m] EXCEPT !["docVer"] = x]]
    BY DEF CurrentDocVerUpdated, Good, IsPair
  <2> QED BY <2>1, <2>2, Zenon
<1>11. Good(ViewerSelectionPageAdded(p, m, x))
  <2>1. Good([p EXCEPT ![m] = [p[m] EXCEPT !["pages"] = p[m].pages \cup {x}]])
    BY OtherFieldGood DEF Watched
  <2>2. ViewerSelectionPageAdded(p, m, x) = [p EXCEPT ![m] = [p[m] EXCEPT !["pages"] = p[m].pages \cup {x}]]
    BY DEF ViewerSelectionPageAdded, Good, IsPair
  <2> QED BY <2>1, <2>2, Zenon
<1>12. Good(ViewerSelectionPageRemoved(p, m, x))
  <2>1. Good([p EXCEPT ![m] = [p[m] EXCEPT !["pages"] = p[m].pages \ {x}]])
    BY OtherFieldGood DEF Watched
  <2>2. ViewerSelectionPageRemoved(p, m, x) = [p EXCEPT ![m] = [p[m] EXCEPT !["pages"] = p[m].pages \ {x}]]
    BY DEF ViewerSelectionPageRemoved, Good, IsPair
  <2> QED BY <2>1, <2>2, Zenon
<1> QED BY <1>1, <1>2, <1>3, <1>4, <1>5, <1>6, <1>9, <1>10, <1>11, <1>12

\* a root of the user's is remembered
LEMMA LastRootGood ==
    ASSUME NEW p, Good(p), NEW m \in Modes, NEW n \in OwnNodes
    PROVE  Good(LastHomeUpdated(p, m, n)) /\ Good(LastInboxUpdated(p, m, n))
<1>1. Good([p EXCEPT ![m] = [p[m] EXCEPT !["lastHome"] = n]])
  BY KeptFieldGood
<1>2. Good([p EXCEPT ![m] = [p[m] EXCEPT !["lastInbox"] = n]])
  BY KeptFieldGood
<1>3. /\ LastHomeUpdated(p, m, n) = [p EXCEPT ![m] = [p[m] EXCEPT !["lastHome"] = n]]
      /\ LastInboxUpdated(p, m, n) = [p EXCEPT ![m] = [p[m] EXCEPT !["lastInbox"] = n]]
  BY DEF LastHomeUpdated, LastInboxUpdated, Good, IsPair
<1> QED BY <1>1, <1>2, <1>3, Zenon

LEMMA ZoomGood ==
    ASSUME NEW p, Good(p), NEW m \in Modes
    PROVE  /\ Good(ZoomFactorIncremented(p, m))
           /\ Good(ZoomFactorDecremented(p, m))
           /\ Good(ZoomFactorReseted(p, m))
<1> DEFINE z == p[m].zoom
           Zoomed(x) == [p EXCEPT ![m] = [p[m] EXCEPT !["zoom"] = x]]
           up == IF z + 10 < 300 THEN z + 10 ELSE z
           down == IF z - 10 > 25 THEN z - 10 ELSE z
<1>1. z \in Nat /\ z > 25 /\ z < 300
  BY PanelIsGood DEF GoodPanel, GoodKept
<1>2. ASSUME NEW x \in Nat, x > 25, x < 300 PROVE Good(Zoomed(x))
  BY <1>2, KeptFieldGood
<1>3. /\ ZoomFactorIncremented(p, m) = Zoomed(up)
      /\ ZoomFactorDecremented(p, m) = Zoomed(down)
      /\ ZoomFactorReseted(p, m) = Zoomed(100)
  BY DEF ZoomFactorIncremented, ZoomFactorDecremented, ZoomFactorReseted, Good, IsPair
<1>4. up \in Nat /\ up > 25 /\ up < 300 /\ down \in Nat /\ down > 25 /\ down < 300
  BY <1>1
<1> HIDE DEF z, up, down, Zoomed
<1>5. Good(Zoomed(up)) /\ Good(Zoomed(down)) /\ Good(Zoomed(100))
  BY <1>2, <1>4
<1> QED BY <1>3, <1>5, Zenon

LEMMA ColumnsGood ==
    ASSUME NEW p, Good(p), NEW m \in Modes
    PROVE  /\ \A t \in DocTypes : Good(ColumnsUpdated(p, m, t))
           /\ \A f : \A v \in BOOLEAN : Good(ColumnToggled(p, m, f, v))
<1>1. ASSUME NEW x, DOMAIN x \subseteq DocTypes
      PROVE  Good([p EXCEPT ![m] = [p[m] EXCEPT !["columns"] = x]])
  BY <1>1, KeptFieldGood
<1>2. DOMAIN p[m].columns \subseteq DocTypes
  BY PanelIsGood DEF GoodPanel, GoodKept
<1>3. ASSUME NEW t \in DocTypes PROVE Good(ColumnsUpdated(p, m, t))
  <2> DEFINE x == [u \in DOMAIN p[m].columns \cup {t} |-> IF u = t THEN Fields ELSE p[m].columns[u]]
  <2>1. DOMAIN x \subseteq DocTypes
    BY <1>2
  <2>2. ColumnsUpdated(p, m, t) = [p EXCEPT ![m] = [p[m] EXCEPT !["columns"] = x]]
    BY DEF ColumnsUpdated, Good, IsPair
  <2> HIDE DEF x
  <2>3. Good([p EXCEPT ![m] = [p[m] EXCEPT !["columns"] = x]])
    BY <2>1, <1>1
  <2> QED BY <2>2, <2>3, Zenon
<1>4. ASSUME NEW f, NEW v \in BOOLEAN PROVE Good(ColumnToggled(p, m, f, v))
  <2> DEFINE c == p[m].columns[p[m].docType]
             x == [p[m].columns EXCEPT ![p[m].docType] = IF v THEN c \cup {f} ELSE c \ {f}]
  <2>1. DOMAIN x \subseteq DocTypes
    BY <1>2
  <2>2. ColumnToggled(p, m, f, v) = [p EXCEPT ![m] = [p[m] EXCEPT !["columns"] = x]]
    BY DEF ColumnToggled, Good, IsPair
  <2> HIDE DEF x
  <2>3. Good([p EXCEPT ![m] = [p[m] EXCEPT !["columns"] = x]])
    BY <2>1, <1>1
  <2> QED BY <2>2, <2>3, Zenon
<1> QED BY <1>3, <1>4

LEMMA PartsGood ==
    ASSUME NEW p, Good(p), NEW m \in Modes
    PROVE  Good([p EXCEPT ![m].thumbnails = ~@]) /\ Good([p EXCEPT ![m].details = ~@])
<1>1. Good([p EXCEPT ![m].thumbnails = ~@])
  <2>1. Good([p EXCEPT ![m] = [p[m] EXCEPT !["thumbnails"] = ~p[m].thumbnails]])
    BY OtherFieldGood DEF Watched
  <2>2. [p EXCEPT ![m].thumbnails = ~@] = [p EXCEPT ![m] = [p[m] EXCEPT !["thumbnails"] = ~p[m].thumbnails]]
    BY DEF Good, IsPair
  <2> QED BY <2>1, <2>2, Zenon
<1>2. Good([p EXCEPT ![m].details = ~@])
  <2>1. Good([p EXCEPT ![m] = [p[m] EXCEPT !["details"] = ~p[m].details]])
    BY OtherFieldGood DEF Watched
  <2>2. [p EXCEPT ![m].details = ~@] = [p EXCEPT ![m] = [p[m] EXCEPT !["details"] = ~p[m].details]]
    BY DEF Good, IsPair
  <2> QED BY <2>1, <2>2, Zenon
<1> QED BY <1>1, <1>2

-----------------------------------------------------------------------------
(* The loaders of the routes *)

LEMMA LoadedGood ==
    ASSUME NEW p, Good(p), NEW u, GoodUrl(u)
    PROVE  Good(Loaded(p, u))
<1>0. "main" \in Modes
  BY DEF Modes
<1>1. CASE u.path = "folder"
  BY <1>0, <1>1, CurrentNodeChangedGood DEF Loaded, FolderLoader, GoodUrl
<1>2. CASE u.path = "document"
  BY <1>0, <1>2, CurrentNodeChangedGood DEF Loaded, DocumentLoader, GoodUrl
<1>3. CASE u.path = "category"
  <2> DEFINE q == IF u.id = NoNode THEN p ELSE DocumentTypeIDUpdated(p, "main", u.id)
  <2>1. Good(q)
    BY <1>0, SettingsGood
  <2> HIDE DEF q
  <2>2. Good(MainPanelComponentUpdated(q, "commander"))
    BY <1>0, <2>1, ComponentGood DEF MainPanelComponentUpdated, Components
  <2>3. Good(CategoryLoader(p, u.id))
    BY <1>0, <2>2, SettingsGood DEF CategoryLoader, q
  <2> QED BY <1>3, <2>3 DEF Loaded
<1>4. CASE u.path = "shared folder"
  BY <1>0, <1>4, ComponentGood DEF Loaded, SharedFolderLoader, MainPanelComponentUpdated, Components
<1>5. CASE u.path = "shared document"
  BY <1>0, <1>5, ComponentGood DEF Loaded, SharedDocumentLoader, MainPanelComponentUpdated, Components
<1>6. CASE u.path \notin {"folder", "document", "category", "shared folder", "shared document"}
  BY <1>6 DEF Loaded
<1> QED BY <1>1, <1>2, <1>3, <1>4, <1>5, <1>6

LEMMA FirstGood ==
    ASSUME NEW c
    PROVE  Good([m \in Modes |-> FirstPanel(c[m])])
<1>1. ASSUME NEW k, NEW x PROVE GoodPanel(FirstPanel(k), x)
  <2> DEFINE r == FirstPanel(k)
  <2>1. /\ IsPanel(r) /\ r.component = "none" /\ r.node = NoNode /\ r.selected = {} /\ r.zoom = 100
        /\ DOMAIN r.columns = {} /\ r.lastHome = NoNode /\ r.lastInbox = NoNode
    BY DEF FirstPanel, IsPanel, Watched
  <2> HIDE DEF r
  <2>2. GoodShown(r.component, r.ctype, r.node, r.selected, x)
    BY <2>1 DEF GoodShown, Components
  <2>3. GoodKept(r.zoom, DOMAIN r.columns, r.lastHome, r.lastInbox)
    BY <2>1 DEF GoodKept
  <2> QED BY <2>1, <2>2, <2>3 DEF GoodPanel, r
<1> QED BY <1>1 DEF Good, IsPair

-----------------------------------------------------------------------------
(* The actions *)

LEMMA SameAddress ==
    ASSUME PanelsInv, Good(panels'), UNCHANGED <<url, shared>>
    PROVE  GoodStep
BY DEF PanelsInv, GoodStep

LEMMA NavigateGood ==
    ASSUME PanelsInv, NEW p, Good(p), NEW u, GoodUrl(u), NEW r, Navigate(p, u, r)
    PROVE  GoodStep
<1>1. Good(panels') /\ GoodUrl(url')
  BY LoadedGood DEF Navigate
<1>2. shared'.node \in SharedNodes \cup {SharedRootID, NoNode}
  BY DEF Navigate, PanelsInv, GoodUrl
<1> QED BY <1>1, <1>2 DEF GoodStep

LEMMA DispatchGood ==
    ASSUME PanelsInv, NEW p, Good(p), Dispatch(p)
    PROVE  GoodStep
BY SameAddress DEF Dispatch

LEMMA RootsAreOwn == Roots \subseteq OwnNodes /\ OwnHome \in OwnNodes /\ OwnInbox \in OwnNodes
BY PanelsAssumption DEF Roots

LEMMA UrlOfNode == \A n \in OwnNodes : GoodUrl(Url("folder", n)) /\ GoodUrl(Url("document", n))
BY DEF GoodUrl, Url

LEMMA UrlOfShared ==
    \A n \in SharedNodes \cup {SharedRootID} : GoodUrl(Url("shared folder", n)) /\ GoodUrl(Url("shared document", n))
BY DEF GoodUrl, Url

LEMMA OtherUrl == \A id : GoodUrl(Url("category", id)) /\ GoodUrl(Url("dashboard", id)) /\ GoodUrl(Url("admin", id))
BY DEF GoodUrl, Url

LEMMA GoToGood ==
    ASSUME PanelsInv, NEW m \in Modes, NEW p, Good(p), NEW n \in OwnNodes, GoTo(m, p, n)
    PROVE  GoodStep
<1>1. CTypeOf(n) \in {"folder", "document"}
  BY DEF CTypeOf
<1>2. CASE m = "secondary"
  <2>1. Good(CurrentNodeChanged(p, m, n, CTypeOf(n)))
    BY <1>1, CurrentNodeChangedGood
  <2> QED BY <1>2, <2>1, DispatchGood DEF GoTo
<1>3. CASE m # "secondary"
  <2> DEFINE q == IF CTypeOf(n) = "folder" THEN CurrentDocVerUpdated(p, m, NoNode) ELSE p
  <2>1. Good(q)
    BY SettingsGood
  <2>2. Navigate(q, Url(CTypeOf(n), n), shared.root)
    BY <1>3 DEF GoTo
  <2>3. GoodUrl(Url(CTypeOf(n), n))
    BY <1>1, UrlOfNode
  <2> HIDE DEF q
  <2> QED BY <2>1, <2>2, <2>3, NavigateGood
<1> QED BY <1>2, <1>3

\* a list of nodes and a viewer have a node, of a known type
LEMMA ShownHasNode ==
    ASSUME PanelsInv, NEW m \in Modes, NodesShown(m) \/ Shows(m, "viewer")
    PROVE  panels[m].node \in OwnNodes /\ panels[m].ctype \in {"folder", "document"}
BY PanelIsGood DEF NodesShown, Shows, GoodPanel, GoodShown, PanelsInv

LEMMA ClickNodeGood == ASSUME PanelsInv, NEW m \in Modes, ClickNode(m) PROVE GoodStep
BY GoToGood DEF ClickNode, Children, PanelsInv

LEMMA ClickBreadcrumbGood == ASSUME PanelsInv, NEW m \in Modes, ClickBreadcrumb(m) PROVE GoodStep
<1>0. PICK place \in {panels[m].node} \cup (IF NodesShown(m) THEN {listing[m]} ELSE {}) :
          LET up == ParentOf[place]
          IN  \/ up \notin Roots /\ GoTo(m, panels, up)
              \/ \E n \in Roots : GoTo(m, RootClicked(m, IF up \in Roots THEN up ELSE ParentOf[up], n), n)
  BY DEF ClickBreadcrumb
<1> DEFINE up == ParentOf[place]
           root == IF up \in Roots THEN up ELSE ParentOf[up]
<1>1. up \in OwnNodes /\ Good(panels)
  <2>1. RowsShown(m) \/ Shows(m, "viewer")
    BY DEF ClickBreadcrumb
  <2>2. panels[m].node \in OwnNodes
    BY <2>1, ShownHasNode DEF RowsShown
  <2>3. NodesShown(m) => listing[m] \in OwnNodes
    BY <2>1 DEF PanelsInv, RowsFit, RowsShown, HasRows, NodesShown, SharedShown, Shows
  <2> QED BY <1>0, <2>2, <2>3, PanelsAssumption DEF PanelsInv
<1>2. CASE GoTo(m, panels, up)
  BY <1>1, <1>2, GoToGood
<1>3. CASE \E n \in Roots : GoTo(m, RootClicked(m, root, n), n)
  <2>1. PICK n \in Roots : GoTo(m, RootClicked(m, root, n), n)
    BY <1>3
  <2>2. Good(RootClicked(m, root, n)) /\ n \in OwnNodes
    BY <1>1, LastRootGood, RootsAreOwn DEF RootClicked
  <2> QED BY <2>1, <2>2, GoToGood
<1> QED BY <1>0, <1>2, <1>3

LEMMA ClickNavLinkGood == ASSUME PanelsInv, ClickNavLink PROVE GoodStep
<1>1. Good(OnNavClick(panels)) /\ Good(panels)
  BY SettingsGood DEF OnNavClick, Modes, PanelsInv
<1>2. GoodPanel(panels["main"], Excepted("main"))
  BY <1>1, PanelIsGood DEF Modes
<1>3. ASSUME NEW u \in NavTargets PROVE GoodUrl(u)
  BY <1>2, RootsAreOwn, UrlOfNode, UrlOfShared, OtherUrl DEF NavTargets, NavBarFull, NavBarCollapsed, GoodPanel, GoodKept
<1> QED BY <1>1, <1>3, OtherUrl, NavigateGood DEF ClickNavLink

LEMMA OpenSecondaryGood == ASSUME PanelsInv, OpenSecondary PROVE GoodStep
<1> DEFINE main == panels["main"]
           n == IF main.node = NoNode THEN OwnHome ELSE main.node
           ctype == IF main.node = NoNode THEN "folder" ELSE main.ctype
           c == IF main.ctype = "folder" THEN "commander" ELSE "viewer"
           opened == SecondaryPanelOpened(panels, c)
<1>1. "main" \in Modes /\ "secondary" \in Modes /\ Good(panels)
  BY DEF Modes, PanelsInv
<1>2. GoodPanel(main, Excepted("main"))
  BY <1>1, PanelIsGood
<1>3. ctype \in {"folder", "document"} /\ n \in OwnNodes
  BY <1>2, RootsAreOwn DEF GoodPanel, GoodShown
<1>4. Dispatch(CurrentNodeChanged(opened, "secondary", n, ctype))
  BY DEF OpenSecondary
<1> HIDE DEF n, ctype, c
<1>5. Good(CurrentNodeChanged(opened, "secondary", n, ctype))
  BY <1>1, <1>3, OpenedGood
<1> QED BY <1>4, <1>5, DispatchGood

LEMMA CloseSecondaryGood == ASSUME PanelsInv, CloseSecondary PROVE GoodStep
<1>1. Good(SecondaryPanelClosed(panels))
  BY ComponentGood DEF SecondaryPanelClosed, Modes, PanelsInv, Components
<1> QED BY <1>1, DispatchGood DEF CloseSecondary

LEMMA DuplicatePanelGood == ASSUME PanelsInv, NEW m \in Modes, DuplicatePanel(m) PROVE GoodStep
<1>1. panels[m].ctype \in {"folder", "document"} /\ panels[m].node \in OwnNodes /\ Good(panels)
  BY ShownHasNode DEF DuplicatePanel, RowsShown, PanelsInv
<1>2. Good(CurrentNodeChanged(panels, "secondary", panels[m].node, panels[m].ctype))
  BY <1>1, CurrentNodeChangedGood DEF Modes
<1>3. GoodUrl(Url(panels[m].ctype, panels[m].node))
  BY <1>1, UrlOfNode
<1> QED BY <1>1, <1>2, <1>3, DispatchGood, NavigateGood DEF DuplicatePanel

LEMMA SearchGood ==
    ASSUME PanelsInv, SearchEntered \/ GoBack \/ SearchResultItemTargetUpdated
    PROVE  GoodStep
<1>1. Good(panels)
  BY DEF PanelsInv
<1>2. CASE SearchEntered
  <2>1. Good(panels')
    BY <1>1, <1>2, SwitchedToSearchGood DEF SearchEntered
  <2> QED BY <1>2, <2>1, SameAddress DEF SearchEntered
<1>3. CASE GoBack
  BY <1>1, <1>3, RootsAreOwn, UrlOfNode, NavigateGood DEF GoBack
<1>4. CASE SearchResultItemTargetUpdated
  BY <1>1, <1>4, SameAddress DEF SearchResultItemTargetUpdated
<1> QED BY <1>2, <1>3, <1>4

LEMMA ClickResultGood == ASSUME PanelsInv, ClickResult PROVE GoodStep
<1>1. ASSUME NEW m \in Modes, NEW n \in OwnNodes, NEW ctype, ctype \in {"folder", "document"},
             OnResultClick(m, n, ctype)
      PROVE  GoodStep
  <2> DEFINE p == CurrentNodeChanged(panels, m, n, ctype)
  <2>1. Good(p)
    BY <1>1, CurrentNodeChangedGood DEF PanelsInv
  <2>2. Dispatch(IF ctype = "document" THEN ViewerCurrentPageUpdated(p, m, 1) ELSE p)
    BY <1>1 DEF OnResultClick
  <2> HIDE DEF p
  <2>3. Good(ViewerCurrentPageUpdated(p, m, 1))
    BY <2>1, SettingsGood
  <2> QED BY <2>1, <2>2, <2>3, DispatchGood
<1> DEFINE m == IF search.other THEN "secondary" ELSE "main"
<1>2. m \in Modes
  BY DEF Modes
<1>3. PICK n \in OwnNodes, ctype \in {"folder", "document"} : OnResultClick(m, n, ctype)
  BY DEF ClickResult, CTypeOf
<1> HIDE DEF m
<1> QED BY <1>1, <1>2, <1>3

LEMMA ByTypeGood ==
    ASSUME PanelsInv, NEW m \in Modes,
           PickDocumentType(m) \/ DocsByTypeLoaded(m) \/ ToggleColumn(m) \/ ClickRow(m)
    PROVE  GoodStep
<1>0. Good(panels)
  BY DEF PanelsInv
<1>1. CASE PickDocumentType(m)
  BY <1>0, <1>1, SettingsGood, OtherUrl, NavigateGood DEF PickDocumentType
<1>2. CASE DocsByTypeLoaded(m)
  <2>1. Good(ColumnsUpdated(panels, m, panels[m].docType))
    BY <1>0, <1>2, ColumnsGood DEF DocsByTypeLoaded
  <2> QED BY <1>2, <2>1, DispatchGood DEF DocsByTypeLoaded
<1>3. CASE ToggleColumn(m)
  <2>1. PICK f : Dispatch(ColumnToggled(panels, m, f, f \notin VisibleColumns(m)))
    BY <1>3 DEF ToggleColumn
  <2>2. Good(ColumnToggled(panels, m, f, f \notin VisibleColumns(m)))
    BY <1>0, ColumnsGood
  <2> QED BY <2>1, <2>2, DispatchGood
<1>4. CASE ClickRow(m)
  <2>1. PICK n \in OwnDocuments : \/ Dispatch(CurrentNodeChanged(panels, "secondary", n, "document"))
                                  \/ Navigate(panels, Url("document", n), shared.root)
    BY <1>4 DEF ClickRow
  <2>2. n \in OwnNodes
    BY PanelsAssumption
  <2>3. Good(CurrentNodeChanged(panels, "secondary", n, "document"))
    BY <1>0, <2>2, CurrentNodeChangedGood DEF Modes
  <2> QED BY <1>0, <2>1, <2>2, <2>3, UrlOfNode, DispatchGood, NavigateGood
<1> QED BY <1>1, <1>2, <1>3, <1>4

LEMMA ClickSharedGood == ASSUME PanelsInv, ClickShared PROVE GoodStep
<1>1. Good(panels) /\ Good(CurrentDocVerUpdated(panels, "main", NoNode))
  BY SettingsGood DEF Modes, PanelsInv
<1> DEFINE shown == IF SharedShown("main") THEN SharedListed(listing["main"]) ELSE {}
           from == {shared.node} \cup (IF SharedShown("main") THEN {listing["main"]} ELSE {})
<1>2. \A n \in shown \cup {SharedParent[s] : s \in from \cap SharedNodes} : n \in SharedNodes
  BY PanelsAssumption DEF SharedListed
<1>3. PICK p, u, r : Good(p) /\ GoodUrl(u) /\ Navigate(p, u, r)
  BY <1>1, <1>2, UrlOfShared DEF ClickShared
<1> QED BY <1>3, NavigateGood

\* the list of own nodes ticks children of the folder it has the rows of, that of
\* shared ones nodes of others
LEMMA CheckNodeGood == ASSUME PanelsInv, NEW m \in Modes, CheckNode(m) PROVE GoodStep
<1>0. Good(panels) /\ panels[m].selected \subseteq OwnNodes \cup SharedNodes
  BY PanelIsGood DEF PanelsInv, GoodPanel, GoodShown
<1>1. PICK n : /\ Dispatch(OnCheck(m, n))
               /\ n \in OwnNodes => n \in panels[m].selected \cup Children(panels[m].node) \cup Excepted(m)
               /\ n \in OwnNodes \cup SharedNodes
  <2>1. PICK n : /\ Dispatch(OnCheck(m, n))
                 /\ n \in Children(listing[m]) \/ n \in SharedListed(listing[m])
    BY DEF CheckNode
  <2>2. n \in SharedListed(listing[m]) => n \in SharedNodes /\ n \notin OwnNodes
    BY PanelsAssumption DEF SharedListed
  <2>3. n \in Children(listing[m]) => /\ n \in OwnNodes
                                     /\ n \in panels[m].selected \cup Children(panels[m].node) \cup Excepted(m)
    BY DEF Children, Excepted
  <2> QED BY <2>1, <2>2, <2>3
<1>2. CASE n \in panels[m].selected
  <2>1. Good(CommanderSelectionNodeRemoved(panels, m, n))
    <3>1. Good([panels EXCEPT ![m].selected = panels[m].selected \ {n}])
      BY <1>0, TickGood
    <3> QED BY <3>1 DEF CommanderSelectionNodeRemoved
  <2> QED BY <1>1, <1>2, <2>1, DispatchGood DEF OnCheck
<1>3. CASE n \notin panels[m].selected
  <2>1. Good(CommanderSelectionNodeAdded(panels, m, n))
    <3>1. Good([panels EXCEPT ![m].selected = panels[m].selected \cup {n}])
      BY <1>0, <1>1, TickGood
    <3> QED BY <3>1 DEF CommanderSelectionNodeAdded
  <2> QED BY <1>1, <1>3, <2>1, DispatchGood DEF OnCheck
<1> QED BY <1>2, <1>3

LEMMA SettingsActionGood ==
    ASSUME PanelsInv, NEW m \in Modes, ChangeCommander(m) \/ ChangeViewer(m) \/ TogglePart(m)
    PROVE  GoodStep
<1>0. Good(panels)
  BY DEF PanelsInv
<1>1. CASE ChangeCommander(m)
  <2>1. PICK p \in SortMenu(m) \cup ViewOptionsMenu(m) \cup QuickFilter(m) \cup OnPageSizeChange(m) : Dispatch(p)
    BY <1>1 DEF ChangeCommander
  <2>2. Good(p)
    BY <1>0, SettingsGood DEF SortMenu, ViewOptionsMenu, QuickFilter, OnPageSizeChange
  <2> QED BY <2>1, <2>2, DispatchGood
<1>2. CASE ChangeViewer(m)
  <2> DEFINE page == CurrentDocumentID(m)
  <2>1. PICK p : /\ Dispatch(p)
                 /\ p \in ZoomContainer(m) \cup {ViewerSelectionPageRemoved(panels, m, page),
                        ViewerSelectionPageAdded(panels, m, page), CurrentDocVerUpdated(panels, m, page)}
    BY <1>2 DEF ChangeViewer
  <2> HIDE DEF page
  <2>2. Good(p)
    BY <1>0, <2>1, SettingsGood, ZoomGood DEF ZoomContainer
  <2> QED BY <2>1, <2>2, DispatchGood
<1>3. CASE TogglePart(m)
  <2>1. \/ panels' = [panels EXCEPT ![m].thumbnails = ~@]
        \/ panels' = [panels EXCEPT ![m].details = ~@]
    BY <1>3, Zenon DEF TogglePart, ViewerThumbnailsPanelToggled, ViewerDocumentDetailsPanelToggled
  <2>2. Good([panels EXCEPT ![m].thumbnails = ~@]) /\ Good([panels EXCEPT ![m].details = ~@])
    BY <1>0, PartsGood
  <2>3. Good(panels')
    BY <2>1, <2>2, Zenon
  <2> QED BY <1>3, <2>3, SameAddress DEF TogglePart
<1> QED BY <1>1, <1>2, <1>3

LEMMA ReloadGood == ASSUME PanelsInv, Reload PROVE GoodStep
<1>1. Good(panels') /\ UNCHANGED url /\ GoodUrl(url)
  BY FirstGood, LoadedGood DEF Reload, PanelsInv
<1>2. shared'.node \in SharedNodes \cup {SharedRootID, NoNode}
  BY DEF Reload, PanelsInv, GoodUrl
<1>3. GoodUrl(url')
  BY <1>1 DEF GoodUrl
<1> QED BY <1>1, <1>2, <1>3 DEF GoodStep

-----------------------------------------------------------------------------

LEMMA PanelsStart == PanelsInit => PanelsInv
<1> SUFFICES ASSUME PanelsInit PROVE PanelsInv
  OBVIOUS
<1>1. GoodUrl(url)
  BY RootsAreOwn, UrlOfNode DEF PanelsInit
<1>2. Good(panels)
  BY <1>1, FirstGood, LoadedGood DEF PanelsInit
<1>3. IsPair(listing) /\ astray \in [Modes -> SUBSET OwnNodes] /\ \A m \in Modes : RowsFit(m)
  BY DEF PanelsInit, IsPair, RowsFit
<1> QED BY <1>1, <1>2, <1>3 DEF PanelsInv, PanelsInit

\* the rows a commander is left with are of its own kind, and what a click ticked
\* among other rows is astray
LEMMA RowsGood ==
    ASSUME PanelsInv, GoodStep, NEW left, Rows(left), \A m \in Modes : left[m] \in {listing[m], NoNode}
    PROVE  PanelsInv'
<1>1. IsPair(listing)' /\ astray' \in [Modes -> SUBSET OwnNodes]
  BY DEF Rows, IsPair
<1>2. ASSUME NEW m \in Modes PROVE RowsFit(m)'
  <2>1. listing'[m] = IF Stays(m) THEN left[m] ELSE NoNode
    BY DEF Rows
  <2>2. CASE ~Stays(m) \/ left[m] = NoNode
    BY <2>1, <2>2 DEF RowsFit
  <2>3. CASE Stays(m) /\ left[m] = listing[m]
    <3>1. RowsFit(m) /\ listing'[m] = listing[m]
      BY <2>1, <2>3 DEF PanelsInv
    <3>2. CASE NodesShown(m) /\ NodesShown(m)'
      <4>1. ~SharedShown(m)
        BY <3>2 DEF NodesShown, SharedShown, Shows
      <4> QED BY <3>1, <3>2, <4>1 DEF RowsFit
    <3>3. CASE SharedShown(m) /\ SharedShown(m)'
      <4>1. ~NodesShown(m)
        BY <3>3 DEF NodesShown, SharedShown, Shows
      <4> QED BY <3>1, <3>3, <4>1 DEF RowsFit
    <3> QED BY <2>3, <3>2, <3>3 DEF Stays
  <2> QED BY <2>2, <2>3
<1>3. ASSUME NEW m \in Modes PROVE GoodPanel(panels[m], Excepted(m))'
  <2>1. GoodPanel(panels'[m], Excepted(m))
    BY DEF GoodStep, Good
  <2>2. panels'[m].selected \cap OwnNodes \cap Excepted(m) \subseteq astray'[m]
    BY DEF Rows, Excepted
  <2>3. astray'[m] \subseteq Excepted(m)'
    BY DEF Excepted
  <2>4. GoodShown(panels'[m].component, panels'[m].ctype, panels'[m].node, panels'[m].selected, Excepted(m)')
    BY <2>1, <2>2, <2>3 DEF GoodPanel, GoodShown
  <2> QED BY <2>1, <2>4 DEF GoodPanel
<1>4. Good(panels)'
  BY <1>3 DEF GoodStep, Good, IsPair
<1>5. (GoodUrl(url) /\ shared.node \in SharedNodes \cup {SharedRootID, NoNode})'
  BY DEF GoodStep
<1> QED BY <1>1, <1>2, <1>4, <1>5 DEF PanelsInv

\* the rows of the folder that is shown replace those of another
LEMMA RowsArriveGood == ASSUME PanelsInv, NEW m \in Modes, RowsArrive(m) PROVE PanelsInv'
<1>1. UNCHANGED <<panels, url, shared, astray>> /\ listing' = [listing EXCEPT ![m] = Wanted(m)]
  BY DEF RowsArrive
<1>2. IsPair(listing)' /\ \A k \in Modes : listing'[k] = IF k = m THEN Wanted(m) ELSE listing[k]
  BY <1>1 DEF PanelsInv, IsPair
<1>3. ASSUME NEW k \in Modes PROVE (NodesShown(k)' <=> NodesShown(k)) /\ (SharedShown(k)' <=> SharedShown(k))
  BY <1>1 DEF NodesShown, SharedShown, Shows, Open, OnPanels
<1>4. ASSUME NEW k \in Modes PROVE RowsFit(k)'
  <2>1. CASE k # m
    BY <1>2, <1>3, <2>1 DEF PanelsInv, RowsFit
  <2>2. CASE k = m /\ SharedShown(m)
    BY <1>2, <1>3, <2>2 DEF PanelsInv, RowsFit, Wanted
  <2>3. CASE k = m /\ ~SharedShown(m)
    <3>1. NodesShown(m) /\ Wanted(m) = panels[m].node
      BY <2>3 DEF RowsArrive, Wanted
    <3>2. panels[m].node \in OwnNodes
      BY <3>1, ShownHasNode
    <3> QED BY <1>2, <1>3, <2>3, <3>1, <3>2 DEF RowsFit
  <2> QED BY <2>1, <2>2, <2>3
<1>5. ASSUME NEW k \in Modes PROVE GoodPanel(panels[k], Excepted(k))'
  <2>1. GoodPanel(panels[k], Excepted(k))
    BY PanelIsGood DEF PanelsInv
  <2>2. panels[k].selected \cap OwnNodes \cap Excepted(k) \subseteq Excepted(k)'
    BY <1>1 DEF Excepted
  <2>3. GoodShown(panels[k].component, panels[k].ctype, panels[k].node, panels[k].selected, Excepted(k)')
    BY <2>1, <2>2 DEF GoodPanel, GoodShown
  <2>4. GoodPanel(panels[k], Excepted(k)')
    BY <2>1, <2>3 DEF GoodPanel
  <2> QED BY <1>1, <2>4
<1>6. Good(panels)'
  BY <1>1, <1>5 DEF PanelsInv, Good, IsPair
<1>7. (GoodUrl(url) /\ shared.node \in SharedNodes \cup {SharedRootID, NoNode})'
  BY <1>1 DEF PanelsInv, GoodUrl
<1>8. astray' \in [Modes -> SUBSET OwnNodes]
  BY <1>1 DEF PanelsInv
<1> QED BY <1>2, <1>4, <1>6, <1>7, <1>8 DEF PanelsInv

LEMMA PanelStepGood == ASSUME PanelsInv, PanelStep PROVE GoodStep
<1>1. ASSUME NEW m \in Modes, ClickNode(m) \/ ClickBreadcrumb(m) \/ DuplicatePanel(m)
      PROVE  GoodStep
  BY <1>1, ClickNodeGood, ClickBreadcrumbGood, DuplicatePanelGood
<1>2. ASSUME NEW m \in Modes,
             PickDocumentType(m) \/ DocsByTypeLoaded(m) \/ ToggleColumn(m) \/ ClickRow(m)
      PROVE  GoodStep
  BY <1>2, ByTypeGood
<1>3. ASSUME NEW m \in Modes, CheckNode(m) \/ ChangeCommander(m) \/ ChangeViewer(m) \/ TogglePart(m)
      PROVE  GoodStep
  BY <1>3, CheckNodeGood, SettingsActionGood
<1>4. CASE ClickNavLink \/ OpenSecondary \/ CloseSecondary
  BY <1>4, ClickNavLinkGood, OpenSecondaryGood, CloseSecondaryGood
<1>5. CASE SearchEntered \/ ClickResult \/ GoBack \/ SearchResultItemTargetUpdated
  BY <1>5, SearchGood, ClickResultGood
<1>6. CASE ClickShared
  BY <1>6, ClickSharedGood
<1>7. CASE ToggleNavBar
  <2>1. Good(panels') /\ UNCHANGED <<url, shared>>
    BY <1>7 DEF ToggleNavBar, PanelsInv
  <2> QED BY <2>1, SameAddress
<1> QED BY <1>1, <1>2, <1>3, <1>4, <1>5, <1>6, <1>7 DEF PanelStep

LEMMA PanelsStep == PanelsInv /\ [PanelsNext]_panelVars => PanelsInv'
<1> SUFFICES ASSUME PanelsInv, [PanelsNext]_panelVars PROVE PanelsInv'
  OBVIOUS
<1>1. CASE PanelStep /\ Rows(listing)
  <2>1. GoodStep
    BY <1>1, PanelStepGood
  <2> QED BY <1>1, <2>1, RowsGood
<1>2. CASE Reload /\ Rows([m \in Modes |-> NoNode])
  <2>1. GoodStep
    BY <1>2, ReloadGood
  <2> QED BY <1>2, <2>1, RowsGood
<1>3. ASSUME NEW m \in Modes, RowsArrive(m) PROVE PanelsInv'
  BY <1>3, RowsArriveGood
<1>4. CASE UNCHANGED panelVars
  BY <1>4 DEF panelVars, PanelsInv, Good, IsPair, GoodPanel, IsPanel, Excepted, GoodUrl, RowsFit, NodesShown,
              SharedShown, Shows, Open, OnPanels
<1> QED BY <1>1, <1>2, <1>3, <1>4 DEF PanelsNext

\* In every reachable state, whatever nodes there are and however many clicks are
\* made, and whenever rows arrive, both panels of uiSlice are good (what is ticked
\* where a folder is shown is in it, or was ticked among the rows of the folder
\* before), the address is one there is and a commander has rows of its own kind:
\* the strengthening of the theorems below.
THEOREM PanelsGood == PanelsSpec => []PanelsInv
BY PanelsStart, PanelsStep, PTL DEF PanelsSpec

\* Both panels of uiSlice show components there are and nodes the user can reach;
\* the factor of the zoom stays between its limits, and columns are remembered of
\* document types only.
THEOREM PanelsTypes == PanelsSpec => []PanelsTypeOK
<1>1. PanelsInv => PanelsTypeOK
  <2> SUFFICES ASSUME PanelsInv PROVE PanelsTypeOK
    OBVIOUS
  <2>1. ASSUME NEW m \in Modes PROVE listing[m] \in OwnNodes \cup SharedNodes \cup {SharedRootID, NoNode}
    BY DEF PanelsInv, RowsFit
  <2> QED BY <2>1 DEF PanelsInv, Good, GoodPanel, GoodShown, GoodKept, Components, PanelsTypeOK
<1> QED BY <1>1, PanelsGood, PTL

\* Where a panel lists a folder, no node of another folder of the user's is ticked, but for nodes
\* that were ticked among the rows of the folder before while those of this one were on their
\* way: clearing the ticks with the folder (currentNodeChanged) leaves no others for the buttons
\* of FolderNodeActions to delete, share or rename unseen.
THEOREM TickedHereHolds == PanelsSpec => []TickedHere
<1>1. PanelsInv => TickedHere
  <2> SUFFICES ASSUME PanelsInv, NEW m \in Modes, NodesShown(m)
               PROVE  panels[m].selected \cap OwnNodes \subseteq Children(panels[m].node) \cup astray[m]
    BY DEF TickedHere
  <2>1. panels[m].selected \cap OwnNodes \subseteq Children(panels[m].node) \cup Excepted(m)
    BY PanelIsGood DEF PanelsInv, GoodPanel, GoodShown, NodesShown
  <2> QED BY <2>1 DEF Excepted
<1> QED BY <1>1, PanelsGood, PTL

\* A viewer shows the document of its own panel, although selectCurrentDocumentID goes on to the
\* second panel when the main one has none.
THEOREM ViewerHasDocumentHolds == PanelsSpec => []ViewerHasDocument
<1>1. PanelsInv => ViewerHasDocument
  <2> SUFFICES ASSUME PanelsInv, NEW m \in Modes, Shows(m, "viewer")
               PROVE  panels[m].ctype = "document" /\ CurrentDocumentID(m) = panels[m].node
    BY DEF ViewerHasDocument
  <2>1. panels[m].ctype = "document"
    BY PanelIsGood DEF GoodPanel, GoodShown, Shows, PanelsInv
  <2>2. CASE m = "main"
    BY <2>1, <2>2 DEF CurrentDocumentID
  <2>3. CASE m = "secondary"
    BY <2>1, <2>3 DEF CurrentDocumentID
  <2> QED BY <2>1, <2>2, <2>3 DEF Modes
<1> QED BY <1>1, PanelsGood, PTL

-----------------------------------------------------------------------------
(* The interface as a whole *)

\* whichever part is at work, each part sees steps of its own or none
LEMMA PartsAreSpecs ==
    WebSpec => FormSpec /\ ListSpec /\ ShareSpec /\ PanelsSpec /\ CommanderSpec /\ ViewerSpec
<1>1. WebInit => FormInit /\ ListInit /\ ShareInit /\ PanelsInit /\ CommanderInit /\ ViewerInit
  BY DEF WebInit
<1>2. [WebNext]_webVars => /\ [FormNext]_formVars /\ [ListNext]_listVars /\ [ShareNext]_shareVars
                           /\ [PanelsNext]_panelVars /\ [CommanderNext]_commanderVars /\ [ViewerNext]_viewerVars
  BY DEF WebNext, webVars
<1> QED BY <1>1, <1>2, PTL DEF WebSpec, FormSpec, ListSpec, ShareSpec, PanelsSpec, CommanderSpec, ViewerSpec

\* Every part of the interface keeps well-typed state, for any users, rows, nodes
\* and documents and however many clicks are made in it.
THEOREM WebTypes == WebSpec => []WebTypeOK
<1>1. FormTypeOK /\ ListTypeOK /\ ShareTypeOK /\ PanelsTypeOK /\ CommanderTypeOK /\ ViewerTypeOK => WebTypeOK
  BY DEF WebTypeOK
<1> QED BY <1>1, PartsAreSpecs, FormTypes, ListTypes, ShareTypes, PanelsTypes, CommanderTypes, ViewerTypes, PTL

=============================================================================
