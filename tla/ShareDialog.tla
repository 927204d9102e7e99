---------------------------- MODULE ShareDialog ----------------------------
(***************************************************************************)
(* The two dialogs about shared nodes: ShareNodesModal shares the selected *)
(* nodes, ManageAccessModal edits the users and groups one shared node is  *)
(* shared with and their roles.  Both belong to buttons that are there     *)
(* while nodes are selected, so their state lives and dies with the        *)
(* selection; the list that ManageAccessModal edits comes from the cache   *)
(* of server answers, where nothing ever invalidates it.                   *)
(*                                                                         *)
(* One node is modelled.  Users and groups are grantees; the rows of       *)
(* shared_nodes (see Sharing) are a function from grantees to their roles. *)
(***************************************************************************)
EXTENDS Naturals, FiniteSets, Sequences

CONSTANTS
    Users, Groups,  \* whom the node can be shared with
    ShareRoles,     \* roles
    FirstGrants,    \* grants the node may have at first
    MaxSaves,       \* bound: submits
    MaxPicks        \* bound: picks of roles

Grantees == Users \cup Groups
ASSUME ShareAssumption ==
    /\ Users \cap Groups = {}
    /\ FirstGrants \subseteq UNION {[S -> SUBSET ShareRoles] : S \in SUBSET Grantees}
    /\ MaxSaves \in Nat /\ MaxPicks \in Nat

VARIABLES
    grants,     \* server: grantee -> roles
    details,    \* cache of getSharedNodeAccessDetails: [is, list]
    allRoles,   \* data of useGetRolesQuery
    manage,     \* the state of ManageAccessModal and its buttons
    updates,    \* updates of the grants in flight: [sent, loaded, removed, picked, misled]
    edits       \* bound: [saves, picks] so far

shareVars == <<grants, details, allRoles, manage, updates, edits>>

NoGrants == [g \in {} |-> {}]
NotManaged == [id |-> {}, roles |-> {}]

\* the component as it mounts; loaded, removed, picked and misled are auxiliary:
\* what the list came from, whom the user removed, which roles were picked for the
\* row that was seen ticked, and which groups got roles picked for a user
Unmounted == [mounted |-> FALSE, modal |-> "none", tab |-> "users", ticked |-> {},
              access |-> NoGrants, picker |-> {}, managed |-> NotManaged,
              loaded |-> NoGrants, removed |-> {}, picked |-> [g \in Grantees |-> {}], misled |-> {}]

\* the effect on initialData
WithData(m, list) == [m EXCEPT !.access = list, !.loaded = list,
                               !.removed = {}, !.picked = [g \in Grantees |-> {}], !.misled = {}]

-----------------------------------------------------------------------------
(* The buttons: the node is selected, the selection is cleared *)

\* one shared node is selected: the button mounts, with what the cache has
SelectNode ==
    /\ ~manage.mounted
    /\ manage' = LET fresh == [Unmounted EXCEPT !.mounted = TRUE]
                 IN  IF details.is = "data" THEN WithData(fresh, details.list) ELSE fresh
    /\ details' = IF details.is \in {"none", "error"} THEN [details EXCEPT !.is = "loading"] ELSE details
    /\ UNCHANGED <<grants, allRoles, updates, edits>>

\* keepUnusedDataFor is over
ExpireDetails ==
    /\ ~manage.mounted /\ details.is # "none"
    /\ details' = [is |-> "none", list |-> NoGrants]
    /\ UNCHANGED <<grants, allRoles, manage, updates, edits>>

LoadDetails ==
    /\ details.is = "loading"
    /\ \/ /\ details' = [is |-> "data", list |-> grants]
          /\ manage' = IF manage.mounted THEN WithData(manage, grants) ELSE manage
       \/ /\ details' = [is |-> "error", list |-> NoGrants]
          /\ UNCHANGED manage
    /\ UNCHANGED <<grants, allRoles, updates, edits>>

LoadRoles ==
    /\ allRoles = {} /\ allRoles' = ShareRoles
    /\ UNCHANGED <<grants, details, manage, updates, edits>>

-----------------------------------------------------------------------------
(* ManageAccessModal *)

Managing(m) ==
    /\ manage' = m
    /\ UNCHANGED <<grants, details, allRoles, updates, edits>>

OpenAccess ==
    /\ manage.mounted /\ manage.modal = "none"
    /\ Managing([manage EXCEPT !.modal = "access"])

OnList == manage.modal = "access" /\ details.is # "loading"
TabRows(tab) == IF tab = "users" THEN Users ELSE Groups

\* the cross of a modal of the stack closes it and nothing else; the list comes
\* back with the tab of the users, and with what was ticked on either tab
CloseModal ==
    \/ /\ manage.modal = "role"
       /\ Managing([manage EXCEPT !.modal = "access"])
    \/ /\ OnList
       /\ Managing([manage EXCEPT !.modal = "none", !.tab = "users"])

\* localCancel, of the dialog that still loads: the selection is cleared
CancelLoading ==
    /\ manage.modal = "access" /\ details.is = "loading"
    /\ Managing(Unmounted)

\* mutant: another tab keeps what is ticked
OnClickTabKeepsTicks(tab) ==
    /\ OnList
    /\ Managing([manage EXCEPT !.tab = tab])

OnClickTab(tab) ==
    /\ OnList
    /\ Managing([manage EXCEPT !.tab = tab, !.ticked = {}])

\* onUserSelectionChange adds to the ticked users; onGroupSelectionChange adds the
\* group to the ticked users too, which are none: the last group ticked is alone
Added(g) == IF g \in Users THEN manage.ticked \cup {g} ELSE (manage.ticked \ Groups) \cup {g}
OnSelectionChange(g) ==
    /\ OnList /\ g \in DOMAIN manage.access \cap TabRows(manage.tab)
    /\ Managing([manage EXCEPT !.ticked = IF g \in @ THEN @ \ {g} ELSE Added(g)])

\* the tab has the ticks, and the buttons, of its own rows
Seen == manage.ticked \cap TabRows(manage.tab)

OnClickDeleteRole ==
    /\ OnList /\ Seen # {}
    /\ Managing([manage EXCEPT !.access = [g \in DOMAIN @ \ Seen |-> @[g]],
                               !.removed = @ \cup Seen, !.ticked = @ \ Seen])

\* getIDType: the ticked group, if there is one, else the ticked user
TheTicked ==
    CHOOSE g \in manage.ticked : g \in Groups \/ manage.ticked \cap Groups = {}

\* one row is seen ticked; ManageRole mounts with the roles of getIDType's row
OnClickViewRole ==
    /\ OnList /\ \E g \in Grantees : Seen = {g}
    /\ Managing([manage EXCEPT !.modal = "role", !.picker = manage.access[TheTicked]])

\* onLocalRoleChange: a role is added, of those that are loaded, or taken away
OnRoleChanged ==
    /\ manage.modal = "role" /\ edits.picks < MaxPicks
    /\ \E r \in allRoles \cup manage.picker :
          LET roles == IF r \in manage.picker THEN manage.picker \ {r} ELSE manage.picker \cup {r}
              g == TheTicked
              led == Seen # {g}
          IN  manage' = [manage EXCEPT !.managed = [id |-> {g}, roles |-> roles], !.picker = roles,
                            !.picked[g] = IF led THEN @ ELSE @ \cup roles,
                            !.misled = IF led THEN @ \cup {g} ELSE @]
    /\ edits' = [edits EXCEPT !.picks = @ + 1]
    /\ UNCHANGED <<grants, details, allRoles, updates>>

OnCancelRoleView ==
    /\ manage.modal = "role"
    /\ Managing([manage EXCEPT !.modal = "access", !.ticked = {}])

\* mutant: the roles go to the row that is ticked when the role dialog is saved
ChangedRowsTicked(m) == m.ticked \cap DOMAIN m.access

\* whose roles onSubmitRoleView changes: the row of managedRoles, if it is there
ChangedRows(m) == m.managed.id \cap DOMAIN m.access

\* the users are no longer ticked, a ticked group is
OnSubmitRoleView ==
    /\ manage.modal = "role"
    /\ Managing([manage EXCEPT
          !.modal = "access",
          !.access = [g \in DOMAIN @ \cup ChangedRows(manage) |->
                         IF g \in ChangedRows(manage) THEN manage.managed.roles \cap allRoles ELSE @[g]],
          !.ticked = @ \ Users,
          !.managed = NotManaged])

\* localSubmit: Save, and Cancel too, send the list, an empty one if none was loaded
GetAccessData4BE == manage.access
LocalSubmitAccess ==
    /\ OnList /\ edits.saves < MaxSaves
    /\ updates' = Append(updates, [sent |-> GetAccessData4BE, loaded |-> manage.loaded,
                                   removed |-> manage.removed, picked |-> manage.picked,
                                   misled |-> manage.misled])
    /\ edits' = [edits EXCEPT !.saves = @ + 1]
    /\ UNCHANGED <<grants, details, allRoles, manage>>

\* update_shared_node_access, or an error; either way the dialog closes and the
\* selection is cleared.  A grantee without roles has no rows.
UpdateAnswered ==
    /\ updates # <<>>
    /\ \/ grants' = LET sent == Head(updates).sent
                    IN  [g \in {h \in DOMAIN sent : sent[h] # {}} |-> sent[g]]
       \/ UNCHANGED grants
    /\ updates' = Tail(updates)
    /\ manage' = Unmounted
    /\ UNCHANGED <<details, allRoles, edits>>

-----------------------------------------------------------------------------
(* ShareNodesModal: opened, filled with what the lists offer, submitted, by *)
(* Share or by Cancel, answered; then the selection is cleared.  Its cross   *)
(* clears the selection too.                                                 *)

LocalSubmitShare(to, roles) ==
    /\ manage.mounted /\ manage.modal = "none" /\ edits.saves < MaxSaves
    /\ roles \subseteq allRoles
    /\ grants' = [g \in DOMAIN grants \cup to |->
                     (IF g \in DOMAIN grants THEN grants[g] ELSE {}) \cup (IF g \in to THEN roles ELSE {})]
    /\ edits' = [edits EXCEPT !.saves = @ + 1]
    /\ manage' = Unmounted
    /\ UNCHANGED <<details, allRoles, updates>>

LocalCancelShare ==
    /\ manage.mounted /\ manage.modal = "none"
    /\ Managing(Unmounted)

-----------------------------------------------------------------------------
ShareInit ==
    /\ grants \in FirstGrants
    /\ details = [is |-> "none", list |-> NoGrants]
    /\ allRoles = {}
    /\ manage = Unmounted
    /\ updates = <<>> /\ edits = [saves |-> 0, picks |-> 0]

ShareNext ==
    \/ SelectNode \/ ExpireDetails \/ LoadDetails \/ LoadRoles
    \/ OpenAccess \/ CloseModal \/ CancelLoading
    \/ \E tab \in {"users", "groups"} : OnClickTab(tab)
    \/ \E g \in Grantees : OnSelectionChange(g)
    \/ OnClickDeleteRole \/ OnClickViewRole \/ OnRoleChanged \/ OnCancelRoleView \/ OnSubmitRoleView
    \/ LocalSubmitAccess \/ UpdateAnswered
    \/ \E to \in SUBSET Grantees, roles \in SUBSET ShareRoles \ {{}} : LocalSubmitShare(to, roles)
    \/ LocalCancelShare

ShareSpec == ShareInit /\ [][ShareNext]_shareVars

-----------------------------------------------------------------------------
(* Properties *)

\* Type invariant: the tab of the groups has no ticked user beside it, and one
\* group at most is ticked.  Beside the tab of the users a group may be.
ShareTypeOK ==
    /\ DOMAIN grants \subseteq Grantees /\ \A g \in DOMAIN grants : grants[g] \subseteq ShareRoles
    /\ details.is \in {"none", "loading", "data", "error"}
    /\ allRoles \in {{}, ShareRoles}
    /\ manage.modal \in {"none", "access", "role"} /\ manage.tab \in {"users", "groups"}
    /\ manage.ticked \subseteq Grantees
    /\ manage.tab = "groups" => manage.ticked \subseteq Groups
    /\ \A g, h \in manage.ticked \cap Groups : g = h

\* A save lists whom it loaded less those the user removed, and gives nobody a
\* role that was neither loaded for it nor picked while it was the row seen ticked:
\* changes of roles that were left behind when a dialog was closed or cancelled
\* (managedRoles outlives both) reach no other row and bring no removed one back.
\* Excepted are groups, never users, that a dialog for a ticked user was about:
\* the group had stayed ticked when the list was closed and opened again.
SaveGivesNoMore ==
    \A k \in DOMAIN updates :
        LET u == updates[k]
        IN  /\ DOMAIN u.sent = DOMAIN u.loaded \ u.removed
            /\ u.misled \subseteq Groups
            /\ \A g \in DOMAIN u.sent \ u.misled : u.sent[g] \subseteq u.loaded[g] \cup u.picked[g]

=============================================================================
