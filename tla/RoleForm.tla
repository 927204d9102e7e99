------------------------------ MODULE RoleForm ------------------------------
(***************************************************************************)
(* The dialogs that create and edit a role: NewRoleModal, EditRoleModal    *)
(* and the tree of permissions of RoleForm (package kommon).  Permissions  *)
(* have two vocabularies.  The tree shows folders and documents; the       *)
(* server knows nodes and pages.  roles/utils.ts translates both ways, and *)
(* what is checked must survive the way there and back.                    *)
(*                                                                         *)
(* Abstracted: the name of the role, labels, and permissions that are sent *)
(* and shown as they stand, as those of shared_node are: all of            *)
(* custom_field; create, update and delete of tag and document_type; and   *)
(* of user, role and group all but select.                                 *)
(***************************************************************************)
EXTENDS Naturals, FiniteSets

CONSTANTS
    Clickable,      \* bound: nodes of the tree the user clicks
    StoredRoles     \* bound: scopes another administrator or the command line gives the role

\* getPermissionTree
PermissionTree == [
    folder |-> {"folder.view", "folder.create", "folder.update", "folder.move", "folder.delete"},
    document |-> {"document.download", "document.upload", "document.view", "document.update",
                  "document.move", "document.delete", "document.page"},
    document_download |-> {"document.download.all_versions", "document.download.last_version_only"},
    document_update |-> {"document.update.title", "document.update.custom_fields",
                         "document.update.tags", "document.update.document_type"},
    document_page |-> {"document.page.extract", "document.page.move", "document.page.rotate",
                       "document.page.reorder", "document.page.delete"},
    tag |-> {"tag.view", "tag.select"},
    document_type |-> {"document_type.view", "document_type.select"},
    shared_node |-> {"shared_node.view", "shared_node.create", "shared_node.update", "shared_node.delete"},
    user |-> {"user.select"}, role |-> {"role.select"}, group |-> {"group.select"}]

\* a record has no field with a dot in its name
FieldOf(n) == CASE n = "document.download" -> "document_download"
                [] n = "document.update" -> "document_update"
                [] n = "document.page" -> "document_page"
                [] OTHER -> n
ChildNodes(n) == IF FieldOf(n) \in DOMAIN PermissionTree THEN PermissionTree[FieldOf(n)] ELSE {}
Inner == {"document.download", "document.update", "document.page"}
Categories == DOMAIN PermissionTree \ {FieldOf(n) : n \in Inner}
TreeNodes == Categories \cup UNION {PermissionTree[f] : f \in DOMAIN PermissionTree}
Leaves == {n \in TreeNodes : ChildNodes(n) = {}}

\* PERMISSION_DEPENDENCIES
Dependencies(n) ==
    CASE n = "folder" -> {"document.view", "document.move", "document.delete", "document.update.title"}
      [] n = "folder.view" -> {"document.view"}
      [] n = "folder.move" -> {"document.move"}
      [] n = "folder.delete" -> {"document.delete"}
      [] n = "folder.update" -> {"document.update.title"}
      [] n = "document" -> {"folder.view", "folder.create", "folder.update", "folder.delete", "folder.move"}
      [] n = "document.view" -> {"tag.select", "folder.view"}
      [] n = "document.move" -> {"folder.move"}
      [] n = "document.delete" -> {"folder.delete"}
      [] n = "document.update.title" -> {"folder.update"}
      [] n = "document.update.tags" -> {"tag.select"}
      [] n = "document.update.document_type" -> {"document_type.select"}
      [] n \in {"shared_node", "shared_node.create", "shared_node.update"}
            -> {"user.select", "group.select", "role.select"}
      [] n \in {"tag.select", "tag"} -> {"document.view", "folder.view"}
      [] OTHER -> {}

\* getAllDependencies: what is reached over one dependency or more
AllDependencies(n) ==
    LET reached[k \in Nat] ==
            IF k = 0 THEN Dependencies(n)
            ELSE LET r == reached[k - 1] IN r \cup UNION {Dependencies(d) : d \in r}
    IN  reached[Cardinality(TreeNodes)]

\* scopes.py, without the categories left out above
ServerScopes ==
    {"node.create", "node.view", "node.update", "node.delete", "node.move", "document.upload",
     "document.download", "document.download.all_versions", "document.download.last_version_only",
     "document.update.title", "document.update.tags", "document.update.custom_fields",
     "document.update.document_type", "tag.select", "tag.view", "user.select", "user.me",
     "group.select", "role.select", "task.ocr", "page.reorder", "page.rotate", "page.move",
     "page.extract", "page.delete", "document_type.view", "document_type.select",
     "shared_node.create", "shared_node.view", "shared_node.update", "shared_node.delete"}

VARIABLES
    role,       \* the scopes of the role on the server, or NoRole
    fetched,    \* data of useGetRoleQuery: scopes, or NoRole while it loads
    roleDialog,     \* [opened, checked, allChecked, scopes]
    lastSave    \* auxiliary: what the tree showed when the role was last saved here

formVars == <<role, fetched, roleDialog, lastSave>>

\* sets, like the values they stand in for
NoRole == {"no role"}
Unsaved == {"not saved"}

ASSUME ClickableAssumption == Clickable \subseteq TreeNodes
ASSUME StoredAssumption == StoredRoles \subseteq SUBSET ServerScopes

-----------------------------------------------------------------------------
(* The tree of the library: it keeps the checked leaves *)

Within(n) == ChildNodes(n) \cup UNION {ChildNodes(c) : c \in ChildNodes(n)}
LeavesOf(n) == IF n \in Leaves THEN {n} ELSE Within(n) \cap Leaves
IsNodeChecked(n, checked) == n \in TreeNodes /\ LeavesOf(n) \subseteq checked

\* getCheckedNodes lists a parent as soon as one leaf below it is checked
CheckedNodes(checked) == {n \in TreeNodes : LeavesOf(n) \cap checked # {}}

\* initialCheckedState: a parent stands for its leaves, unknown names are dropped
InitialChecked(perms) == UNION {LeavesOf(n) : n \in perms \cap TreeNodes}

-----------------------------------------------------------------------------
(* roles/utils.ts *)

SCOPE_TO_SKIP == Categories \cup {"document.page"}

FolderDocumentNodeMap(scope) ==
    CASE scope \in {"folder.view", "document.view"} -> "node.view"
      [] scope = "folder.create" -> "node.create"
      [] scope \in {"folder.update", "document.update"} -> "node.update"
      [] scope \in {"folder.move", "document.move"} -> "node.move"
      [] scope \in {"folder.delete", "document.delete"} -> "node.delete"
      [] OTHER -> scope

\* mutant: the pages' permissions are sent under the tree's names
PageManagementC2SForgotten(scope) == scope

PageManagementC2S(scope) ==
    CASE scope = "document.page.extract" -> "page.extract"
      [] scope = "document.page.move" -> "page.move"
      [] scope = "document.page.rotate" -> "page.rotate"
      [] scope = "document.page.reorder" -> "page.reorder"
      [] scope = "document.page.delete" -> "page.delete"
      [] OTHER -> scope

Client2ServerPerms(scopes) ==
    {PageManagementC2S(FolderDocumentNodeMap(s)) : s \in scopes \ SCOPE_TO_SKIP} \cup {"user.me"}

\* mutant: a node permission comes back for documents only
NodeFolderDocumentMapForgetsFolders(scope) ==
    CASE scope = "node.view" -> {"document.view"}
      [] scope = "node.create" -> {"folder.create"}
      [] scope = "node.update" -> {"folder.update", "document.update.title"}
      [] scope = "node.delete" -> {"folder.delete", "document.delete"}
      [] scope = "node.move" -> {"folder.move", "document.move"}
      [] OTHER -> {scope}

NodeFolderDocumentMap(scope) ==
    CASE scope = "node.view" -> {"folder.view", "document.view"}
      [] scope = "node.create" -> {"folder.create"}
      [] scope = "node.update" -> {"folder.update", "document.update.title"}
      [] scope = "node.delete" -> {"folder.delete", "document.delete"}
      [] scope = "node.move" -> {"folder.move", "document.move"}
      [] OTHER -> {scope}

PageManagementS2C(scope) ==
    CASE scope = "page.extract" -> "document.page.extract"
      [] scope = "page.move" -> "document.page.move"
      [] scope = "page.rotate" -> "document.page.rotate"
      [] scope = "page.reorder" -> "document.page.reorder"
      [] scope = "page.delete" -> "document.page.delete"
      [] OTHER -> scope

Server2ClientPerms(scopes) == {PageManagementS2C(c) : c \in UNION {NodeFolderDocumentMap(s) : s \in scopes}}

-----------------------------------------------------------------------------
(* The dialogs *)

Closed == [opened |-> FALSE, checked |-> {}, allChecked |-> FALSE]

\* onPermissionsChange: what a submit sends for what is checked
Scopes(checked) == Client2ServerPerms(CheckedNodes(checked))

FormInit ==
    /\ role \in StoredRoles \cup {NoRole}
    /\ fetched = NoRole
    /\ roleDialog = Closed
    /\ lastSave = Unsaved

\* useGetRoleQuery answers, or asks again after editRole invalidated the role;
\* a tree already on the screen keeps its checks
FetchRole ==
    /\ role # NoRole
    /\ fetched' = role
    /\ UNCHANGED <<role, roleDialog, lastSave>>

\* RoleForm mounts: useTree reads initialCheckedState this once
OpenRoleDialog ==
    /\ ~roleDialog.opened
    /\ roleDialog' = [Closed EXCEPT !.opened = TRUE,
          !.checked = IF fetched = NoRole THEN {} ELSE InitialChecked(Server2ClientPerms(fetched))]
    /\ UNCHANGED <<role, fetched, lastSave>>

\* handleCheckboxClick
AfterClick(n, checked) ==
    LET touched == UNION {LeavesOf(m) : m \in {n} \cup AllDependencies(n)}
    IN  IF IsNodeChecked(n, checked) THEN checked \ touched ELSE checked \cup touched

Click(n) ==
    /\ roleDialog.opened
    /\ roleDialog' = [roleDialog EXCEPT !.checked = AfterClick(n, roleDialog.checked)]
    /\ UNCHANGED <<role, fetched, lastSave>>

\* CheckAllToggle: the button remembers itself what it did, not the tree
ToggleAll ==
    /\ roleDialog.opened
    /\ roleDialog' = [roleDialog EXCEPT !.checked = IF roleDialog.allChecked THEN {} ELSE Leaves,
                                !.allChecked = ~roleDialog.allChecked]
    /\ UNCHANGED <<role, fetched, lastSave>>

\* onLocalSubmit of both dialogs, once the role is loaded; the server knows its
\* scopes only: a new role with others is refused, an edited one loses them
SubmitRole ==
    LET scopes == Scopes(roleDialog.checked)
    IN  /\ roleDialog.opened
        /\ role = NoRole => scopes \subseteq ServerScopes
        /\ role # NoRole => fetched # NoRole
        /\ role' = scopes \cap ServerScopes
        /\ lastSave' = roleDialog.checked
        /\ roleDialog' = Closed
        /\ UNCHANGED fetched

CancelRole ==
    /\ roleDialog.opened
    /\ roleDialog' = Closed
    /\ UNCHANGED <<role, fetched, lastSave>>

\* another administrator, or the command line
ChangeElsewhere ==
    /\ role # NoRole
    /\ role' \in StoredRoles \ {role}
    /\ lastSave' = Unsaved
    /\ UNCHANGED <<fetched, roleDialog>>

FormNext ==
    \/ FetchRole
    \/ OpenRoleDialog
    \/ \E n \in Clickable : Click(n)
    \/ ToggleAll
    \/ SubmitRole
    \/ CancelRole
    \/ ChangeElsewhere

FormSpec == FormInit /\ [][FormNext]_formVars

-----------------------------------------------------------------------------
(* Properties *)

\* Type invariant: only leaves are checked, and the server stores scopes it knows.
FormTypeOK ==
    /\ \A r \in {role, fetched} : r = NoRole \/ r \subseteq ServerScopes
    /\ roleDialog \in [opened : BOOLEAN, checked : SUBSET Leaves, allChecked : BOOLEAN]
    /\ lastSave = Unsaved \/ lastSave \subseteq Leaves

\* What the administrator saw checked when the role was saved is checked again
\* when its dialog is opened on what the server stored (client2serverPerms and
\* server2clientPerms of roles/utils.ts, with the tree in between): no permission
\* is lost on the way to the server and back.
SavedIsShown ==
    (lastSave # Unsaved) => lastSave \subseteq InitialChecked(Server2ClientPerms(role))

\* Whatever is clicked in the tree, the server knows every scope the dialog would
\* send (create_role refuses the whole role for one unknown name).
EveryScopeKnown == roleDialog.opened => Scopes(roleDialog.checked) \subseteq ServerScopes

\* RoleForm.tsx:123: unchecking a permission also unchecks the permissions that
\* depend on it.
DependentsUnchecked ==
    [][\A n \in Clickable :
          (Click(n) /\ IsNodeChecked(n, roleDialog.checked)) =>
              \A m \in Leaves : n \in Dependencies(m) => ~IsNodeChecked(m, roleDialog'.checked)]_formVars

=============================================================================
