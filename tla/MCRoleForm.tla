----------------------------- MODULE MCRoleForm -----------------------------
(* The role dialogs alone: a few nodes of the tree to click. *)
EXTENDS RoleForm

MCClickable == {"document.update.tags", "tag.select", "folder.view", "document.page"}
MCStoredRoles == {{"user.me", "node.view", "task.ocr"}, {"user.me", "document.download"}}
=============================================================================
