-------------------------------- MODULE MCWeb --------------------------------
(***************************************************************************)
(* The parts of the web interface, one of them at work in each behaviour   *)
(* while the others stay as they start: they keep their state in slices of *)
(* their own.                                                              *)
(***************************************************************************)
EXTENDS RoleForm, AdminLists, ShareDialog, Panels, Commander, DocViewer, TLC

VARIABLE part     \* the part at work
webVars == <<part, formVars, listVars, shareVars, panelVars, commanderVars, viewerVars>>

-----------------------------------------------------------------------------
(* Constants *)

MCClickable == {"document.update.tags", "tag.select", "folder.view", "document.page"}
MCStoredRoles == {{"user.me", "node.view", "task.ocr"}, {"user.me", "document.download"}}

\* two rows of which one exists at first, on pages of one or two
MCIds == {1, 2}
MCInitialIds == {1}
MCPageSizes == {1, 2}
MCFilterMatches == {1}
MCColumns == {"name"}
MCBounds == [k \in Kinds |-> CASE k = "groups" -> [changes |-> 2, views |-> 0]
                               [] k \in {"users", "custom-fields", "roles"} -> [changes |-> 1, views |-> 1]
                               [] OTHER -> [changes |-> 1, views |-> 0]]

MCUsers == {"u1", "u2"}
MCGroups == {"g1"}
MCShareRoles == {"r1", "r2"}
MCFirstGrants == {[g \in MCUsers \cup MCGroups |-> {"r1"}]}

\* a document in a folder of the home, the roots of the user and of a group, a shared folder
MCParentOf == [home |-> "home", inbox |-> "inbox", ghome |-> "ghome", f |-> "home", d |-> "f"]
MCSharedParent == [sf |-> "sf", sd |-> "sf"]

\* three nodes on two pages; node 4 and 5 are created
MCFirstTree == 1 :> [parent |-> 9, title |-> "a", tagged |-> FALSE]
            @@ 2 :> [parent |-> 9, title |-> "b", tagged |-> FALSE]
            @@ 3 :> [parent |-> 9, title |-> "c", tagged |-> FALSE]
Budget(s, l, c, u) == [second |-> s, looks |-> l, changes |-> c, uploads |-> u]
MCClicks == {Budget(1, 2, 1, 0), Budget(0, 1, 2, 0), Budget(1, 0, 0, 2), Budget(0, 0, 1, 1)}

\* a document of four pages and one of one, pictures one and two at a time
MCFirstPages == [d1 |-> 4, d2 |-> 1]
MCBatchSize == [md |-> 1, sm |-> 2]
Start(second, p, e, c, b, o) ==
    [viewers |-> [main |-> "d1", secondary |-> second],
     budget |-> [picks |-> p, edits |-> e, calls |-> c, batches |-> b, others |-> o]]
MCStarts == {Start("d1", 1, 1, 2, 2, 0), Start("d2", 1, 0, 1, 4, 0), Start("commander", 2, 1, 1, 3, 0),
             Start("closed", 2, 2, 1, 3, 0), Start("closed", 1, 1, 1, 4, 1)}

-----------------------------------------------------------------------------

WebInit ==
    /\ part \in {"roles", "tables", "sharing", "panels", "commander", "viewer"}
    /\ FormInit /\ (part = "roles" \/ role = NoRole)
    /\ ListInit /\ (part = "tables" \/ kind = "tags")
    /\ ShareInit
    /\ PanelsInit
    /\ CommanderInit /\ (part = "commander" \/ done.looks = 2)
    /\ ViewerInit /\ (part = "viewer" \/ budget.others = 1)

WebNext ==
    /\ UNCHANGED part
    /\ \/ part = "roles" /\ FormNext
          /\ UNCHANGED <<listVars, shareVars, panelVars, commanderVars, viewerVars>>
       \/ part = "tables" /\ ListNext
          /\ UNCHANGED <<formVars, shareVars, panelVars, commanderVars, viewerVars>>
       \/ part = "sharing" /\ ShareNext
          /\ UNCHANGED <<formVars, listVars, panelVars, commanderVars, viewerVars>>
       \/ part = "panels" /\ PanelsNext
          /\ UNCHANGED <<formVars, listVars, shareVars, commanderVars, viewerVars>>
       \/ part = "commander" /\ CommanderNext
          /\ UNCHANGED <<formVars, listVars, shareVars, panelVars, viewerVars>>
       \/ part = "viewer" /\ ViewerNext
          /\ UNCHANGED <<formVars, listVars, shareVars, panelVars, commanderVars>>

WebSpec == WebInit /\ [][WebNext]_webVars

\* Every part of the interface keeps well-typed state.
WebTypeOK ==
    FormTypeOK /\ ListTypeOK /\ ShareTypeOK /\ PanelsTypeOK /\ CommanderTypeOK /\ ViewerTypeOK
=============================================================================
