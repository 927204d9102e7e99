----------------------------- MODULE MCNodeTree -----------------------------
(* Small instances of NodeTree for TLC. *)
EXTENDS NodeTree, TLC

CONSTANTS u, g, uHome, uInbox, gHome, n1, n2, n3, n4, a, b, r1, r2, r3, r4

\* a user with a home and an inbox, a group with a home
Folders == (u :> {uHome, uInbox}) @@ (g :> {gHome})

\* folder n1 in the home of u, folder n2 in n1
InPlace ==
    [n \in Nodes |->
        CASE n \in {uHome, uInbox} -> [parent |-> NoNode, owner |-> u, title |-> NoTitle]
          [] n = gHome -> [parent |-> NoNode, owner |-> g, title |-> NoTitle]
          [] n = n1 -> [parent |-> uHome, owner |-> u, title |-> a]
          [] n = n2 -> [parent |-> n1, owner |-> u, title |-> a]
          [] OTHER -> NoRow]

Symmetry == Permutations(Reqs)
=============================================================================
