------------------------------ MODULE MCSharing ------------------------------
(* Small instances of Sharing for TLC. *)
EXTENDS Sharing, TLC

CONSTANTS folder, doc, owner, ann, team, view, edit, see, change, r1, r2, r3

\* a document in a folder; ann is in the team, both may get grants
InFolder == (folder :> NoNode) @@ (doc :> folder)
Owned == (folder :> owner) @@ (doc :> owner)
TeamMembers == team :> {ann}
PermsOf == (view :> {see}) @@ (edit :> {see, change})

Shared == {[node |-> folder, who |-> ann, role |-> view, by |-> First],
           [node |-> folder, who |-> team, role |-> view, by |-> First]}

AccessLists == {{}, {<<ann, edit>>, <<team, view>>}}
SomeShares == {[ns |-> {folder, doc}, who |-> {ann}, roles |-> {edit}]}
NoShares == {}

Symmetry == Permutations(Reqs)
=============================================================================
