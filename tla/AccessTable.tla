----------------------------- MODULE AccessTable -----------------------------
(***************************************************************************)
(* What sharing promises: a table that says which grants, pairs of a user  *)
(* or group and a role, each node has.  Sharing adds grants; a             *)
(* synchronisation replaces the grants of its node by a list.  When others *)
(* took effect on the node since it began, it may keep some of what they   *)
(* asked for, but nothing that none of them wants, and it loses nothing it *)
(* wants and finds.                                                        *)
(***************************************************************************)
CONSTANTS Nodes, Holders, Roles, Reqs

Grants == Holders \X Roles
RoleOf(grant) == grant[2]

VARIABLES
    nodes,      \* nodes that exist
    roles,      \* roles that exist
    access,     \* the grants of each node
    call,       \* what each request asks for, and how far it is
    crossed     \* the requests that took effect on its node since it began

vars == <<nodes, roles, access, call, crossed>>

Call == [state : {"idle", "open", "done", "failed"},
         ns : SUBSET Nodes, ask : SUBSET Grants]

\* a grant of ask on a node of ns names something that is gone
Missing(ns, ask) == \E n \in ns, g \in ask : n \notin nodes \/ RoleOf(g) \notin roles

\* what is left of S on node n
Valid(n, S) == {g \in S : n \in nodes /\ RoleOf(g) \in roles}

\* r takes effect on the nodes ns: the other open requests on them are crossed
Effect(r, ns) ==
    crossed' = [q \in Reqs |->
        IF q # r /\ call[q].state = "open" /\ call[q].ns \cap ns # {}
        THEN crossed[q] \cup {r} ELSE crossed[q]]

\* what the requests that crossed r asked for
AskedMeanwhile(r) == UNION {call[q].ask : q \in crossed[r]}

Init ==
    /\ nodes = Nodes
    /\ roles = Roles
    /\ access \in [Nodes -> SUBSET Grants]
    /\ call = [r \in Reqs |-> [state |-> "idle", ns |-> {}, ask |-> {}]]
    /\ crossed = [r \in Reqs |-> {}]

\* a synchronisation of one node begins
Open(r) ==
    /\ call[r].state = "idle"
    /\ \E n \in Nodes, ask \in SUBSET Grants :
        call' = [call EXCEPT ![r] = [state |-> "open", ns |-> {n}, ask |-> ask]]
    /\ UNCHANGED <<nodes, roles, access, crossed>>

\* ... and takes effect
Sync(r) ==
    /\ call[r].state = "open"
    /\ call' = [call EXCEPT ![r].state = "done"]
    /\ \A n \in call[r].ns :
        IF crossed[r] = {}
        THEN access'[n] = Valid(n, call[r].ask)
        ELSE /\ call[r].ask \cap access[n] \subseteq access'[n]
             /\ access'[n] \subseteq Valid(n, call[r].ask \cup AskedMeanwhile(r))
    /\ access' \in [Nodes -> SUBSET Grants]
    /\ \A n \in Nodes \ call[r].ns : access'[n] = access[n]
    /\ Effect(r, call[r].ns)
    /\ UNCHANGED <<nodes, roles>>

\* sharing adds grants to some nodes, in one step
Share(r) ==
    /\ call[r].state = "idle"
    /\ \E ns \in SUBSET Nodes, ask \in SUBSET Grants :
        /\ ~Missing(ns, ask)
        /\ call' = [call EXCEPT ![r] = [state |-> "done", ns |-> ns, ask |-> ask]]
        /\ access' = [n \in Nodes |-> IF n \in ns THEN access[n] \cup ask ELSE access[n]]
        /\ Effect(r, ns)
    /\ UNCHANGED <<nodes, roles>>

\* a request fails only when what it names is gone, and then changes nothing
Fail(r) ==
    /\ \/ /\ call[r].state = "open"
          /\ Missing(call[r].ns, call[r].ask)
          /\ call' = [call EXCEPT ![r].state = "failed"]
       \/ /\ call[r].state = "idle"
          /\ \E ns \in SUBSET Nodes, ask \in SUBSET Grants :
                /\ Missing(ns, ask)
                /\ call' = [call EXCEPT ![r] = [state |-> "failed", ns |-> ns, ask |-> ask]]
    /\ UNCHANGED <<nodes, roles, access, crossed>>

\* nodes and roles go with their grants
Remove ==
    /\ nodes' \subseteq nodes
    /\ roles' \subseteq roles
    /\ access' = [n \in Nodes |-> {g \in access[n] : n \in nodes' /\ RoleOf(g) \in roles'}]
    /\ UNCHANGED <<call, crossed>>

Next == (\E r \in Reqs : Open(r) \/ Sync(r) \/ Share(r) \/ Fail(r)) \/ Remove

Spec == Init /\ [][Next]_vars

=============================================================================
