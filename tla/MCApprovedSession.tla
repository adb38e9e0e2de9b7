------------------------- MODULE MCApprovedSession -------------------------
(***************************************************************************)
(* A small preflight: a modest request, a demanding one that names a model *)
(* and a request for another task, over a registry in which the preferred  *)
(* model depends on the tier.                                              *)
(***************************************************************************)
EXTENDS ApprovedSession

MCTasks == {"t", "u"}
MCModels == {"mock-research", "cheap", "premium"}
MCCapabilities == {"research", "review"}

MCRegistry == <<
    [name |-> "cheap", capabilities |-> {"research"}, tiers |-> {1, 2}],
    [name |-> "mock-research", capabilities |-> {"research"}, tiers |-> {1, 2, 3, 4}],
    [name |-> "premium", capabilities |-> {"research", "review"}, tiers |-> {3, 4}] >>

MCStepIds == {"research", "synthesis"}
MCRoles == {"researcher", "writer"}
MCRoleOf == [s \in MCStepIds |-> IF s = "research" THEN "researcher" ELSE "writer"]
MCNeeds == [s \in MCStepIds |-> IF s = "research" THEN MCCapabilities ELSE {"research"}]

MCSlices == {"question", "essay", "aside"}
MCRelevant == [r \in MCRoles |-> IF r = "researcher" THEN {"question"} ELSE {"essay"}]
MCLong == {"essay"}

Modest == [task |-> "t", risk |-> "low", ample |-> FALSE, urgent |-> FALSE,
           allowed |-> {}, contract |-> {}, context |-> <<"question", "essay">>]
Demanding == [Modest EXCEPT !.risk = "high", !.ample = TRUE, !.urgent = TRUE]
Naming == [Demanding EXCEPT !.allowed = {"cheap"}, !.context = <<"aside">>]
Elsewhere == [Modest EXCEPT !.task = "u"]

MCRequests == {Modest, Naming, Elsewhere}
MCContract == [Modest EXCEPT !.risk = "medium", !.context = << >>]
=============================================================================
