----------------------- MODULE MCSupervisedWorkflow -----------------------
(***************************************************************************)
(* An instance of SupervisedWorkflow: three competitors instead of eight,  *)
(* which is where the sixth retry comes, and the manifests the context     *)
(* engine makes of MASTER_CONTEXT for each role.                           *)
(***************************************************************************)
EXTENDS SupervisedWorkflow

MCCompetitors == <<"AlphaCorp", "BetaStack", "GammaFlow">>

question    == <<"question", "what", "competitors">>
policy      == <<"policy", "approved", "sources">>
langchain   == <<"competitor", "langchain", "frameworks">>
agentops    == <<"competitor", "agentops", "observability">>
evidence    == <<"evidence", "primary", "source">>
rubric      == <<"rubric", "eight", "competitors">>
constraint  == <<"constraint", "cost", "budget">>
audience    == <<"audience", "platform", "lead">>
format      == <<"format", "markdown", "table">>

MCPlanned ==
    [researcher |-> Slices(<<question, policy, langchain, agentops, evidence, rubric>>, 3, 1),
     analyst    |-> Slices(<<evidence, rubric, constraint>>, 6, 1),
     writer     |-> Slices(<<rubric, audience, format>>, 6, 1)]

MCPolicies ==
    [p \in {"duplicate_tool_protection", "retry_budget", "cost_budget",
            "stall_protection", "loop_protection"} |->
        [mode |-> "enforce", enabled |-> TRUE,
         action |-> IF p = "duplicate_tool_protection" THEN "block" ELSE "stop"]]

Active == [Setting("1", {"OPTIMIZE", "CACHE_APPROVED"}) EXCEPT !["OPTIMIZE_MODE"] = "active"]

OnFiles(e) == [e EXCEPT !["CACHE_BACKEND"] = "file"]

\* Approved by the partners, not by the override.
Confirmed == [Active EXCEPT !["CACHE_APPROVED"] = "unset", !["CACHE_CONFIRMATIONS"] = "3"]

MCEnvironments ==
    {Setting("1", {}),
     Setting("1", {"ENFORCE"}),
     Setting("true", {"ENFORCE", "PLAN"}),
     Setting("1", {"OPTIMIZE"}),
     Active,
     [Active EXCEPT !["ENFORCE"] = "1"],
     Setting("true", {"MEMORY"}),
     Setting("1", {"MEMORY", "PLAN"}),
     OnFiles(Confirmed),
     OnFiles([Active EXCEPT !["ENFORCE"] = "1"])}

MCPacketHomes ==
    {Setting("1", {}), [Active EXCEPT !["ENFORCE"] = "1"],
     OnFiles([Active EXCEPT !["ENFORCE"] = "1"])}
=============================================================================
