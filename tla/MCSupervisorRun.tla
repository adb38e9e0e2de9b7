-------------------------- MODULE MCSupervisorRun --------------------------
(***************************************************************************)
(* Small instances of SupervisorRun: one tool with two versions of the     *)
(* same call, a failing call, an unhashed slow call, and one model.        *)
(***************************************************************************)
EXTENDS SupervisorAudit, TLC

Call(tool, hash, input, scope, amount) ==
    [tool |-> tool, hash |-> hash, input |-> input, scope |-> scope,
     cacheable |-> TRUE, failed |-> FALSE, marked |-> FALSE, slow |-> FALSE,
     cost |-> amount]

CONSTANTS search, gpt

Search   == Call(search, "h", "i", "v1", 1)
SearchV2 == [Search EXCEPT !.scope = "v2"]
Failing  == [Search EXCEPT !.failed = TRUE]
Marked   == [SearchV2 EXCEPT !.marked = TRUE]
Unhashed == [Call(search, NoHash, "j", "v1", 2) EXCEPT !.slow = TRUE]
Ask      == Call(gpt, NoHash, "p", "v1", 2)

MCTools  == {search, gpt}
MCHashes == {"h"}
MCInputs == {"i", "j", "p"}
MCScopes == {"v1", "v2"}
MCSimilar == {{"i", "j"}}

Enforcing(action) == [mode |-> "enforce", action |-> action, enabled |-> TRUE]

\* DEFAULT_ENFORCE_POLICIES.
DefaultPolicies ==
    [p \in PolicyIds |-> Enforcing(IF p = "duplicate_tool_protection"
                                   THEN "block" ELSE "stop")]

\* The cost policy pauses for approval, the retry policy only warns.
ReviewPolicies ==
    [DefaultPolicies EXCEPT !["cost_budget"].action = "pause",
                            !["retry_budget"].action = "warn"]

AllTools   == {Search, SearchV2, Failing, Unhashed}
Reusable   == {Search, Marked, Failing}
KeyedTools == {Search, SearchV2, Failing}
OneModel   == {Ask}

Symmetry == Permutations(Callers)
=============================================================================
