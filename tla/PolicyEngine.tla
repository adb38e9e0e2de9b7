---------------------------- MODULE PolicyEngine ----------------------------
(***************************************************************************)
(* policy/engine.py: the offline evaluation of a run's events.  A decision *)
(* names the policy, the action it carries and the event it points at (0   *)
(* for a decision about the whole run).                                    *)
(***************************************************************************)
EXTENDS Policies, FiniteSets, FiniteSetsExt

CONSTANTS
    RetryBudget,   \* RETRY_BUDGET
    LoopLimit,     \* LOOP_LIMIT
    NoMax          \* max_cost_usd is None

HashedCompletions(log) ==
    {i \in DOMAIN log : log[i].type = "tool.completed" /\ log[i].hash # NoHash}

SameCall(e, f) == e.tool = f.tool /\ e.hash = f.hash

\* The completions of the same call before event i.
Earlier(log, i) ==
    {j \in HashedCompletions(log) : j < i /\ SameCall(log[j], log[i])}

\* seen_status when event i is reached: the status of the latest one only.
SeenStatus(log, i) ==
    IF Earlier(log, i) = {} THEN "none" ELSE log[Max(Earlier(log, i))].status

DuplicateHits(log) == {i \in HashedCompletions(log) : SeenStatus(log, i) = "ok"}

RetriesScheduled(log) ==
    Cardinality({i \in DOMAIN log : log[i].type = "retry.scheduled"})

TraceCost(log) == MapThenSumSet(LAMBDA i : log[i].cost, DOMAIN log)

SlowSteps(log) == {i \in DOMAIN log : log[i].type = "tool.completed" /\ log[i].slow}

Repeats(log) ==
    {i \in HashedCompletions(log) : Cardinality(Earlier(log, i)) + 1 > LoopLimit}

First(S) == IF S = {} THEN {} ELSE {Min(S)}

\* The events each policy points at; an absent policy is not evaluated.  max is
\* the max_cost_usd argument.
Hits(p, log, max) ==
    IF PolicyOf[p].mode = "absent" THEN {} ELSE
    CASE p = "duplicate_tool_protection" -> DuplicateHits(log)
      [] p = "retry_budget" -> IF RetriesScheduled(log) > RetryBudget THEN {0} ELSE {}
      [] p = "cost_budget"  -> IF max # NoMax /\ TraceCost(log) > max
                               THEN {0} ELSE {}
      [] p = "stall_protection" -> First(SlowSteps(log))
      [] p = "loop_protection"  -> First(Repeats(log))

\* evaluate(): every hit of every policy, with the action enforcement gives it.
Evaluate(log, max) ==
    UNION {{[policy |-> p, action |-> Decide(p), at |-> i] : i \in Hits(p, log, max)} :
               p \in PolicyIds}
=============================================================================
