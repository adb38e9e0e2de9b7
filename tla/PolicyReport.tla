---------------------------- MODULE PolicyReport ----------------------------
(***************************************************************************)
(* The events policy/engine.py hands back to be appended to a finished     *)
(* run: evaluate_observe() and evaluate(), through _emit_decision().  Each *)
(* comes with the event it points at, whose step and agent it takes over   *)
(* (0 when the decision is about the whole run).                           *)
(***************************************************************************)
EXTENDS PolicyEngine, RunSummary, SequencesExt

Reports(p, action, log, max) ==
    LET hits == Ascending(Hits(p, log, max))
        decision(i) == Intervention(p, action, IF i = 0 THEN NoTool ELSE log[i].tool)
        pair(i) == [k \in 1 .. 2 |-> [event |-> decision(i)[k], at |-> i]]
    IN  FlattenSeq([k \in DOMAIN hits |-> pair(hits[k])])

\* evaluate_observe(): DEFAULT_OBSERVE_POLICIES, each match with "observe".
Observed(log) == Reports("duplicate_tool_protection", "observe", log, NoMax)
                     \o Reports("retry_budget", "observe", log, NoMax)

\* evaluate(): the five policies in the order the function takes them.
InOrder == <<"duplicate_tool_protection", "retry_budget", "cost_budget",
             "stall_protection", "loop_protection">>

Evaluated(log, max) ==
    FlattenSeq([k \in DOMAIN InOrder |-> Reports(InOrder[k], Decide(InOrder[k]), log, max)])
=============================================================================
