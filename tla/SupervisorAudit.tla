-------------------------- MODULE SupervisorAudit --------------------------
(***************************************************************************)
(* The live runtime against the offline engine: the events a supervised    *)
(* run leaves, evaluated as the demo does after finish_run (evaluate with  *)
(* the contract's max_cost_usd, RETRY_BUDGET equal to the live limit).     *)
(***************************************************************************)
EXTENDS SupervisorRun, RunSummary

CONSTANT LoopLimit   \* LOOP_LIMIT

\* The tools and models an application names are finitely many.
ASSUME AuditAssumption == IsFiniteSet(Tools)

Engine == INSTANCE PolicyEngine WITH
    RetryBudget <- RetryLimit, NoMax <- NoLimit

\* The calls that have completed in the trace and are not charged yet.
Uncharged == {c \in Callers : pc[c] = "record"}
Owed == CostOf([c \in Uncharged |-> frame[c].req], Uncharged)

\* The completions that count as duplicates although the call was answered.
LetThrough ==
    {i \in Positions("tool.completed") : events[i].dup /\ events[i].status # "blocked"}

\* What the summary of a run reports is what the run did: its cost is what the
\* budget was charged, or is about to be, and what the models took, so that
\* nothing is charged twice or dropped between the completion and the charge;
\* the rows of tools and models add up to it; every trigger has its
\* intervention; and with deduplication on, the duplicates it counts are the calls
\* that were blocked and, of those that were not, only calls the application
\* itself marked (summarize() of analytics/run_summary.py over the collector's
\* events, at any moment).
SummaryAddsUp ==
    LET s == Summarize(events, Tools)
    IN  /\ s.cost = CostOf(s.per_tool, Tools) + CostOf(s.per_model, Tools)
        /\ CostOf(s.per_tool, Tools) = cost + Owed
        /\ s.policy = s.interventions
        /\ DedupOn =>
              /\ s.duplicates = Cardinality(Interventions("duplicate_tool_protection"))
                                + Cardinality(LetThrough)
              /\ \A i \in LetThrough :
                    \E r \in ToolRequests :
                        r.marked /\ Key(r) = <<events[i].tool, events[i].hash>>

\* Whatever the live guards interrupted or blocked for cost or duplication,
\* the offline evaluation of the same trace reports too, with the same action
\* (policy/engine.py evaluate over the collector's events).
LiveInterventionsConfirmed ==
    \A p \in {"duplicate_tool_protection", "cost_budget"} :
        \A i \in Interventions(p) :
            \E d \in Engine!Evaluate(events, CostLimit) :
                d.policy = p /\ d.action = events[i].action

-----------------------------------------------------------------------------
(* Claims of the documentation that the code does not keep.                *)

Quiet == \A c \in Callers : pc[c] = "idle"

\* docs/policy-engine.md: cost_budget stops the run when "total_cost_usd" is
\* above max_cost_usd: a run that nothing stopped has stayed within it.  model()
\* records its cost in the trace only.
CostBudgetCoversRun ==
    Decide("cost_budget") = "stop" /\ Quiet /\ interruptions = 0 /\ CostLimit # NoLimit =>
        Engine!TraceCost(events) <= CostLimit
=============================================================================
