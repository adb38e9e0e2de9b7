---------------------------- MODULE RunExplorer ----------------------------
(***************************************************************************)
(* The views of a finished run: the rest of analytics/run_summary.py,      *)
(* console/explorer.py with context/diversification.py, and the scorecard  *)
(* of evaluation/scorecard.py.                                             *)
(*                                                                         *)
(* log is the run's trace.  Beside the fields of Policies!Event an entry   *)
(* has step and agent ("" when the event has none), match (match_type),    *)
(* saved (estimated_savings_usd), label (tier or routing), context and     *)
(* counts.                                                                 *)
(*                                                                         *)
(* X_Variant before X is X with a plausible bug, used by no specification. *)
(***************************************************************************)
EXTENDS TextKeys, RunSummary, SequencesExt

\* next((e for e in events if ...), None): 0 when there is none.
FirstOf(log, type) == IF Of(log, type) = {} THEN 0 ELSE Min(Of(log, type))

TierOn(log) == LET i == FirstOf(log, "run.started")
               IN  IF i = 0 THEN "none" ELSE log[i].label

Verdict(log) == LET i == FirstOf(log, "validation.completed")
                IN  IF i = 0 THEN "none" ELSE log[i].status

\* The requests the detector matched, and the calls it served or would have.
Matched(log) ==
    {i \in Of(log, "tool.requested") \cup Of(log, "model.requested") :
        log[i].match # "none"}

Reused(log) == Of(log, "optimization.applied") \cup Of(log, "optimization.recommended")

Placed(log) == {i \in DOMAIN log : log[i].step # ""}

StepRow(log, step) ==
    LET here(type) == {i \in Of(log, type) : log[i].step = step}
    IN  [model_calls |-> Cardinality(here("model.completed")),
         tool_calls  |-> Cardinality(here("tool.completed")),
         retries     |-> Cardinality(here("retry.scheduled")),
         cost |-> CostOf(log, here("model.completed") \cup here("tool.completed"))]

\* summarize(), beside what Summarize counts.
Details(log) ==
    [plan_tier           |-> TierOn(log),
     validation_status   |-> Verdict(log),
     context_attached    |-> Count(log, "context.attached"),
     cache_hits          |-> Cardinality(Matched(log)),
     semantic_duplicates |-> Cardinality({i \in Matched(log) : log[i].match = "semantic"}),
     savings             |-> MapThenSumSet(LAMBDA i : log[i].saved, Reused(log)),
     cache_reuse         |-> Cardinality(Reused(log)),
     memories_retrieved  |-> MapThenSumSet(LAMBDA i : log[i].counts[1],
                                           Of(log, "memory.retrieved")),
     routing  |-> {i \in Of(log, "model.requested") : log[i].label # "none"},
     per_step |-> [s \in {log[i].step : i \in Placed(log)} |-> StepRow(log, s)]]

-----------------------------------------------------------------------------
(* console/explorer.py                                                     *)

Turns(path) ==
    LET pairs == [i \in 1 .. Len(path) - 1 |-> <<path[i].step, path[i + 1].step>>]
    IN  Entries(pairs, {i \in DOMAIN pairs : pairs[i][1] # pairs[i][2]})

\* An edge wherever the step changes; events without a step are passed over.
ExecutionGraph_Stepless(log) ==
    [nodes |-> [s \in {log[i].step : i \in Placed(log)} |->
                   Cardinality({i \in Placed(log) : log[i].step = s})],
     edges |-> Turns(log)]

ExecutionGraph(log) ==
    [nodes |-> [s \in {log[i].step : i \in Placed(log)} |->
                   Cardinality({i \in Placed(log) : log[i].step = s})],
     edges |-> Turns(Entries(log, Placed(log)))]

AgentGraph(log) ==
    LET by(a) == {i \in DOMAIN log : log[i].agent = a}
        agents == {log[i].agent : i \in DOMAIN log} \ {""}
    IN  [a \in agents |-> [events |-> Cardinality(by(a)),
                           steps  |-> {log[i].step : i \in by(a) \cap Placed(log)}]]

PolicyView(log) ==
    [policy |-> Entries(log, Of(log, "policy.triggered")),
     interventions |-> Entries(log, Of(log, "intervention.applied"))]

\* A served call without a match (another run's entry) is still taken off the
\* matched ones.
CacheView(log) ==
    LET requested == Cardinality(Matched(log))
        served == Count(log, "optimization.applied")
    IN  [hits |-> requested, served |-> served,
         misses |-> IF requested > served THEN requested - served ELSE 0]

\* compression_reports(), diversification_reports() and what the view adds.
ContextView(log) ==
    LET attached == Entries(log, Of(log, "context.attached"))
        diversity == [i \in DOMAIN attached |-> Diversity(attached[i].context.included)]
    IN  [compression |-> [i \in DOMAIN attached |->
             [step |-> attached[i].step, included |-> Len(attached[i].context.included),
              excluded |-> attached[i].context.excluded,
              compressed |-> attached[i].context.compressed]],
         diversification |-> diversity,
         redundant_slices |-> Cardinality({i \in DOMAIN diversity :
                                               diversity[i].redundant > 0})]

\* An estimate exists only for a run that was planned and whose task is known.
EstimatedVsActual(log, known) ==
    [actual |-> CostOf(log, DOMAIN log), estimated |-> known /\ TierOn(log) # "none"]

Explore(log, names, known) ==
    [summary |-> Summarize(log, names), details |-> Details(log),
     execution_graph |-> ExecutionGraph(log), agent_graph |-> AgentGraph(log),
     planner |-> TierOn(log), estimated_vs_actual |-> EstimatedVsActual(log, known),
     policy |-> PolicyView(log), validation |-> Verdict(log),
     cache |-> CacheView(log), context |-> ContextView(log)]

-----------------------------------------------------------------------------
(* evaluation/scorecard.py                                                 *)

ValidationPassed(log) ==
    \E i \in Of(log, "validation.completed") : log[i].status = "pass"

\* A saving is claimed only when both runs passed their validation.
Scorecard_Ungated(baseline, supervised) ==
    LET delta == CostOf(baseline, DOMAIN baseline) - CostOf(supervised, DOMAIN supervised)
    IN  [validation_preserved |-> TRUE, cost_delta |-> delta,
         claimed_savings |-> IF delta > 0 THEN delta ELSE 0, blocked |-> delta <= 0]

Scorecard(baseline, supervised) ==
    LET preserved == ValidationPassed(baseline) /\ ValidationPassed(supervised)
        delta == CostOf(baseline, DOMAIN baseline) - CostOf(supervised, DOMAIN supervised)
    IN  [validation_preserved |-> preserved, cost_delta |-> delta,
         claimed_savings |-> IF preserved /\ delta > 0 THEN delta ELSE 0,
         blocked |-> ~preserved \/ delta <= 0]
=============================================================================
