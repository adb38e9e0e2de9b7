----------------------------- MODULE RunSummary -----------------------------
(***************************************************************************)
(* analytics/run_summary.py: what summarize() counts in the events of a    *)
(* run.  Steps, tokens, latency, memories and routing rows are left out.   *)
(***************************************************************************)
EXTENDS Naturals, FiniteSets, FiniteSetsExt

Of(log, type) == {i \in DOMAIN log : log[i].type = type}

Count(log, type) == Cardinality(Of(log, type))

\* The members of a finite set of numbers, the least first, and the entries of
\* a log at such places: [e for e in events if ...].
Ascending(S) ==
    [k \in 1 .. Cardinality(S) |-> CHOOSE i \in S : Cardinality({j \in S : j < i}) = k - 1]

Entries(log, S) == [k \in 1 .. Cardinality(S) |-> log[Ascending(S)[k]]]

CostOf(log, S) == MapThenSumSet(LAMBDA i : log[i].cost, S)

Duplicates(log, S) == Cardinality({i \in S : log[i].dup})

\* per_tool and per_model, one row for each name.
Row(log, type, name) ==
    LET done == {i \in Of(log, type) : log[i].tool = name}
    IN  [calls |-> Cardinality(done), duplicates |-> Duplicates(log, done),
         cost |-> CostOf(log, done)]

Summarize(log, names) ==
    [cost          |-> CostOf(log, DOMAIN log),
     model_calls   |-> Count(log, "model.completed"),
     tool_calls    |-> Count(log, "tool.completed"),
     retries       |-> Count(log, "retry.scheduled"),
     duplicates    |-> Duplicates(log, Of(log, "tool.completed")),
     cache_served  |-> Count(log, "optimization.applied"),
     policy        |-> Count(log, "policy.triggered"),
     interventions |-> Count(log, "intervention.applied"),
     per_tool      |-> [n \in names |-> Row(log, "tool.completed", n)],
     per_model     |-> [n \in names |-> Row(log, "model.completed", n)]]
=============================================================================
