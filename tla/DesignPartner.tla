--------------------------- MODULE DesignPartner ---------------------------
(***************************************************************************)
(* scripts/design_partner_demo.py: the flag presets, the environment a     *)
(* demo runs under and the observation packet made of its trace.  The      *)
(* SUPERVISOR_ prefix of the variables is left out; "unset" stands for a   *)
(* variable that is not in os.environ.                                     *)
(*                                                                         *)
(* X_Variant before X is X with a plausible bug, used by no specification. *)
(***************************************************************************)
EXTENDS RunExplorer

\* CACHE_DIR is left out: what matters of it is which runs share a directory.
Variables == {"ENFORCE", "PLAN", "OPTIMIZE", "OPTIMIZE_MODE", "MEMORY", "CACHE_APPROVED",
              "CACHE_CONFIRMATIONS", "CACHE_BACKEND"}

\* env_keys of _run_with_flags.  The variables of the cache are not among them,
\* though the presets set one of these.
EnvKeys == {"ENFORCE", "PLAN", "OPTIMIZE", "OPTIMIZE_MODE", "MEMORY"}

Setting(value, keys) == [v \in Variables |-> IF v \in keys THEN value ELSE "unset"]

Optimizing(keys) ==
    [Setting("1", {"OPTIMIZE", "CACHE_APPROVED"} \cup keys) EXCEPT !["OPTIMIZE_MODE"] = "active"]

FlagPresets ==
    [baseline        |-> Setting("1", {}),
     plan            |-> Setting("1", {"PLAN"}),
     optimize_active |-> Optimizing({}),
     memory          |-> Setting("1", {"MEMORY"}),
     all             |-> Optimizing({"PLAN", "MEMORY"})]


Flagged(env, flags) ==
    [v \in Variables |->
        IF flags[v] # "unset" THEN flags[v]
        ELSE IF v \in EnvKeys THEN "unset" ELSE env[v]]

\* The finally clause: env_keys as they were before, the rest as it is.
Restored(env, before) == [v \in Variables |-> IF v \in EnvKeys THEN before[v] ELSE env[v]]

-----------------------------------------------------------------------------
(* build_packet()                                                          *)

\* _cost_tiers: the cost it reports of each model call is the one on
\* model.requested, which carries none.
CostTiers(log, flags) ==
    LET asked == Entries(log, Of(log, "model.requested"))
    IN  [plan_enabled |-> flags["PLAN"] # "unset", plan_tier |-> TierOn(log),
         total_cost |-> CostOf(log, DOMAIN log),
         per_model_cost |-> [i \in DOMAIN asked |->
                                <<asked[i].tool, asked[i].step, asked[i].cost>>]]

PacketInterventions(log) ==
    [applied |-> Count(log, "intervention.applied"),
     triggered |-> Count(log, "policy.triggered")]

\* _cacheable_calls: the calls of one tool with one input are a group.  All
\* calls of this workflow are idempotent, so a repeated group is a candidate.
CacheableCalls(log) ==
    LET group(i) == <<log[i].tool, log[i].hash>>
        asked == Of(log, "tool.requested")
        size(g) == Cardinality({i \in asked : group(i) = g})
        groups == {group(i) : i \in asked}
    IN  [distinct |-> Cardinality(groups),
         candidates |-> {<<g, size(g)>> : g \in {h \in groups : size(h) > 1}},
         hits |-> CacheView(log).hits, served |-> CacheView(log).served,
         savings |-> Details(log).savings]

Freshness(log, flags) ==
    [memory_enabled |-> flags["MEMORY"] # "unset",
     memory_retrieved |-> {log[i].counts[1] : i \in Of(log, "memory.retrieved")}]

Rerouting(log, flags) ==
    [plan_enabled |-> flags["PLAN"] # "unset",
     routed_calls |-> {<<log[i].step, log[i].tool, log[i].label>> : i \in Details(log).routing}]

Packet(scenario, preset, log) ==
    LET flags == FlagPresets[preset]
    IN  [scenario |-> scenario, flag_preset |-> preset,
         task_contract_met |-> Verdict(log) = "pass",
         cost_tiers |-> CostTiers(log, flags), interventions |-> PacketInterventions(log),
         cacheable_calls |-> CacheableCalls(log), freshness |-> Freshness(log, flags),
         rerouting |-> Rerouting(log, flags)]

\* What of a packet does not depend on results that another run has left.
Evidence(packet) ==
    [packet EXCEPT !.cost_tiers.total_cost = 0, !.cacheable_calls.served = 0,
                   !.cacheable_calls.savings = 0]
=============================================================================
