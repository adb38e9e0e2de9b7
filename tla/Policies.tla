------------------------------ MODULE Policies ------------------------------
(***************************************************************************)
(* The policy vocabulary shared by the live runtime (sdk/supervisor.py     *)
(* with policy/enforcement.py) and the offline engine (policy/engine.py),  *)
(* and the decision both take when a policy matches.                       *)
(*                                                                         *)
(* X_Variant before X is X with a plausible bug, used by no specification. *)
(***************************************************************************)
EXTENDS Naturals, Sequences

CONSTANTS
    Tools,      \* tool and model names
    Hashes,     \* the normalized input hashes callers pass
    NoTool,     \* an event that names no tool
    NoHash,     \* a call made without normalized_input_hash
    Enforce,    \* Supervisor(enforce=...)
    PolicyOf    \* policy id -> its configured mode, action and enabled flag

PolicyIds == {"duplicate_tool_protection", "retry_budget", "cost_budget",
              "stall_protection", "loop_protection"}

\* "absent": no policy with that id was passed to the Supervisor.
Modes   == {"observe", "warn", "enforce", "absent"}
Actions == {"warn", "block", "pause", "retry", "reroute", "handoff", "stop"}

ASSUME PolicyAssumption ==
    /\ Enforce \in BOOLEAN
    /\ PolicyOf \in [PolicyIds -> [mode : Modes, action : Actions,
                                   enabled : BOOLEAN]]
    /\ NoTool \notin Tools
    /\ NoHash \notin Hashes

\* Enforcer.decide: the configured action, or "observe" (allow = TRUE) unless
\* the runtime enforces and the policy itself is in ENFORCE mode.  The enabled
\* flag is not consulted.
Decide_IgnoresEnforce(p) ==
    IF PolicyOf[p].mode = "enforce" THEN PolicyOf[p].action ELSE "observe"

Decide(p) ==
    IF Enforce /\ PolicyOf[p].mode = "enforce" THEN PolicyOf[p].action
                                               ELSE "observe"

(***************************************************************************)
(* Run events, reduced to what the policies and the properties read.  slow *)
(* abstracts duration_ms: longer than the contract's max_latency_seconds.  *)
(***************************************************************************)
EventTypes ==
    {"run.started", "run.completed", "run.failed",
     "tool.requested", "tool.completed", "model.requested", "model.completed",
     "policy.triggered", "intervention.applied",
     "optimization.recommended", "optimization.applied",
     "retry.scheduled", "retry.completed"}

Statuses == {"none", "ok", "error", "blocked"}

Event == [type   : EventTypes,
          tool   : Tools \cup {NoTool},
          hash   : Hashes \cup {NoHash},
          status : Statuses,
          dup    : BOOLEAN,
          cost   : Nat,
          slow   : BOOLEAN,
          policy : PolicyIds \cup {"none"},
          action : Actions \cup {"none", "observe"}]

Plain(type, tool, status) ==
    [type |-> type, tool |-> tool, hash |-> NoHash, status |-> status,
     dup |-> FALSE, cost |-> 0, slow |-> FALSE, policy |-> "none",
     action |-> "none"]

\* emit_intervention: the trigger and the applied action, in that order.
Intervention_Silent(p, action, tool) ==
    << [Plain("intervention.applied", tool, "none")
            EXCEPT !.policy = p, !.action = action] >>

Intervention(p, action, tool) ==
    << [Plain("policy.triggered", tool, "none")
            EXCEPT !.policy = p, !.action = action],
       [Plain("intervention.applied", tool, "none")
            EXCEPT !.policy = p, !.action = action] >>
=============================================================================
