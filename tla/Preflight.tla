------------------------------ MODULE Preflight ------------------------------
(***************************************************************************)
(* The decisions made before a run, as functions of a request: the tier    *)
(* (planning/planner.py), the model of each step (routing/router.py), the  *)
(* context of each role (context/engine.py) and the proposal that composes *)
(* them (preflight.py).  Estimates, reasons and the ledger are left out.   *)
(*                                                                         *)
(* X_Variant before X is X with a plausible bug, used by no specification. *)
(***************************************************************************)
EXTENDS Naturals, Sequences

CONSTANTS
    Tasks,          \* task ids
    Models,         \* model names
    Capabilities,
    Registry,       \* ModelRegistry.candidates, in order
    StepIds,        \* the planner's steps,
    RoleOf,         \* the role of each
    Needs,          \* and the capabilities it requires
    Roles,
    Slices,         \* texts a context may consist of
    Relevant,       \* the slices that mention a keyword of each role
    Long            \* the slices of more than 20 words

\* PlanTier, by its place in TIER_ORDER.
Tiers == 1 .. 4
Balanced == 2

Candidate == [name : Models, capabilities : SUBSET Capabilities, tiers : SUBSET Tiers]

(***************************************************************************)
(* A request with its task contract: ample is max_cost_usd >= 1, urgent    *)
(* max_latency_seconds <= 60, allowed and contract the allowed_models of   *)
(* the request and of the contract's constraints.                          *)
(***************************************************************************)
Request == [task : Tasks, risk : {"low", "medium", "high"}, ample : BOOLEAN,
            urgent : BOOLEAN, allowed : SUBSET Models, contract : SUBSET Models,
            context : Seq(Slices)]

ASSUME PreflightAssumption ==
    /\ Registry \in Seq(Candidate)
    /\ "mock-research" \in Models
    /\ RoleOf \in [StepIds -> Roles]
    /\ Needs \in [StepIds -> SUBSET Capabilities]
    /\ Relevant \in [Roles -> SUBSET Slices]
    /\ Long \subseteq Slices

-----------------------------------------------------------------------------
(* The planner                                                             *)

Bump_Unbounded(tier, steps) == tier + steps
Bump(tier, steps) == IF tier + steps > 4 THEN 4 ELSE tier + steps

SelectTier(r) ==
    LET base == CASE r.risk = "high" -> 3 [] r.risk = "medium" -> 2 [] r.risk = "low" -> 1
        paid == IF r.ample THEN Bump(base, 1) ELSE base
    IN  IF r.urgent THEN Bump(paid, 1) ELSE paid

-----------------------------------------------------------------------------
(* The router                                                              *)

\* Those of S that qualify, or S if none does.
Prefer(S, T) == IF S \cap T = {} THEN S ELSE S \cap T

Capable(cap)     == {i \in DOMAIN Registry : cap \in Registry[i].capabilities}
FitFor(tier)     == {i \in DOMAIN Registry : tier \in Registry[i].tiers}
Permitted(names) == {i \in DOMAIN Registry : Registry[i].name \in names}

Pool_AllowedFirst(cap, tier, names) ==
    LET capable == Prefer(DOMAIN Registry, Capable(cap))
        permitted == IF names = {} THEN capable ELSE Prefer(capable, Permitted(names))
    IN  Prefer(permitted, FitFor(tier))

Pool(cap, tier, names) ==
    LET capable == Prefer(DOMAIN Registry, Capable(cap))
        fitting == Prefer(capable, FitFor(tier))
    IN  IF names = {} THEN fitting ELSE Prefer(fitting, Permitted(names))

First(S) == CHOOSE i \in S : \A j \in S : i <= j

\* select(): the first of the pool; with an empty registry a static default.
Select(cap, tier, names) ==
    LET pool == Pool(cap, tier, names)
    IN  IF pool = {} THEN "mock-research" ELSE Registry[First(pool)].name

-----------------------------------------------------------------------------
(* The context engine                                                      *)

Manifest(context, role) ==
    LET relevant(s) == s \in Relevant[role]
        rest(s) == ~relevant(s)
    IN  [included   |-> SelectSeq(context, relevant),
         compressed |-> SelectSeq(context, LAMBDA s : rest(s) /\ s \in Long),
         excluded   |-> SelectSeq(context, LAMBDA s : rest(s) /\ s \notin Long)]

-----------------------------------------------------------------------------
(* build_preflight()                                                       *)

Allowed(r) == IF r.allowed # {} THEN r.allowed ELSE r.contract

Needed == UNION {{s} \X Needs[s] : s \in StepIds}

\* The ids are derived from the content of the request, which stands for them.
Proposal(r) ==
    [id |-> r,
     task |-> r.task,
     tier |-> SelectTier(r),
     manifests |-> [s \in StepIds |-> Manifest(r.context, RoleOf[s])],
     routes |-> [n \in Needed |-> Select(n[2], SelectTier(r), Allowed(r))]]
=============================================================================
