--------------------------- MODULE ApprovedSession ---------------------------
(***************************************************************************)
(* From proposal to run: plan(), preflight(), approve_preflight() and      *)
(* route_model() of one Supervisor (sdk/supervisor.py), and the sessions   *)
(* that apply an approved proposal to it (runtime/session.py).             *)
(*                                                                         *)
(* Agents are the threads of the application.  plan() and preflight()      *)
(* build first and then assign the plan and its tier, two fields that the  *)
(* other threads read.  Proposals and decisions are plain data: they come  *)
(* from this Supervisor, from another one or from a store, and any of them *)
(* may be presented with any other.                                        *)
(*                                                                         *)
(* X_Variant before X is X with a plausible bug, used by no specification. *)
(***************************************************************************)
EXTENDS Preflight, FiniteSets

CONSTANTS
    Agents,       \* threads of the application
    Planners,     \* those that plan and preflight
    Requests,     \* the requests proposals are built from
    Contract,     \* the Supervisor's task contract, as a request without context
    NoPlan, NoWork, NoSession,
    MaxEvents     \* bound: events in the trace

ASSUME SessionAssumption ==
    /\ IsFiniteSet(Agents)
    /\ Planners \subseteq Agents
    /\ Requests \subseteq Request
    /\ Contract \in Request
    /\ MaxEvents \in Nat

Proposals == {Proposal(r) : r \in Requests}

\* ApprovalStatus; a decision may also say "advisory", which admits nothing.
Statuses == {"approved", "rejected"}

\* Where a plan comes from (a proposal's id, or plan() itself) and its tier.
OwnPlan == [by |-> NoWork, tier |-> SelectTier(Contract)]
PlanOf(p) == [by |-> p.id, tier |-> p.tier]
Plans == {OwnPlan} \cup {PlanOf(p) : p \in Proposals}

\* What a planner is doing: the plan it has built and the field it assigns next.
Work == {w \in [how : {"plan", "preflight"}, plan : Plans, step : {"plan", "tier"}] :
            w.how = "preflight" <=> w.plan.by # NoWork}

ASSUME PlanAssumption == NoPlan \notin Plans /\ NoWork \notin Requests \cup Work

VARIABLES
    plan,       \* _plan
    tier,       \* _plan_tier (0: None)
    work,       \* the plan a planner has built and is assigning, and how far
    offered,    \* the proposals somebody holds
    decided,    \* the decisions of the reviewers
    session,    \* the proposal of each agent's session
    events      \* the events of runs and sessions

vars == <<plan, tier, work, offered, decided, session, events>>

Init ==
    /\ plan = NoPlan
    /\ tier = 0
    /\ work = [a \in Agents |-> NoWork]
    /\ offered = {}
    /\ decided = {}
    /\ session = [a \in Agents |-> NoSession]
    /\ events = << >>

-----------------------------------------------------------------------------
(* plan() and preflight()                                                  *)

Working(a, how, p, step) ==
    work' = [work EXCEPT ![a] = [how |-> how, plan |-> p, step |-> step]]

\* plan() with no plan yet: build one ...
PlanBuild(a) ==
    /\ work[a] = NoWork
    /\ plan = NoPlan
    /\ Working(a, "plan", OwnPlan, "plan")
    /\ UNCHANGED <<plan, tier, offered, decided, session, events>>

\* preflight() of a request for this task: build the proposal ...
PreflightBuild(a, r) ==
    /\ work[a] = NoWork
    /\ r.task = Contract.task
    /\ Working(a, "preflight", PlanOf(Proposal(r)), "plan")
    /\ UNCHANGED <<plan, tier, offered, decided, session, events>>

\* ... assign _plan ...
SetPlan(a) ==
    /\ work[a] # NoWork
    /\ work[a].step = "plan"
    /\ plan' = work[a].plan
    /\ Working(a, work[a].how, work[a].plan, "tier")
    /\ UNCHANGED <<tier, offered, decided, session, events>>

\* ... and _plan_tier: plan() takes it from _plan, preflight() from what it built.
TierOf_Kept(a) == IF tier = 0 THEN work[a].plan.tier ELSE tier
TierOf(a) == IF work[a].how = "plan" THEN plan.tier ELSE work[a].plan.tier

SetTier(a) ==
    /\ work[a] # NoWork
    /\ work[a].step = "tier"
    /\ tier' = TierOf(a)
    /\ work' = [work EXCEPT ![a] = NoWork]
    /\ offered' = IF work[a].how = "preflight"
                  THEN offered \cup {Proposal(work[a].plan.by)} ELSE offered
    /\ UNCHANGED <<plan, decided, session, events>>

\* route_model() for the task contract's own allowed_models.
Routed(cap) ==
    Select(cap, IF tier = 0 THEN Balanced ELSE tier, Contract.contract)

-----------------------------------------------------------------------------
(* Reviewers, and proposals made elsewhere                                 *)

Receive(r) ==
    /\ offered' = offered \cup {Proposal(r)}
    /\ UNCHANGED <<plan, tier, work, decided, session, events>>

Review(p, status) ==
    /\ p \in offered
    /\ decided' = decided \cup {[proposal |-> p.id, status |-> status]}
    /\ UNCHANGED <<plan, tier, work, offered, session, events>>

-----------------------------------------------------------------------------
(* Sessions                                                                *)

\* ApprovedRunSession(): the decision approves, it is about this proposal, and
\* the proposal about this Supervisor's task.
Admits_AnyProposal(p, d) == d.status = "approved" /\ p.task = Contract.task
Admits_AnyTask(p, d) == d.status = "approved" /\ d.proposal = p.id

Admits(p, d) ==
    /\ d.status = "approved"
    /\ d.proposal = p.id
    /\ p.task = Contract.task

OpenSession(a, p, d) ==
    /\ session[a] = NoSession
    /\ p \in offered
    /\ d \in decided
    /\ Admits(p, d)
    /\ session' = [session EXCEPT ![a] = p]
    /\ UNCHANGED <<plan, tier, work, offered, decided, events>>

Log(new) ==
    /\ Len(events) < MaxEvents
    /\ events' = events \o new
    /\ UNCHANGED <<plan, tier, work, offered, decided, session>>

RunStarted == [type |-> "run.started", proposal |-> NoWork, what |-> tier]

\* start_run() of the Supervisor, and of a session.
StartPlain == Log(<< RunStarted >>)

StartSession(a) ==
    /\ session[a] # NoSession
    /\ Log(<< RunStarted,
              [type |-> "preflight.approved", proposal |-> session[a].id,
               what |-> session[a].task] >>)

\* context_for() and route_for(); a step or capability the proposal does not
\* have raises KeyError.
ContextFor(a, s) ==
    /\ session[a] # NoSession
    /\ s \in DOMAIN session[a].manifests
    /\ Log(<< [type |-> "context.attached", proposal |-> session[a].id,
               what |-> <<s, session[a].manifests[s]>>] >>)

RouteOf_Recomputed(a, n) ==
    Select(n[2], IF tier = 0 THEN Balanced ELSE tier, Allowed(session[a].id))
RouteOf(a, n) == session[a].routes[n]

RouteFor(a, n) ==
    /\ session[a] # NoSession
    /\ n \in DOMAIN session[a].routes
    /\ Log(<< [type |-> "route.applied", proposal |-> session[a].id,
               what |-> <<n, RouteOf(a, n)>>] >>)

Next ==
    \/ \E a \in Planners :
          \/ PlanBuild(a)
          \/ \E r \in Requests : PreflightBuild(a, r)
          \/ SetPlan(a)
          \/ SetTier(a)
    \/ \E r \in Requests : Receive(r)
    \/ \E p \in Proposals, status \in Statuses : Review(p, status)
    \/ \E a \in Agents, p \in Proposals, d \in decided : OpenSession(a, p, d)
    \/ StartPlain
    \/ \E a \in Agents : StartSession(a)
    \/ \E a \in Agents, s \in StepIds : ContextFor(a, s)
    \/ \E a \in Agents, n \in Needed : RouteFor(a, n)

Spec == Init /\ [][Next]_vars

-----------------------------------------------------------------------------
(* Properties                                                              *)

\* Types of the plan fields, of the decisions and of the sessions.
TypeOK ==
    /\ plan \in Plans \cup {NoPlan}
    /\ tier \in 0 .. 4
    /\ work \in [Agents -> Work \cup {NoWork}]
    /\ \A a \in Agents : work[a] # NoWork /\ work[a].step = "tier" => plan # NoPlan
    /\ offered \subseteq Proposals
    /\ decided \subseteq [proposal : Requests, status : Statuses]
    /\ session \in [Agents -> Proposals \cup {NoSession}]

\* Nothing of a proposal is applied unless a reviewer approved that very
\* proposal, for this task, and what is applied is what it said: preflights,
\* plans and decisions of others in between change nothing (ADR-015: "Only an
\* ApprovalDecision matching a proposal may create an ApprovedRunSession").
Applied == {i \in DOMAIN events : events[i].type # "run.started"}

AsProposed(e) ==
    LET p == Proposal(e.proposal)
    IN  CASE e.type = "preflight.approved" -> e.what = p.task
          [] e.type = "context.attached" -> e.what[2] = p.manifests[e.what[1]]
          [] e.type = "route.applied" -> e.what[2] = p.routes[e.what[1]]

OnlyApprovedApplied ==
    \A i \in Applied :
        /\ [proposal |-> events[i].proposal, status |-> "approved"] \in decided
        /\ events[i].proposal.task = Contract.task
        /\ AsProposed(events[i])

\* ADR-009: a route prefers the capability over the tier and the tier over the
\* allowed models, and among equals takes the first of the registry.
Rank(i, cap, t, names) ==
    (IF i \in Capable(cap) THEN 4 ELSE 0) + (IF i \in FitFor(t) THEN 2 ELSE 0)
        + (IF i \in Permitted(names) THEN 1 ELSE 0)

Best(name, cap, t, names) ==
    \E i \in DOMAIN Registry :
        /\ Registry[i].name = name
        /\ \A j \in DOMAIN Registry :
              LET mine == Rank(i, cap, t, names)
                  other == Rank(j, cap, t, names)
              IN  other < mine \/ (other = mine /\ i <= j)

RoutesAreBest ==
    Registry # << >> =>
        \A p \in offered : \A n \in Needed :
            Best(p.routes[n], n[2], p.tier, Allowed(p.id))

\* ADR-014: preflight is "not a parallel decision engine".  After a preflight,
\* and while nobody is planning, the Supervisor routes as its plan's proposal
\* does wherever both go by the same allowed models; with one planning thread.
OneDecisionEngine ==
    Cardinality(Planners) = 1 /\ (\A a \in Agents : work[a] = NoWork) /\ plan # NoPlan =>
        /\ tier = plan.tier
        /\ plan.by # NoWork /\ Allowed(plan.by) = Contract.contract =>
              \A n \in Needed : Routed(n[2]) = Proposal(plan.by).routes[n]
=============================================================================
