--------------------------- MODULE SessionProofs ---------------------------
(***************************************************************************)
(* Theorems about ApprovedSession and the operators of Preflight.          *)
(***************************************************************************)
EXTENDS ApprovedSession, WellFoundedInduction, FiniteSetTheorems,
        SequenceTheorems, TLAPS

-----------------------------------------------------------------------------
(* The router                                                              *)

Less == {ss \in Nat \X Nat : ss[1] < ss[2]}

LEMMA LessIsWellFounded == IsWellFoundedOn(Less, Nat)
BY NatLessThanWellFounded, Zenon DEF OpToRel, Less

LEMMA FirstExists ==
    ASSUME NEW S \in SUBSET Nat, S # {}
    PROVE  First(S) \in S /\ \A j \in S : First(S) <= j
<1>1. \E i \in S : \A j \in S : ~ (<<j, i>> \in Less)
  <2> DEFINE R == Less
  <2>1. IsWellFoundedOn(R, Nat)
    BY LessIsWellFounded
  <2> HIDE DEF R
  <2>2. \E i \in S : \A j \in S : ~ (<<j, i>> \in R)
    BY <2>1, WFMin
  <2> QED
    BY <2>2 DEF R
<1>2. \A i, j \in Nat : <<i, j>> \in Less <=> i < j
  BY DEF Less
<1>3. \E i \in S : \A j \in S : i <= j
  <2>1. PICK i \in S : \A j \in S : ~ (<<j, i>> \in Less)
    BY <1>1
  <2>2. \A j \in S : i <= j
    <3> TAKE j \in S
    <3>1. i \in Nat /\ j \in Nat
      OBVIOUS
    <3>2. ~ (j < i)
      BY <1>2, <2>1, <3>1, Zenon
    <3> QED
      BY <3>1, <3>2
  <2> QED
    BY <2>2
<1> QED
  BY <1>3 DEF First

LEMMA PoolStages ==
    ASSUME NEW cap, NEW t, NEW names
    PROVE  Pool(cap, t, names) =
               Prefer(Prefer(Prefer(DOMAIN Registry, Capable(cap)), FitFor(t)),
                      Permitted(names))
<1>1. names = {} => Permitted(names) = {}
  BY DEF Permitted
<1>2. \A S : Prefer(S, {}) = S
  BY DEF Prefer
<1> QED
  BY <1>1, <1>2 DEF Pool

\* What Prefer says of a member and of a candidate that is not.
LEMMA PreferRanks ==
    ASSUME NEW S, NEW T, NEW i \in Prefer(S, T), NEW j \in S
    PROVE  /\ i \in S
           /\ j \in T => i \in T
           /\ (j \in T <=> i \in T) => j \in Prefer(S, T)
           /\ Prefer(S, T) \subseteq S
BY DEF Prefer

LEMMA PoolIsBest ==
    ASSUME NEW cap, NEW t, NEW names,
           NEW i \in Pool(cap, t, names), NEW j \in DOMAIN Registry
    PROVE  \/ Rank(j, cap, t, names) < Rank(i, cap, t, names)
           \/ /\ Rank(j, cap, t, names) = Rank(i, cap, t, names)
              /\ j \in Pool(cap, t, names)
<1> DEFINE A == Capable(cap)
           F == FitFor(t)
           P == Permitted(names)
           capable == Prefer(DOMAIN Registry, A)
           fitting == Prefer(capable, F)
<1>1. Pool(cap, t, names) = Prefer(fitting, P)
  BY PoolStages
<1>2. i \in Prefer(fitting, P) /\ i \in fitting /\ i \in capable /\ i \in DOMAIN Registry
  BY <1>1 DEF Prefer
<1>3. /\ j \in A => i \in A
      /\ (j \in A <=> i \in A) => j \in capable
  BY <1>2, PreferRanks
<1>4. j \in capable => /\ j \in F => i \in F
                       /\ (j \in F <=> i \in F) => j \in fitting
  BY <1>2, PreferRanks
<1>5. j \in fitting => /\ j \in P => i \in P
                       /\ (j \in P <=> i \in P) => j \in Prefer(fitting, P)
  BY <1>2, PreferRanks
<1> HIDE DEF A, F, P, capable, fitting
<1>6. \A k : Rank(k, cap, t, names) =
               (IF k \in A THEN 4 ELSE 0) + (IF k \in F THEN 2 ELSE 0)
                   + (IF k \in P THEN 1 ELSE 0)
  BY DEF Rank, A, F, P
<1> QED
  BY <1>1, <1>3, <1>4, <1>5, <1>6

\* ADR-009's order of preference, for every registry and request: what the
\* three filters of select() leave first is a best candidate, and the first
\* of the best.
LEMMA SelectIsBest ==
    ASSUME NEW cap, NEW t, NEW names, Registry # << >>
    PROVE  Best(Select(cap, t, names), cap, t, names)
<1> DEFINE pool == Pool(cap, t, names)
<1>1. DOMAIN Registry \in SUBSET Nat /\ DOMAIN Registry # {}
  <2>1. Registry \in Seq(Candidate)
    BY PreflightAssumption
  <2>2. DOMAIN Registry = 1 .. Len(Registry) /\ Len(Registry) \in Nat
    BY <2>1
  <2>3. Len(Registry) # 0
    BY <2>1, EmptySeq
  <2> QED
    BY <2>2, <2>3
<1>2. pool \in SUBSET Nat /\ pool # {} /\ pool \subseteq DOMAIN Registry
  BY <1>1, PoolStages DEF Prefer
<1>3. First(pool) \in pool /\ \A j \in pool : First(pool) <= j
  BY <1>2, FirstExists
<1>4. Select(cap, t, names) = Registry[First(pool)].name
  BY <1>2 DEF Select
<1>5. \A j \in DOMAIN Registry :
         \/ Rank(j, cap, t, names) < Rank(First(pool), cap, t, names)
         \/ /\ Rank(j, cap, t, names) = Rank(First(pool), cap, t, names)
            /\ First(pool) <= j
  BY <1>3, PoolIsBest
<1> HIDE DEF pool
<1> QED
  BY <1>2, <1>3, <1>4, <1>5 DEF Best

-----------------------------------------------------------------------------
(* Types                                                                   *)

LEMMA TierType == \A r \in Request : SelectTier(r) \in 1 .. 4
<1> TAKE r \in Request
<1> DEFINE base == CASE r.risk = "high" -> 3 [] r.risk = "medium" -> 2 [] r.risk = "low" -> 1
           paid == IF r.ample THEN Bump(base, 1) ELSE base
<1>1. base \in 1 .. 4
  BY DEF Request
<1> HIDE DEF base
<1>2. paid \in 1 .. 4
  BY <1>1 DEF Bump
<1> HIDE DEF paid
<1>3. (IF r.urgent THEN Bump(paid, 1) ELSE paid) \in 1 .. 4
  BY <1>2 DEF Bump
<1> QED
  BY <1>3 DEF SelectTier, paid, base

LEMMA ProposalFields ==
    ASSUME NEW r \in Requests
    PROVE  /\ Proposal(r) \in Proposals
           /\ Proposal(r).id = r
           /\ Proposal(r).task = r.task
           /\ Proposal(r).tier = SelectTier(r)
           /\ \A n \in Needed :
                 Proposal(r).routes[n] = Select(n[2], SelectTier(r), Allowed(r))
BY DEF Proposals, Proposal

LEMMA ProposalOfId ==
    ASSUME NEW p \in Proposals
    PROVE  p.id \in Requests /\ p = Proposal(p.id)
BY ProposalFields DEF Proposals

LEMMA PlanTypes ==
    /\ OwnPlan \in Plans /\ OwnPlan.by = NoWork
    /\ \A r \in Requests : PlanOf(Proposal(r)).by = r /\ r # NoWork
    /\ \A r \in Requests : PlanOf(Proposal(r)) \in Plans
    /\ \A q \in Plans : q.tier \in 1 .. 4
    /\ \A q \in Plans : q.by # NoWork => q.by \in Requests /\ q = PlanOf(Proposal(q.by))
<1>1. OwnPlan \in Plans /\ \A r \in Requests : PlanOf(Proposal(r)) \in Plans
  BY ProposalFields DEF Plans
<1>2. OwnPlan.tier \in 1 .. 4 /\ OwnPlan.by = NoWork
  BY TierType, SessionAssumption DEF OwnPlan
<1>3. \A p \in Proposals : PlanOf(p).tier \in 1 .. 4
  BY ProposalOfId, ProposalFields, TierType, SessionAssumption DEF PlanOf
<1>4. \A p \in Proposals : PlanOf(p).by \in Requests /\ PlanOf(p) = PlanOf(Proposal(PlanOf(p).by))
  BY ProposalOfId DEF PlanOf
<1>5. \A r \in Requests : PlanOf(Proposal(r)).by = r /\ r # NoWork
  BY ProposalFields, PlanAssumption DEF PlanOf
<1> QED
  BY <1>1, <1>2, <1>3, <1>4, <1>5 DEF Plans

\* Every reachable state of the planning, review and session code is well
\* typed, for any number of threads and requests.
THEOREM SessionTypeCorrect == Spec => []TypeOK
<1>1. Init => TypeOK
  BY DEF Init, TypeOK
<1>2. TypeOK /\ [Next]_vars => TypeOK'
  <2> SUFFICES ASSUME TypeOK, [Next]_vars PROVE TypeOK'
    OBVIOUS
  <2> USE DEF TypeOK
  <2>1. ASSUME NEW a \in Planners, PlanBuild(a) PROVE TypeOK'
    BY <2>1, PlanTypes, SessionAssumption DEF PlanBuild, Working, Work
  <2>2. ASSUME NEW a \in Planners, NEW r \in Requests, PreflightBuild(a, r) PROVE TypeOK'
    BY <2>2, PlanTypes, SessionAssumption DEF PreflightBuild, Working, Work
  <2>3. ASSUME NEW a \in Planners, SetPlan(a) PROVE TypeOK'
    <3>1. work[a] \in Work
      BY <2>3, SessionAssumption DEF SetPlan
    <3>2. plan' \in Plans /\ plan' # NoPlan
      BY <2>3, <3>1, PlanAssumption DEF SetPlan, Work
    <3>3. work' \in [Agents -> Work \cup {NoWork}]
      BY <2>3, <3>1, SessionAssumption DEF SetPlan, Working, Work
    <3> QED
      BY <2>3, <3>2, <3>3 DEF SetPlan
  <2>4. ASSUME NEW a \in Planners, SetTier(a) PROVE TypeOK'
    <3>1. work[a] \in Work /\ plan \in Plans
      BY <2>4, SessionAssumption DEF SetTier
    <3>2. tier' \in 0 .. 4
      BY <2>4, <3>1, PlanTypes DEF SetTier, TierOf, Work
    <3>3. offered' \subseteq Proposals
      <4>1. CASE work[a].how = "preflight"
        <5>1. work[a].plan.by \in Requests
          BY <3>1, <4>1, PlanTypes DEF Work
        <5> QED
          BY <2>4, <4>1, <5>1, ProposalFields DEF SetTier
      <4>2. CASE work[a].how = "plan"
        BY <2>4, <4>2 DEF SetTier
      <4> QED
        BY <3>1, <4>1, <4>2 DEF Work
    <3> QED
      BY <2>4, <3>2, <3>3 DEF SetTier
  <2>5. ASSUME NEW r \in Requests, Receive(r) PROVE TypeOK'
    BY <2>5, ProposalFields DEF Receive
  <2>6. ASSUME NEW p \in Proposals, NEW status \in Statuses, Review(p, status) PROVE TypeOK'
    BY <2>6, ProposalOfId DEF Review
  <2>7. ASSUME NEW a \in Agents, NEW p \in Proposals, NEW d \in decided, OpenSession(a, p, d)
        PROVE  TypeOK'
    BY <2>7 DEF OpenSession
  <2>8. ASSUME NEW new, Log(new) PROVE TypeOK'
    BY <2>8 DEF Log
  <2>9. CASE UNCHANGED vars
    BY <2>9 DEF vars
  <2> QED
    BY <2>1, <2>2, <2>3, <2>4, <2>5, <2>6, <2>7, <2>8, <2>9
       DEF Next, StartPlain, StartSession, ContextFor, RouteFor
<1> QED
  BY <1>1, <1>2, PTL DEF Spec

-----------------------------------------------------------------------------
(* Routes                                                                  *)

\* Whatever the registry, the steps and the requests, every proposal anybody
\* holds routes each step to the model ADR-009's order puts first.
THEOREM ProposedRoutesAreBest == Spec => []RoutesAreBest
<1>1. TypeOK => RoutesAreBest
  <2> SUFFICES ASSUME TypeOK, Registry # << >>,
                      NEW p \in offered, NEW n \in Needed
               PROVE  Best(p.routes[n], n[2], p.tier, Allowed(p.id))
    BY DEF RoutesAreBest
  <2>1. p \in Proposals
    BY DEF TypeOK
  <2>2. p.id \in Requests /\ p = Proposal(p.id)
    BY <2>1, ProposalOfId
  <2>3. p.tier = SelectTier(p.id) /\ p.routes[n] = Select(n[2], SelectTier(p.id), Allowed(p.id))
    BY <2>2, ProposalFields
  <2> QED
    BY <2>3, SelectIsBest
<1> QED
  BY <1>1, SessionTypeCorrect, PTL

-----------------------------------------------------------------------------
(* What sessions apply                                                     *)

\* An event that may be in the trace.
Backed(e) ==
    e.type # "run.started" =>
        /\ [proposal |-> e.proposal, status |-> "approved"] \in decided
        /\ e.proposal.task = Contract.task
        /\ AsProposed(e)

\* The proposal of a session was approved, is about the Supervisor's task and
\* is what its request makes it.
SessionsApproved ==
    \A a \in Agents : session[a] # NoSession =>
        /\ [proposal |-> session[a].id, status |-> "approved"] \in decided
        /\ session[a].id.task = Contract.task
        /\ session[a] = Proposal(session[a].id)

IsLog == \E S : events \in Seq(S)

ApprovedInv ==
    /\ IsLog
    /\ SessionsApproved
    /\ \A i \in DOMAIN events : Backed(events[i])

\* A step that keeps the trace and the sessions and forgets no decision.
LEMMA ApprovedKept ==
    ASSUME ApprovedInv, events' = events, session' = session, decided \subseteq decided'
    PROVE  ApprovedInv'
BY DEF ApprovedInv, IsLog, SessionsApproved, Backed, AsProposed

LEMMA LogKeeps ==
    ASSUME ApprovedInv, NEW new, NEW T, new \in Seq(T), Log(new),
           \A i \in DOMAIN new : Backed(new[i])
    PROVE  ApprovedInv'
<1>1. PICK S : events \in Seq(S)
  BY DEF ApprovedInv, IsLog
<1>2. events \in Seq(S \cup T) /\ new \in Seq(S \cup T)
  BY <1>1
<1>3. /\ events' \in Seq(S \cup T)
      /\ \A i \in DOMAIN events' :
            \/ i \in DOMAIN events /\ events'[i] = events[i]
            \/ \E k \in DOMAIN new : events'[i] = new[k]
  <2>1. events' = events \o new
    BY DEF Log
  <2>2. /\ events \o new \in Seq(S \cup T)
        /\ Len(events \o new) = Len(events) + Len(new)
        /\ \A i \in 1 .. Len(events) + Len(new) :
              (events \o new)[i] = IF i <= Len(events) THEN events[i]
                                                       ELSE new[i - Len(events)]
    BY <1>2, ConcatProperties
  <2>3. Len(events) \in Nat /\ Len(new) \in Nat
        /\ DOMAIN events = 1 .. Len(events) /\ DOMAIN new = 1 .. Len(new)
    BY <1>2, LenProperties
  <2>4. DOMAIN (events \o new) = 1 .. Len(events) + Len(new)
    BY <2>2, LenProperties
  <2>5. ASSUME NEW i \in 1 .. Len(events) + Len(new), ~ (i <= Len(events))
        PROVE  i - Len(events) \in 1 .. Len(new)
    BY <2>3, <2>5
  <2> QED
    BY <2>1, <2>2, <2>3, <2>4, <2>5
<1>4. \A e : Backed(e) => Backed(e)'
  BY DEF Backed, AsProposed, Log
<1>5. \A i \in DOMAIN events' : Backed(events'[i])
  BY <1>3 DEF ApprovedInv
<1>6. (\A i \in DOMAIN events : Backed(events[i]))'
  BY <1>5 DEF Backed, AsProposed, Log
<1>7. SessionsApproved'
  BY DEF ApprovedInv, SessionsApproved, Log
<1> QED
  BY <1>3, <1>6, <1>7 DEF ApprovedInv, IsLog

\* However preflights, plans, reviews and sessions of any number of threads
\* interleave, a run applies nothing but what was approved, as it was proposed.
THEOREM SessionsApplyTheApproved == Spec => []OnlyApprovedApplied
<1>1. Init => ApprovedInv
  <2> SUFFICES ASSUME Init PROVE ApprovedInv
    OBVIOUS
  <2>1. events \in Seq({}) /\ DOMAIN events = {}
    BY DEF Init
  <2> QED
    BY <2>1 DEF Init, ApprovedInv, IsLog, SessionsApproved
<1>2. TypeOK /\ ApprovedInv /\ [Next]_vars => ApprovedInv'
  <2> SUFFICES ASSUME TypeOK, ApprovedInv, [Next]_vars PROVE ApprovedInv'
    OBVIOUS
  <2>1. ASSUME NEW a \in Planners, \/ PlanBuild(a) \/ SetPlan(a) \/ SetTier(a)
                                   \/ \E r \in Requests : PreflightBuild(a, r)
        PROVE  ApprovedInv'
    BY <2>1, ApprovedKept DEF PlanBuild, SetPlan, SetTier, PreflightBuild
  <2>2. ASSUME NEW r \in Requests, Receive(r) PROVE ApprovedInv'
    BY <2>2, ApprovedKept DEF Receive
  <2>3. ASSUME NEW p \in Proposals, NEW status \in Statuses, Review(p, status)
        PROVE  ApprovedInv'
    BY <2>3, ApprovedKept DEF Review
  <2>4. ASSUME NEW a \in Agents, NEW p \in Proposals, NEW d \in decided, OpenSession(a, p, d)
        PROVE  ApprovedInv'
    <3>1. p.id \in Requests /\ p = Proposal(p.id) /\ p.task = p.id.task
      BY ProposalOfId, ProposalFields
    <3>2. d = [proposal |-> p.id, status |-> "approved"] /\ p.id.task = Contract.task
      BY <2>4, <3>1 DEF OpenSession, Admits, TypeOK
    <3>3. SessionsApproved'
      BY <2>4, <3>1, <3>2 DEF OpenSession, ApprovedInv, SessionsApproved, TypeOK
    <3> QED
      BY <2>4, <3>3 DEF OpenSession, ApprovedInv, IsLog, Backed, AsProposed
  <2>5. CASE StartPlain
    <3> DEFINE new == << RunStarted >>
    <3>1. new \in Seq({RunStarted}) /\ \A i \in DOMAIN new : new[i].type = "run.started"
      BY DEF RunStarted
    <3>2. Log(new)
      BY <2>5 DEF StartPlain
    <3> HIDE DEF new
    <3> QED
      BY <3>1, <3>2, LogKeeps DEF Backed
  <2>6. ASSUME NEW a \in Agents, StartSession(a) PROVE ApprovedInv'
    <3> DEFINE e == [type |-> "preflight.approved", proposal |-> session[a].id,
                     what |-> session[a].task]
               new == << RunStarted, e >>
    <3>1. Log(new) /\ session[a] # NoSession
      BY <2>6 DEF StartSession
    <3>2. Backed(e)
      <4>1. session[a].id.task = Contract.task /\ session[a] = Proposal(session[a].id)
            /\ [proposal |-> session[a].id, status |-> "approved"] \in decided
        BY <3>1 DEF ApprovedInv, SessionsApproved
      <4> QED
        BY <4>1 DEF Backed, AsProposed
    <3>3. Backed(RunStarted)
      BY DEF Backed, RunStarted
    <3> HIDE DEF e
    <3>4. new \in Seq({RunStarted, e}) /\ \A i \in DOMAIN new : new[i] \in {RunStarted, e}
      OBVIOUS
    <3> HIDE DEF new
    <3> QED
      BY <3>1, <3>2, <3>3, <3>4, LogKeeps
  <2>7. ASSUME NEW a \in Agents, NEW s \in StepIds, ContextFor(a, s) PROVE ApprovedInv'
    <3> DEFINE e == [type |-> "context.attached", proposal |-> session[a].id,
                     what |-> <<s, session[a].manifests[s]>>]
               new == << e >>
    <3>1. Log(new) /\ session[a] # NoSession
      BY <2>7 DEF ContextFor
    <3>2. Backed(e)
      <4>1. session[a].id.task = Contract.task /\ session[a] = Proposal(session[a].id)
            /\ [proposal |-> session[a].id, status |-> "approved"] \in decided
        BY <3>1 DEF ApprovedInv, SessionsApproved
      <4> QED
        BY <4>1 DEF Backed, AsProposed
    <3> HIDE DEF e
    <3>3. new \in Seq({e}) /\ \A i \in DOMAIN new : new[i] = e
      OBVIOUS
    <3> HIDE DEF new
    <3> QED
      BY <3>1, <3>2, <3>3, LogKeeps
  <2>8. ASSUME NEW a \in Agents, NEW n \in Needed, RouteFor(a, n) PROVE ApprovedInv'
    <3> DEFINE e == [type |-> "route.applied", proposal |-> session[a].id,
                     what |-> <<n, RouteOf(a, n)>>]
               new == << e >>
    <3>1. Log(new) /\ session[a] # NoSession
      BY <2>8 DEF RouteFor
    <3>2. Backed(e)
      <4>1. session[a].id.task = Contract.task /\ session[a] = Proposal(session[a].id)
            /\ [proposal |-> session[a].id, status |-> "approved"] \in decided
        BY <3>1 DEF ApprovedInv, SessionsApproved
      <4> QED
        BY <4>1 DEF Backed, AsProposed, RouteOf
    <3> HIDE DEF e
    <3>3. new \in Seq({e}) /\ \A i \in DOMAIN new : new[i] = e
      OBVIOUS
    <3> HIDE DEF new
    <3> QED
      BY <3>1, <3>2, <3>3, LogKeeps
  <2>9. CASE UNCHANGED vars
    BY <2>9, ApprovedKept DEF vars
  <2> QED
    BY <2>1, <2>2, <2>3, <2>4, <2>5, <2>6, <2>7, <2>8, <2>9 DEF Next
<1>3. ApprovedInv => OnlyApprovedApplied
  BY DEF ApprovedInv, Backed, OnlyApprovedApplied, Applied
<1> QED
  BY <1>1, <1>2, <1>3, SessionTypeCorrect, PTL DEF Spec

-----------------------------------------------------------------------------
(* One planning thread                                                     *)

OnePlanner == Cardinality(Planners) = 1

\* The only planner's plan stands from the assignment of _plan to that of
\* _plan_tier, and between two plannings the two fields agree.
PlanningInv ==
    OnePlanner =>
        /\ \A a \in Agents : work[a] # NoWork => a \in Planners
        /\ \A a \in Agents : work[a] # NoWork /\ work[a].step = "tier" => plan = work[a].plan
        /\ (\A a \in Agents : work[a] = NoWork) /\ plan # NoPlan => tier = plan.tier

LEMMA ThePlanner ==
    ASSUME OnePlanner, NEW a \in Planners, NEW b \in Planners
    PROVE  a = b
<1>1. IsFiniteSet(Planners)
  BY SessionAssumption, FS_Subset
<1>2. PICK x : Planners = {x}
  BY <1>1, FS_Singleton DEF OnePlanner
<1> QED
  BY <1>2

\* With one planning thread, a Supervisor at rest routes as the preflight it
\* made last, for every registry and request.
THEOREM PreflightAndRouterAgree == Spec => []OneDecisionEngine
<1>1. Init => PlanningInv
  BY DEF Init, PlanningInv
<1>2. TypeOK /\ PlanningInv /\ [Next]_vars => PlanningInv'
  <2> SUFFICES ASSUME TypeOK, PlanningInv, [Next]_vars, OnePlanner
               PROVE  PlanningInv'
    BY DEF PlanningInv, OnePlanner
  <2>0. /\ work \in [Agents -> Work \cup {NoWork}]
        /\ \A a \in Agents : work[a] # NoWork => a \in Planners
        /\ \A a \in Agents : work[a] # NoWork /\ work[a].step = "tier" => plan = work[a].plan
        /\ (\A a \in Agents : work[a] = NoWork) /\ plan # NoPlan => tier = plan.tier
        /\ Planners \subseteq Agents
    BY SessionAssumption DEF TypeOK, PlanningInv
  <2>1. ASSUME NEW a \in Planners, NEW how, NEW p, Working(a, how, p, "plan"),
               work'[a] \in Work, plan' = plan, tier' = tier
        PROVE  PlanningInv'
    <3>1. work'[a] = [how |-> how, plan |-> p, step |-> "plan"]
          /\ \A b \in Agents : b # a => work'[b] = work[b]
      BY <2>0, <2>1 DEF Working
    <3>2. \A b \in Agents : b # a => work[b] = NoWork
      BY <2>0, ThePlanner
    <3>3. \A b \in Agents : work'[b] # NoWork => b = a
      BY <3>1, <3>2
    <3>4. work'[a] # NoWork
      BY <2>1, PlanAssumption
    <3> QED
      BY <2>0, <2>1, <3>1, <3>3, <3>4 DEF PlanningInv
  <2>2. ASSUME NEW a \in Planners, SetPlan(a) PROVE PlanningInv'
    <3>1. work'[a] = [how |-> work[a].how, plan |-> work[a].plan, step |-> "tier"]
          /\ \A b \in Agents : b # a => work'[b] = work[b]
      BY <2>0, <2>2 DEF SetPlan, Working
    <3>2. \A b \in Agents : b # a => work[b] = NoWork
      BY <2>0, ThePlanner
    <3>3. work'[a] # NoWork
      <4>1. work[a] \in Work
        BY <2>0, <2>2 DEF SetPlan
      <4>2. work'[a] \in Work
        BY <3>1, <4>1 DEF Work
      <4> QED
        BY <4>2, PlanAssumption
    <3>4. plan' = work'[a].plan
      BY <2>2, <3>1 DEF SetPlan
    <3> QED
      BY <2>0, <3>1, <3>2, <3>3, <3>4 DEF PlanningInv
  <2>3. ASSUME NEW a \in Planners, SetTier(a) PROVE PlanningInv'
    <3>1. work'[a] = NoWork /\ \A b \in Agents : b # a => work'[b] = work[b]
      BY <2>0, <2>3 DEF SetTier
    <3>2. \A b \in Agents : b # a => work[b] = NoWork
      BY <2>0, ThePlanner
    <3>3. plan' = plan /\ tier' = plan.tier
      BY <2>0, <2>3 DEF SetTier, TierOf
    <3> QED
      BY <2>0, <3>1, <3>2, <3>3 DEF PlanningInv
  <2>4. CASE UNCHANGED <<plan, tier, work>>
    BY <2>0, <2>4 DEF PlanningInv
  <2>5. ASSUME NEW a \in Planners, PlanBuild(a) PROVE PlanningInv'
    <3>1. work'[a] \in Work
      BY <2>0, <2>5, PlanTypes DEF PlanBuild, Working, Work
    <3> QED
      BY <2>1, <2>5, <3>1 DEF PlanBuild
  <2>6. ASSUME NEW a \in Planners, NEW r \in Requests, PreflightBuild(a, r)
        PROVE  PlanningInv'
    <3>1. work'[a] \in Work
      BY <2>0, <2>6, PlanTypes DEF PreflightBuild, Working, Work
    <3> QED
      BY <2>1, <2>6, <3>1 DEF PreflightBuild
  <2> QED
    BY <2>2, <2>3, <2>4, <2>5, <2>6
       DEF Next, Receive, Review, OpenSession, StartPlain, StartSession, ContextFor,
           RouteFor, Log, vars
<1>3. TypeOK /\ PlanningInv => OneDecisionEngine
  <2> SUFFICES ASSUME TypeOK, PlanningInv, OnePlanner,
                      \A a \in Agents : work[a] = NoWork, plan # NoPlan
               PROVE  /\ tier = plan.tier
                      /\ plan.by # NoWork /\ Allowed(plan.by) = Contract.contract =>
                            \A n \in Needed : Routed(n[2]) = Proposal(plan.by).routes[n]
    BY DEF OneDecisionEngine, OnePlanner
  <2>1. tier = plan.tier /\ plan \in Plans
    BY DEF PlanningInv, TypeOK
  <2>2. ASSUME plan.by # NoWork, Allowed(plan.by) = Contract.contract, NEW n \in Needed
        PROVE  Routed(n[2]) = Proposal(plan.by).routes[n]
    <3>1. plan.by \in Requests /\ plan = PlanOf(Proposal(plan.by)) /\ plan.tier \in 1 .. 4
      BY <2>1, <2>2, PlanTypes
    <3>2. plan.tier = SelectTier(plan.by)
      BY <3>1, ProposalFields DEF PlanOf
    <3>3. Routed(n[2]) = Select(n[2], SelectTier(plan.by), Allowed(plan.by))
      BY <2>1, <2>2, <3>1, <3>2 DEF Routed
    <3> QED
      BY <3>1, <3>3, ProposalFields
  <2> QED
    BY <2>1, <2>2
<1> QED
  BY <1>1, <1>2, <1>3, SessionTypeCorrect, PTL DEF Spec
=============================================================================
