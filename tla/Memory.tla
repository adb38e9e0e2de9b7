------------------------------- MODULE Memory -------------------------------
(***************************************************************************)
(* Memory governance: memory/store.py, memory/scoring.py,                  *)
(* memory/governor.py and the memory methods of the Supervisor.  Records   *)
(* are Python objects: the store, the agents that retrieved one and the    *)
(* application that made it share it, and may change its content.  Nothing *)
(* is locked: a retrieval reads the clock, goes through the store, which   *)
(* may change under it, and judges each candidate as it is by then.        *)
(*                                                                         *)
(* X_Variant before X is X with a plausible bug, used by no specification. *)
(***************************************************************************)
EXTENDS Integers, FiniteSets

CONSTANTS
    Callers,         \* agents that retrieve
    Ids,             \* ids of the records
    Tenants,
    Templates,       \* what remember() is asked to store
    Contents,        \* contents a record may have or be given
    Queries,
    Matches,         \* the queries contained in each content
    Limits,          \* the limits the agents ask for
    Weight,          \* role_weights, in tenths
    StaleAfter,      \* stale_after, in days
    MinConfidence,   \* min_confidence, in tenths
    MinScore,        \* min_score, in units of the score below
    NoTtl, NoRecord, NoCall,
    MaxTime,         \* bound: the clock stops after this many days
    MaxCalls         \* bound: retrievals in a behaviour

Tiers == {"working", "short", "long", "archive"}

\* confidence and trust (the provenance score) in tenths, ttl in days.
Template == [tenant : Tenants, content : Contents, tier : Tiers,
             confidence : 0 .. 10, trust : 3 .. 10, ttl : Nat \cup {NoTtl}]

Record == [tenant : Tenants, content : Contents, tier : Tiers,
           confidence : 0 .. 10, trust : 3 .. 10, ttl : Nat \cup {NoTtl},
           created : Nat, accessed : Nat, uses : 0 .. 5, baseline : Contents]

ASSUME MemoryAssumption ==
    /\ Templates \subseteq Template
    /\ Matches \in [Contents -> SUBSET Queries]
    /\ Weight \in [Tiers -> Nat]
    /\ {StaleAfter, MinConfidence, MinScore, MaxTime, MaxCalls} \subseteq Nat
    /\ Limits \subseteq Nat
    /\ NoTtl \notin Nat
    /\ NoRecord \notin Record

VARIABLES
    enabled,   \* memory_enabled, set by the constructor
    now,       \* the clock, in days
    made,      \* the record objects
    stored,    \* the ids the store holds
    call,      \* the retrieval each caller is in
    answer,    \* the manifest of its last retrieval
    audit,     \* the memory.expired events: the id and the reason
    calls      \* retrievals so far (bounded by MaxCalls)

vars == <<enabled, now, made, stored, call, answer, audit, calls>>

Call == [tenant : Tenants, query : Queries, limit : Limits, asked : Nat,
         begun : SUBSET Ids, listed : BOOLEAN, found : SUBSET Ids]

ASSUME CallAssumption == NoCall \notin Call

Manifest == [included : SUBSET Ids, excluded : SUBSET Ids]
Empty == [included |-> {}, excluded |-> {}]

Init ==
    /\ enabled \in BOOLEAN
    /\ now = 0
    /\ made = [i \in Ids |-> NoRecord]
    /\ stored = {}
    /\ call = [c \in Callers |-> NoCall]
    /\ answer = [c \in Callers |-> Empty]
    /\ audit = {}
    /\ calls = 0

-----------------------------------------------------------------------------
(* Scoring.  One unit is 1/32000: 0.2 of the score is 6400.  The recency   *)
(* halves every day; a use beyond the fifth adds nothing.                  *)

\* Another caller may have used it since the clock was read.
Age(r, time) == IF time > r.accessed THEN time - r.accessed ELSE 0
Recency(r, time) == 640 \div (2 ^ Age(r, time))
Usage(r) == 128 * r.uses

Score(r, time) ==
    Weight[r.tier] * (2 * Recency(r, time) + Usage(r) + 64 * r.confidence + 64 * r.trust)

\* The governor's reasons to exclude a candidate.
TooOld(r, time) == time - r.accessed > StaleAfter

Doubtful(r) == r.confidence < MinConfidence

Drifted_Never(r) == FALSE
Drifted(r) == r.baseline # r.content

Excluded(r, time) ==
    TooOld(r, time) \/ Doubtful(r) \/ Drifted(r) \/ Score(r, time) < MinScore

-----------------------------------------------------------------------------
(* The Supervisor's methods                                                *)

\* store() takes the baseline of a new record.
Baseline_Missing(t) == NoRecord
Baseline(t) == t.content

\* remember().
Remember(i, t) ==
    /\ made[i] = NoRecord
    /\ made' = [made EXCEPT ![i] =
          [tenant |-> t.tenant, content |-> t.content, tier |-> t.tier,
           confidence |-> t.confidence, trust |-> t.trust, ttl |-> t.ttl,
           created |-> now, accessed |-> now, uses |-> 0, baseline |-> Baseline(t)]]
    /\ stored' = stored \cup {i}
    /\ UNCHANGED <<enabled, now, call, answer, audit, calls>>

\* The clock is read, then retrieve() starts to go through the dictionary.
RetrieveBegin(c, tenant, q, limit) ==
    /\ enabled
    /\ call[c] = NoCall
    /\ calls < MaxCalls
    /\ calls' = calls + 1
    /\ call' = [call EXCEPT ![c] =
          [tenant |-> tenant, query |-> q, limit |-> limit, asked |-> now,
           begun |-> stored, listed |-> FALSE, found |-> {}]]
    /\ answer' = [answer EXCEPT ![c] = Empty]
    /\ UNCHANGED <<enabled, now, made, stored, audit>>

Candidates_AllTenants(seen, tenant, q) == {i \in seen : q \in Matches[made[i].content]}
Candidates(seen, tenant, q) ==
    {i \in seen : made[i].tenant = tenant /\ q \in Matches[made[i].content]}

\* The loop comes to its end if the dictionary has the size it began with;
\* what was exchanged meanwhile it has seen or not.
ListCandidates(c) ==
    LET q == call[c]
    IN  /\ q # NoCall /\ ~q.listed
        /\ Cardinality(stored) = Cardinality(q.begun)
        /\ \E seen \in SUBSET (q.begun \cup stored) :
              /\ q.begun \cap stored \subseteq seen
              /\ call' = [call EXCEPT ![c] =
                    [q EXCEPT !.begun = {}, !.listed = TRUE,
                              !.found = Candidates(seen, q.tenant, q.query)]]
        /\ UNCHANGED <<enabled, now, made, stored, answer, audit, calls>>

\* RuntimeError: the dictionary changed during the iteration.
ListingRaises(c) ==
    /\ call[c] # NoCall /\ ~call[c].listed
    /\ stored # call[c].begun
    /\ call' = [call EXCEPT ![c] = NoCall]
    /\ UNCHANGED <<enabled, now, made, stored, answer, audit, calls>>

\* ranked[:limit] of the sorted list; equal scores in either order.
Chosen(ranked, limit, time) ==
    {S \in SUBSET ranked :
        /\ Cardinality(S) <= limit
        /\ S = ranked \/ Cardinality(S) = limit
        /\ \A i \in S, j \in ranked \ S :
              Score(made[i], time) >= Score(made[j], time)}

\* record_access() of what the store still holds.
Touched_Found(S, found) == stored \cap found
Touched(S, found) == stored \cap S

Accessed(S) ==
    [i \in Ids |-> IF i \in S
                   THEN [made[i] EXCEPT !.accessed = now,
                                        !.uses = IF @ < 5 THEN @ + 1 ELSE 5]
                   ELSE made[i]]

\* From the candidates to the answer and the memory.retrieved event.
RetrieveEnd(c) ==
    LET q == call[c]
        out == {i \in q.found : Excluded(made[i], q.asked)}
    IN  /\ q # NoCall /\ q.listed
        /\ \E S \in Chosen(q.found \ out, q.limit, q.asked) :
              /\ made' = Accessed(Touched(S, q.found))
              /\ answer' = [answer EXCEPT ![c] = [included |-> S, excluded |-> out]]
        /\ call' = [call EXCEPT ![c] = NoCall]
        /\ UNCHANGED <<enabled, now, stored, audit, calls>>

\* With memory disabled nothing is retrieved.
RetrieveOff(c) ==
    /\ ~enabled
    /\ answer' = [answer EXCEPT ![c] = Empty]
    /\ UNCHANGED <<enabled, now, made, stored, call, audit, calls>>

Due(r) == r.ttl # NoTtl /\ r.created + r.ttl <= now

\* expire_memory() reports and removes nothing.
AfterExpiry_Removed == {i \in stored : ~Due(made[i])}
AfterExpiry == stored

Expire ==
    /\ enabled
    /\ audit' = audit \cup {<<i, "ttl_elapsed">> : i \in {j \in stored : Due(made[j])}}
    /\ stored' = AfterExpiry
    /\ UNCHANGED <<enabled, now, made, call, answer, calls>>

\* forget_memory(), of a record or of nothing.
Forget(i) ==
    /\ stored' = stored \ {i}
    /\ audit' = audit \cup {<<i, "explicit_removal">>}
    /\ UNCHANGED <<enabled, now, made, call, answer, calls>>

-----------------------------------------------------------------------------
(* The rest of the program                                                 *)

\* Whoever holds a record changes its content.
Edit(i, text) ==
    /\ made[i] # NoRecord
    /\ made' = [made EXCEPT ![i].content = text]
    /\ UNCHANGED <<enabled, now, stored, call, answer, audit, calls>>

Tick ==
    /\ now < MaxTime
    /\ now' = now + 1
    /\ UNCHANGED <<enabled, made, stored, call, answer, audit, calls>>

Next ==
    \/ \E i \in Ids, t \in Templates : Remember(i, t)
    \/ \E c \in Callers, tenant \in Tenants, q \in Queries, limit \in Limits :
          RetrieveBegin(c, tenant, q, limit)
    \/ \E c \in Callers : \/ ListCandidates(c) \/ ListingRaises(c)
                          \/ RetrieveEnd(c) \/ RetrieveOff(c)
    \/ Expire
    \/ \E i \in Ids : Forget(i)
    \/ \E i \in Ids, text \in Contents : Edit(i, text)
    \/ Tick

Spec == Init /\ [][Next]_vars

-----------------------------------------------------------------------------
(* Properties                                                              *)

\* Types of the records, of the calls in progress and of the audit trail.
TypeOK ==
    /\ enabled \in BOOLEAN
    /\ now \in Nat
    /\ made \in [Ids -> Record \cup {NoRecord}]
    /\ stored \subseteq {i \in Ids : made[i] # NoRecord}
    /\ call \in [Callers -> Call \cup {NoCall}]
    /\ \A c \in Callers : call[c] # NoCall =>
          \A i \in call[c].begun \cup call[c].found : made[i] \in Record
    /\ answer \in [Callers -> Manifest]
    /\ calls \in Nat
    /\ audit \subseteq Ids \X {"ttl_elapsed", "explicit_removal"}

\* An agent is only handed records of its tenant that were as remembered when
\* the governor judged them, whoever changed a shared record before the call
\* or since its candidates were listed (the drift check of the governor, the
\* tenant filter of the store).
HandedOutIntact ==
    [][\A c \in Callers :
          call[c] # NoCall /\ call'[c] = NoCall =>
              \A i \in answer'[c].included :
                  /\ made'[i].content = made'[i].baseline
                  /\ made'[i].tenant = call[c].tenant]_vars

\* Once a record is too old, and no call that found it or may still find it
\* began before it was, it is so for good: being found, judged or excluded does
\* not renew it (record_access of the chosen only, against the call's clock).
Old(i) == made[i] # NoRecord /\ TooOld(made[i], now)

OutForGood(i) ==
    /\ Old(i)
    /\ \A c \in Callers :
          call[c] # NoCall /\ (call[c].listed => i \in call[c].found)
              => TooOld(made[i], call[c].asked)

OldStaysOut == [][\A i \in Ids : OutForGood(i) => OutForGood(i)']_vars

\* Nothing leaves the store without an explicit_removal event (ADR-011: no
\* automatic deletion).
RemovalAudited ==
    \A i \in Ids :
        made[i] # NoRecord /\ i \notin stored => <<i, "explicit_removal">> \in audit

\* Retrieving for one tenant leaves no mark on the records of another.
TenantsApart ==
    [][\A c \in Callers :
          call[c] # NoCall /\ call'[c] = NoCall =>
              \A i \in Ids :
                  made'[i] # made[i] => made[i].tenant = call[c].tenant]_vars
=============================================================================
