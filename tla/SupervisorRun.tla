--------------------------- MODULE SupervisorRun ---------------------------
(***************************************************************************)
(* One supervised run: sdk/supervisor.py with the enforcer, the budget     *)
(* tracker, the duplicate detector and the result cache it consults.       *)
(*                                                                         *)
(* Callers are the threads of the application that call the same           *)
(* Supervisor (one in the shipped demo graph, several when a framework     *)
(* runs branches in parallel).  A call is split where another caller can   *)
(* come in between and be seen to: while fn() or the model adapter runs,   *)
(* between a read of shared state and its use, between the completion      *)
(* event and the record the next check reads, and before the cost guard.   *)
(*                                                                         *)
(* A definition X_Variant placed before X is X with a plausible bug in it; *)
(* no specification uses it.  The properties must tell X from X_Variant.   *)
(***************************************************************************)
EXTENDS Policies, FiniteSets

CONSTANTS
    Callers,        \* application threads sharing the Supervisor
    ToolRequests,   \* the arguments of the tool() calls they may make
    ModelRequests,  \* the arguments of the model() calls they may make
    Inputs,         \* canonical input texts
    Scopes,         \* tool version, policy version, auth and context bounds
    Similar,        \* pairs of different inputs the detector calls similar
    NoResult,       \* Python's None: nothing stored, nothing returned
    NoFrame,        \* a caller that is not inside a call
    NoLimit,        \* a task contract without max_cost_usd
    CostLimit,      \* the task contract's max_cost_usd
    RetryLimit,     \* BudgetTracker.retry_limit
    Optimize,       \* "off", "dry_run" or "active"
    Approved,       \* CachePolicy.approved
    Durable,        \* the file-backed cache, shared with other runs
    MaxCost,        \* the most one tool call costs
    MaxCalls        \* bound: API calls in a run

(***************************************************************************)
(* A request is the arguments of one call.  hash is the caller's           *)
(* normalized_input_hash, cacheable that the policy allowlists the tool    *)
(* (or model) and the call is idempotent, failed and marked the caller's   *)
(* failed=True and duplicate=True.                                         *)
(* A request also stands for the result its execution returns, so that a   *)
(* reused result shows which call produced it.  The name of a model stands *)
(* for "model:<name>", so no tool shares it.                               *)
(***************************************************************************)
Request == [tool : Tools, hash : Hashes \cup {NoHash}, input : Inputs,
            scope : Scopes, cacheable : BOOLEAN, failed : BOOLEAN,
            marked : BOOLEAN, slow : BOOLEAN, cost : Nat]

Requests == ToolRequests \cup ModelRequests

ASSUME RunAssumption ==
    /\ IsFiniteSet(Callers)
    /\ ToolRequests \subseteq Request
    /\ ModelRequests \subseteq Request
    /\ \A r \in ToolRequests, q \in ModelRequests : r.tool # q.tool
    /\ MaxCost \in Nat
    /\ \A r \in ToolRequests : r.cost <= MaxCost
    /\ NoResult \notin Request \cup (Tools \X Hashes)
    /\ CostLimit \in Nat \cup {NoLimit}
    /\ NoLimit \notin Nat
    /\ RetryLimit \in Nat
    /\ MaxCalls \in Nat
    /\ Optimize \in {"off", "dry_run", "active"}
    /\ Approved \in BOOLEAN
    /\ Durable \in BOOLEAN

VARIABLES
    phase,       \* the run: "new", "running" or "finished"
    pc,          \* where each caller is
    frame,       \* the locals of the call each caller is in
    seenOk,      \* keys whose _seen_tool_status is "ok"
    toolCache,   \* _tool_cache
    cache,       \* the optimization cache, by composite key
    checked,     \* the requests the duplicate detector has indexed
    cost,        \* the budget's cost total
    retries,     \* the budget's retry counter of each tool
    events,      \* the collector's events, in order
    answer,      \* history: how each caller's last call ended
    completions, \* history: successful executions recorded, by key
    interruptions, \* history: how often StopRun or PauseForApproval was raised
    calls        \* API calls made so far (bounded by MaxCalls)

vars == <<phase, pc, frame, seenOk, toolCache, cache, checked, cost, retries,
          events, answer, completions, interruptions, calls>>

Keys == Tools \X Hashes
Key(r) == <<r.tool, r.hash>>
Keyed(r) == r.hash # NoHash

\* build_cache_key: resource, input text and every boundary dimension.
CacheKey_NoScope(r) == <<r.tool, r.input, CHOOSE s \in Scopes : TRUE>>
CacheKey(r) == <<r.tool, r.input, r.scope>>
CacheKeys == Tools \X Inputs \X Scopes

\* What the cache may hold under key k.
Storable(k) == {r \in Requests : CacheKey(r) = k /\ r.cacheable /\ ~r.failed}

\* The cache with the results of some requests.
Holding(S) ==
    [k \in CacheKeys |-> IF S \cap Storable(k) = {} THEN NoResult
                         ELSE CHOOSE r \in S \cap Storable(k) : TRUE]

NoAnswer == [how |-> "none", req |-> NoResult, value |-> NoResult]
Answer(how, r, value) == [how |-> how, req |-> r, value |-> value]

Init ==
    /\ phase = "new"
    /\ pc = [c \in Callers |-> "idle"]
    /\ frame = [c \in Callers |-> NoFrame]
    /\ seenOk = {}
    /\ toolCache = [k \in Keys |-> NoResult]
    /\ cache \in IF Durable THEN {Holding(S) : S \in SUBSET Requests}
                 ELSE {[k \in CacheKeys |-> NoResult]}
    /\ checked = {}
    /\ cost = 0
    /\ retries = [t \in Tools |-> 0]
    /\ events = << >>
    /\ answer = [c \in Callers |-> NoAnswer]
    /\ completions = [k \in Keys |-> 0]
    /\ interruptions = 0
    /\ calls = 0

-----------------------------------------------------------------------------
(* The steps of a call.                                                    *)

\* A caller whose last call StopRun or PauseForApproval has left.  Nothing
\* remembers it: the application may catch the exception and call again.
Interrupted(c) == pc[c] \in {"stopped", "paused"}

Begin(c) ==
    /\ phase = "running"
    /\ pc[c] = "idle" \/ Interrupted(c)
    /\ calls < MaxCalls
    /\ calls' = calls + 1

Goto(c, label) == pc' = [pc EXCEPT ![c] = label]

Return(c, how, r, value) ==
    /\ Goto(c, "idle")
    /\ frame' = [frame EXCEPT ![c] = NoFrame]
    /\ answer' = [answer EXCEPT ![c] = Answer(how, r, value)]

\* _apply_decision: what is emitted, and where the caller continues.  "block",
\* "warn" and the other actions only record; the caller carries on.
Emitted_NotOnStop(p, action, tool) ==
    IF action \in {"observe", "stop"} THEN << >> ELSE Intervention(p, action, tool)

Emitted(p, action, tool) ==
    IF action = "observe" THEN << >> ELSE Intervention(p, action, tool)

Continue_NeverPauses(action, label) == IF action = "stop" THEN "stopped" ELSE label

Continue(action, label) ==
    IF action = "stop" THEN "stopped"
    ELSE IF action = "pause" THEN "paused" ELSE label

\* What raising adds to the interruptions, by where the caller continues.
Raised(next) == IF next \in {"stopped", "paused"} THEN 1 ELSE 0

ToolEvent(type, r, status, dup, amount) ==
    [Plain(type, r.tool, status) EXCEPT
        !.hash = r.hash, !.dup = dup, !.cost = amount,
        !.slow = r.slow /\ type = "tool.completed" /\ status # "blocked"]

\* The counter backend: add_cost and inc.
Charge_Refunds(total, amount) == total - amount
Charge_Overwrites(total, amount) == amount

Charge(total, amount) == total + amount
Increment(count) == count + 1

\* DuplicateDetector.check against the calls indexed so far.
ExactKey(r) == IF Keyed(r) THEN r.hash ELSE r.input

Match(r) ==
    LET sameTool == {q \in checked : q.tool = r.tool}
        near(q) == q.input = r.input \/ {q.input, r.input} \in Similar
    IN  IF \E q \in sameTool : ExactKey(q) = ExactKey(r) THEN "exact"
        ELSE IF \E q \in sameTool : near(q) THEN "semantic" ELSE "none"

-----------------------------------------------------------------------------
(* tool()                                                                  *)

\* _seen_tool_status.get(key) == "ok".
PriorOk_SameScope(r) == Keyed(r) /\ toolCache[Key(r)] = r

PriorOk(r) == Keyed(r) /\ Key(r) \in seenOk

\* The guard read: is there a prior success, and does the policy block it?
\* Any action other than "block" lets the duplicate through, unrecorded.  The
\* caller's own mark makes the call a duplicate in the trace and nothing else.
ToolCheck(c, r) ==
    /\ Begin(c)
    /\ LET prior == PriorOk(r)
       IN  /\ frame' = [frame EXCEPT ![c] =
                  [req |-> r, dup |-> prior \/ r.marked, hit |-> NoResult, match |-> "none"]]
           /\ Goto(c, IF prior /\ Decide("duplicate_tool_protection") = "block"
                      THEN "blocked" ELSE "lookup")
    /\ answer' = [answer EXCEPT ![c] = NoAnswer]
    /\ UNCHANGED <<phase, seenOk, toolCache, cache, checked, cost, retries,
                   events, completions, interruptions>>

\* The deduplicated call: recorded, not executed, answered from _tool_cache.
ToolBlocked(c) ==
    LET r == frame[c].req
    IN  /\ pc[c] = "blocked"
        /\ events' = events
             \o Intervention("duplicate_tool_protection", "block", r.tool)
             \o << ToolEvent("tool.requested", r, "none", TRUE, 0),
                   ToolEvent("tool.completed", r, "blocked", TRUE, 0) >>
        /\ Return(c, "blocked", r, toolCache[Key(r)])
        /\ UNCHANGED <<phase, seenOk, toolCache, cache, checked, cost, retries,
                       completions, interruptions, calls>>

\* The optimization lookup, then tool.requested.
ToolLookup(c) ==
    LET r == frame[c].req
        looked == Optimize # "off" /\ ~r.failed
        found == IF looked /\ r.cacheable THEN cache[CacheKey(r)] ELSE NoResult
        served == Optimize = "active" /\ Approved /\ found # NoResult
    IN  /\ pc[c] = "lookup"
        /\ checked' = IF looked THEN checked \cup {r} ELSE checked
        /\ frame' = [frame EXCEPT ![c].hit = found,
                                  ![c].match = IF looked THEN Match(r) ELSE "none"]
        /\ events' = Append(events,
               ToolEvent("tool.requested", r, "none", frame[c].dup, 0))
        /\ Goto(c, IF served THEN "serve" ELSE "execute")
        /\ UNCHANGED <<phase, seenOk, toolCache, cache, cost, retries, answer,
                       completions, interruptions, calls>>

ServedCost_Full(r) == r.cost
ServedCost(r) == 0

\* Served from the optimization cache: no budget, no _seen_tool_status.
ToolServe(c) ==
    LET r == frame[c].req
    IN  /\ pc[c] = "serve"
        /\ events' = events \o
               << Plain("optimization.applied", r.tool, "none"),
                  ToolEvent("tool.completed", r, "ok", frame[c].dup, ServedCost(r)) >>
        /\ Return(c, "served", r, frame[c].hit)
        /\ UNCHANGED <<phase, seenOk, toolCache, cache, checked, cost, retries,
                       completions, interruptions, calls>>

\* fn() raises: the exception leaves tool() before anything is recorded.
ToolRaise(c) ==
    /\ pc[c] = "execute"
    /\ Return(c, "raised", frame[c].req, NoResult)
    /\ UNCHANGED <<phase, seenOk, toolCache, cache, checked, cost, retries,
                   events, completions, interruptions, calls>>

\* Whether the optimization cache takes the result.
Stores(c) ==
    /\ Optimize # "off"
    /\ ~frame[c].req.failed
    /\ frame[c].req.cacheable
    /\ frame[c].hit = NoResult

\* The file backend rewrites its file on put(), and on get() to drop an expired
\* entry; either raises out of tool() when the file cannot be written or the
\* result not be serialized.  On get() the call is in the detector's index, but
\* not in the trace, and fn() has not run ...
ToolGetRaises(c) ==
    LET r == frame[c].req
    IN  /\ pc[c] = "lookup"
        /\ Durable
        /\ Optimize # "off" /\ ~r.failed /\ r.cacheable
        /\ checked' = checked \cup {r}
        /\ Return(c, "broken", r, NoResult)
        /\ UNCHANGED <<phase, seenOk, toolCache, cache, cost, retries, events,
                       completions, interruptions, calls>>

\* ... on put() fn() has returned, and neither the completion nor its cost is
\* recorded.
ToolPutRaises(c) ==
    /\ pc[c] = "execute"
    /\ Durable
    /\ Stores(c)
    /\ Return(c, "broken", frame[c].req, NoResult)
    /\ UNCHANGED <<phase, seenOk, toolCache, cache, checked, cost, retries,
                   events, completions, interruptions, calls>>

\* fn() returns: store the result, recommend, tool.completed.
ToolReturn(c) ==
    LET r == frame[c].req
        status == IF r.failed THEN "error" ELSE "ok"
        recommends == Optimize = "dry_run" /\ frame[c].match # "none"
    IN  /\ pc[c] = "execute"
        /\ cache' = IF Stores(c) THEN [cache EXCEPT ![CacheKey(r)] = r] ELSE cache
        /\ events' = events
             \o (IF recommends
                 THEN << Plain("optimization.recommended", r.tool, "none") >>
                 ELSE << >>)
             \o << ToolEvent("tool.completed", r, status, frame[c].dup, r.cost) >>
        /\ Goto(c, "record")
        /\ UNCHANGED <<phase, frame, seenOk, toolCache, checked, cost, retries,
                       answer, completions, interruptions, calls>>

\* Which results _seen_tool_status and _tool_cache remember.
Remembers_Failures(r) == Keyed(r)

Remembers(r) == Keyed(r) /\ ~r.failed

\* The completion is in the trace: charge the budget and remember a success.
ToolRecord(c) ==
    LET r == frame[c].req
    IN  /\ pc[c] = "record"
        /\ cost' = Charge(cost, r.cost)
        /\ seenOk' = IF Remembers(r) THEN seenOk \cup {Key(r)} ELSE seenOk
        /\ toolCache' = IF Remembers(r) THEN [toolCache EXCEPT ![Key(r)] = r]
                                        ELSE toolCache
        /\ completions' = IF Remembers(r) THEN [completions EXCEPT ![Key(r)] = @ + 1]
                                          ELSE completions
        /\ Goto(c, "guard")
        /\ UNCHANGED <<phase, frame, cache, checked, retries, events, answer,
                       interruptions, calls>>

CostExceeded_AtLimit == CostLimit # NoLimit /\ cost >= CostLimit

CostExceeded_Once ==
    /\ CostLimit # NoLimit /\ cost > CostLimit
    /\ \A i \in DOMAIN events : events[i].policy # "cost_budget"

CostExceeded == CostLimit # NoLimit /\ cost > CostLimit

\* The cost guard, after the call has run: an interruption loses its result.
ToolGuard(c) ==
    LET r == frame[c].req
        action == IF CostExceeded THEN Decide("cost_budget") ELSE "observe"
        next == Continue(action, "idle")
    IN  /\ pc[c] = "guard"
        /\ events' = events \o Emitted("cost_budget", action, r.tool)
        /\ Goto(c, next)
        /\ interruptions' = interruptions + Raised(next)
        /\ frame' = [frame EXCEPT ![c] = NoFrame]
        /\ answer' = [answer EXCEPT ![c] = IF next = "idle" THEN Answer("ran", r, r)
                                           ELSE Answer("raised", r, NoResult)]
        /\ UNCHANGED <<phase, seenOk, toolCache, cache, checked, cost, retries,
                       completions, calls>>
-----------------------------------------------------------------------------
(* model()                                                                 *)

\* The cache is read only when the detector matched.
ModelLookup(c, r) ==
    LET looked == Optimize # "off"
        match == IF looked THEN Match(r) ELSE "none"
        found == IF match # "none" THEN cache[CacheKey(r)] ELSE NoResult
        served == /\ Optimize = "active" /\ Approved /\ r.cacheable
                  /\ match = "exact" /\ found # NoResult
    IN  /\ Begin(c)
        /\ checked' = IF looked THEN checked \cup {r} ELSE checked
        /\ frame' = [frame EXCEPT ![c] =
               [req |-> r, dup |-> FALSE, hit |-> found, match |-> match]]
        /\ events' = Append(events, Plain("model.requested", r.tool, "none"))
        /\ Goto(c, IF served THEN "model_serve" ELSE "model_execute")
        /\ answer' = [answer EXCEPT ![c] = NoAnswer]
        /\ UNCHANGED <<phase, seenOk, toolCache, cache, cost, retries, completions, interruptions>>

\* get() and put() raise out of model() as they do out of tool().
ModelGetRaises(c, r) ==
    /\ Begin(c)
    /\ Durable
    /\ Optimize # "off" /\ Match(r) # "none"
    /\ checked' = checked \cup {r}
    /\ Return(c, "broken", r, NoResult)
    /\ UNCHANGED <<phase, seenOk, toolCache, cache, cost, retries, events,
                   completions, interruptions>>

ModelPutRaises(c) ==
    /\ pc[c] = "model_execute"
    /\ Durable
    /\ Stores(c)
    /\ Return(c, "broken", frame[c].req, NoResult)
    /\ UNCHANGED <<phase, seenOk, toolCache, cache, checked, cost, retries,
                   events, completions, interruptions, calls>>

ModelServe(c) ==
    LET r == frame[c].req
    IN  /\ pc[c] = "model_serve"
        /\ events' = events \o << Plain("optimization.applied", r.tool, "none"),
                                  Plain("model.completed", r.tool, "ok") >>
        /\ Return(c, "served", r, frame[c].hit)
        /\ UNCHANGED <<phase, seenOk, toolCache, cache, checked, cost, retries,
                       completions, interruptions, calls>>

\* The adapter answers.  The recommendation sits inside the store branch, and
\* the cost is recorded in the event only: the budget never sees it.
ModelReturn(c) ==
    LET r == frame[c].req
        recommends == Stores(c) /\ Optimize = "dry_run" /\ frame[c].match # "none"
    IN  /\ pc[c] = "model_execute"
        /\ cache' = IF Stores(c) THEN [cache EXCEPT ![CacheKey(r)] = r] ELSE cache
        /\ events' = events
             \o (IF recommends
                 THEN << Plain("optimization.recommended", r.tool, "none") >>
                 ELSE << >>)
             \o << [Plain("model.completed", r.tool, "ok") EXCEPT !.cost = r.cost] >>
        /\ Return(c, "ran", r, r)
        /\ UNCHANGED <<phase, seenOk, toolCache, checked, cost, retries,
                       completions, interruptions, calls>>

ModelRaise(c) ==
    /\ pc[c] = "model_execute"
    /\ Return(c, "raised", frame[c].req, NoResult)
    /\ UNCHANGED <<phase, seenOk, toolCache, cache, checked, cost, retries,
                   events, completions, interruptions, calls>>
-----------------------------------------------------------------------------
(* retry()                                                                 *)

\* CounterBackend.inc reads the counter with a call ...
RetryRead(c, t) ==
    /\ Begin(c)
    /\ frame' = [frame EXCEPT ![c] = [tool |-> t, count |-> retries[t]]]
    /\ Goto(c, "retry_inc")
    /\ answer' = [answer EXCEPT ![c] = NoAnswer]
    /\ UNCHANGED <<phase, seenOk, toolCache, cache, checked, cost, retries,
                   events, completions, interruptions>>

\* ... and stores what it read plus one.
RetryStore(c) ==
    /\ pc[c] = "retry_inc"
    /\ retries' = [retries EXCEPT ![frame[c].tool] = Increment(frame[c].count)]
    /\ Goto(c, "retry_guard")
    /\ UNCHANGED <<phase, frame, seenOk, toolCache, cache, checked, cost, events,
                   answer, completions, interruptions, calls>>

RetriesExhausted_OneLate(t) == retries[t] > RetryLimit + 1

RetriesExhausted(t) == retries[t] > RetryLimit

\* The budget guard, then retry.scheduled and retry.completed unless it raised.
RetryGuard(c) ==
    LET t == frame[c].tool
        action == IF RetriesExhausted(t) THEN Decide("retry_budget") ELSE "observe"
        next == Continue(action, "idle")
    IN  /\ pc[c] = "retry_guard"
        /\ events' = events \o Emitted("retry_budget", action, t)
             \o (IF next = "idle"
                 THEN << Plain("retry.scheduled", t, "none"),
                         Plain("retry.completed", t, "none") >>
                 ELSE << >>)
        /\ Goto(c, next)
        /\ interruptions' = interruptions + Raised(next)
        /\ frame' = [frame EXCEPT ![c] = NoFrame]
        /\ UNCHANGED <<phase, seenOk, toolCache, cache, checked, cost, retries,
                       answer, completions, calls>>
-----------------------------------------------------------------------------
(* The run and its environment                                             *)

StartRun ==
    /\ phase = "new"
    /\ phase' = "running"
    /\ events' = Append(events, Plain("run.started", NoTool, "none"))
    /\ UNCHANGED <<pc, frame, seenOk, toolCache, cache, checked, cost, retries,
                   answer, completions, interruptions, calls>>

\* The application finishes the run once no call is in progress, with the
\* status it likes.
FinishRun(status) ==
    /\ phase = "running"
    /\ \A c \in Callers : pc[c] = "idle" \/ Interrupted(c)
    /\ phase' = "finished"
    /\ events' = events \o << Plain("run.completed", NoTool, status) >>
         \o (IF status = "error" THEN << Plain("run.failed", NoTool, status) >>
                                 ELSE << >>)
    /\ UNCHANGED <<pc, frame, seenOk, toolCache, cache, checked, cost, retries,
                   answer, completions, interruptions, calls>>

\* A cached result expires or is evicted.
CacheForget(k) ==
    /\ phase = "running"
    /\ cache[k] # NoResult
    /\ cache' = [cache EXCEPT ![k] = NoResult]
    /\ UNCHANGED <<phase, pc, frame, seenOk, toolCache, checked, cost, retries,
                   events, answer, completions, interruptions, calls>>

\* Another run that shares the file stores its own result.
OtherRunStores(k, r) ==
    /\ phase = "running"
    /\ Durable
    /\ r \in Storable(k)
    /\ cache' = [cache EXCEPT ![k] = r]
    /\ UNCHANGED <<phase, pc, frame, seenOk, toolCache, checked, cost, retries,
                   events, answer, completions, interruptions, calls>>

ToolStep(c) ==
    \/ \E r \in ToolRequests : ToolCheck(c, r)
    \/ ToolBlocked(c)
    \/ ToolLookup(c)
    \/ ToolServe(c)
    \/ ToolRaise(c)
    \/ ToolGetRaises(c)
    \/ ToolPutRaises(c)
    \/ ToolReturn(c)
    \/ ToolRecord(c)
    \/ ToolGuard(c)

ModelStep(c) ==
    \/ \E r \in ModelRequests : ModelLookup(c, r) \/ ModelGetRaises(c, r)
    \/ ModelServe(c)
    \/ ModelPutRaises(c)
    \/ ModelReturn(c)
    \/ ModelRaise(c)

RetryStep(c) ==
    \/ \E t \in Tools : RetryRead(c, t)
    \/ RetryStore(c)
    \/ RetryGuard(c)

Next ==
    \/ StartRun
    \/ \E status \in {"ok", "error"} : FinishRun(status)
    \/ \E c \in Callers : ToolStep(c) \/ ModelStep(c) \/ RetryStep(c)
    \/ \E k \in CacheKeys : CacheForget(k)
    \/ \E k \in CacheKeys, r \in Requests : OtherRunStores(k, r)

Spec == Init /\ [][Next]_vars

-----------------------------------------------------------------------------
(* Properties                                                              *)

Labels == {"idle", "blocked", "lookup", "serve", "execute", "record", "guard",
           "model_serve", "model_execute", "retry_inc", "retry_guard",
           "stopped", "paused"}

CallFrame  == [req : Requests, dup : BOOLEAN, hit : Requests \cup {NoResult},
               match : {"none", "exact", "semantic"}]
RetryFrame == [tool : Tools, count : Nat]

Answers == [how : {"none", "ran", "blocked", "served", "raised", "broken"},
            req : Requests \cup {NoResult}, value : Requests \cup {NoResult}]

\* The locals a caller has at each point of a call.
FrameOK(c) ==
    /\ pc[c] \in {"idle", "stopped", "paused"} => frame[c] = NoFrame
    /\ pc[c] \in {"blocked", "lookup", "serve", "execute", "record", "guard"} =>
           frame[c] \in CallFrame /\ frame[c].req \in ToolRequests
    /\ pc[c] = "blocked" => Keyed(frame[c].req)
    /\ pc[c] \in {"model_serve", "model_execute"} =>
           frame[c] \in CallFrame /\ frame[c].req \in ModelRequests
    /\ pc[c] \in {"retry_inc", "retry_guard"} => frame[c] \in RetryFrame

\* Types of the run's state, with the locals each point of a call has
\* (Supervisor.__init__ and the locals of tool(), model() and retry()).
TypeOK ==
    /\ phase \in {"new", "running", "finished"}
    /\ pc \in [Callers -> Labels]
    /\ frame \in [Callers -> CallFrame \cup RetryFrame \cup {NoFrame}]
    /\ \A c \in Callers : FrameOK(c)
    /\ seenOk \subseteq Keys
    /\ toolCache \in [Keys -> Requests \cup {NoResult}]
    /\ cache \in [CacheKeys -> Requests \cup {NoResult}]
    /\ checked \subseteq Requests
    /\ cost \in Nat
    /\ retries \in [Tools -> Nat]
    /\ events \in Seq(Event)
    /\ answer \in [Callers -> Answers]
    /\ completions \in [Keys -> Nat]
    /\ interruptions \in Nat
    /\ calls \in Nat

DedupOn == Decide("duplicate_tool_protection") = "block"

\* A call answered without running gets a result that a successful execution
\* of the same call produced: the same tool and hash for a deduplicated call,
\* the same tool, input and scope for one served from the optimization cache
\* (tool() returning _tool_cache.get(key) or cached_result).
ReuseIsSound ==
    \A c \in Callers :
        LET r == answer[c].req
            v == answer[c].value
        IN  /\ answer[c].how = "blocked" =>
                   v \in ToolRequests /\ Key(v) = Key(r) /\ ~v.failed
            /\ answer[c].how = "served" =>
                   /\ v \in Requests /\ ~v.failed
                   /\ v.tool = r.tool /\ v.input = r.input /\ v.scope = r.scope

\* _seen_tool_status and _tool_cache describe the same successes, whatever the
\* callers interleave, and the optimization cache holds only what its keys
\* allow: the state that makes ReuseIsSound inductive.
MemoCoherent ==
    /\ \A k \in Keys :
           /\ k \in seenOk <=> toolCache[k] # NoResult
           /\ k \in seenOk => /\ toolCache[k] \in ToolRequests
                              /\ Key(toolCache[k]) = k
                              /\ ~toolCache[k].failed
    /\ \A k \in CacheKeys : cache[k] \in Storable(k) \cup {NoResult}

\* The callers that passed the duplicate check for key k and have not recorded
\* a result yet.
InFlight(k) ==
    {c \in Callers : /\ pc[c] \in {"lookup", "serve", "execute", "record"}
                     /\ Keyed(frame[c].req)
                     /\ Key(frame[c].req) = k}

\* With deduplication enforced, a call succeeds at most once per caller: every
\* repetition is one that raced with the first success, since the check and
\* the record of tool() are apart.  One caller never repeats a success.
BoundedReexecution ==
    DedupOn => \A k \in Keys : completions[k] <= Cardinality(Callers)

Positions(type) == {i \in DOMAIN events : events[i].type = type}

Interventions(p) == {i \in Positions("intervention.applied") : events[i].policy = p}

\* The callers whose call has been charged and not been judged yet.
AtGuard == {c \in Callers : pc[c] = "guard"}

\* The cost guard runs after the call it charges and interrupts that call only,
\* so the budget can be overrun, again and again by an application that carries
\* on; but each call charged beyond the limit has an intervention of its own,
\* or is at the guard that gives it one (BudgetTracker.cost_exceeded at the end
\* of tool()).
OvershootBounded ==
    CostLimit # NoLimit /\ Decide("cost_budget") # "observe" =>
        cost <= CostLimit
                + MaxCost * (Cardinality(Interventions("cost_budget")) + Cardinality(AtGuard))

\* Nothing is interrupted or skipped without an audit record, and no record
\* lacks its effect: every StopRun and PauseForApproval raised, whoever caught
\* it and called again, and every blocked completion has its own
\* intervention.applied (_apply_decision and the deduplicating branch of tool()).
InterventionsAudited ==
    /\ interruptions = Cardinality({i \in Positions("intervention.applied") :
                                        events[i].action \in {"stop", "pause"}})
    /\ Cardinality({i \in Positions("tool.completed") : events[i].status = "blocked"})
           = Cardinality(Interventions("duplicate_tool_protection"))

\* retry() schedules no more retries of a tool than its budget allows.
RetriesBounded ==
    Decide("retry_budget") \in {"stop", "pause"} =>
        \A t \in Tools :
            Cardinality({i \in Positions("retry.scheduled") : events[i].tool = t})
                <= RetryLimit

\* Once the trace shows a successful completion of a call, the same call is
\* never started again (policy-engine.md, duplicate_tool_protection: the
\* block applies "after a prior successful call").
RepeatsNeverRun ==
    [][DedupOn =>
          \A c \in Callers :
              /\ pc[c] = "lookup"
              /\ pc'[c] = "execute"
              /\ Keyed(frame[c].req)
              => ~ \E i \in Positions("tool.completed") :
                      /\ events[i].status = "ok"
                      /\ <<events[i].tool, events[i].hash>> = Key(frame[c].req)]_vars

\* ADR-006 non-interference: without enforcement, and unless the optimization
\* mode is "active", every call runs and is answered with its own result or its
\* own exception, no caller is interrupted and no intervention is recorded.  One
\* thing is excepted, and RuntimeNeverRaises is about it: in dry-run over the
\* file backend a call may end by an exception of the cache.
NonInterference ==
    ~Enforce /\ Optimize # "active" =>
        /\ interruptions = 0
        /\ \A c \in Callers :
              /\ answer[c].how \in {"none", "ran", "raised", "broken"}
              /\ answer[c].how = "ran" => answer[c].value = answer[c].req
              /\ answer[c].how = "broken" => Durable /\ Optimize = "dry_run"
        /\ \A i \in DOMAIN events :
              events[i].type \notin {"policy.triggered", "intervention.applied",
                                     "optimization.applied"}

\* ADR-006: without enforcement "the runtime never raises or blocks"; the comment
\* on the cache policy in tool(): "Never changes execution unless the approved
\* policy allows serving an exact, identical-input, cacheable call."
RuntimeNeverRaises ==
    ~Enforce /\ Optimize # "active" => \A c \in Callers : answer[c].how # "broken"

\* The abstract contract, under the refinement mapping: _tool_cache is the
\* memo, and a caller works on a key from the check until tool() has recorded
\* or dropped the result.
Claims(c) ==
    /\ pc[c] \in {"lookup", "execute", "record"}
    /\ Keyed(frame[c].req)
    /\ ~frame[c].req.failed

Results == [k \in Keys |-> {r \in ToolRequests : Key(r) = k /\ ~r.failed}]

Working == [c \in Callers |-> IF Claims(c) THEN Key(frame[c].req) ELSE NoResult]

Given == [c \in Callers |-> IF answer[c].how = "blocked"
                            THEN <<Key(answer[c].req), answer[c].value>>
                            ELSE NoResult]

Contract == INSTANCE ReuseContract WITH
    ResultsOf <- Results, NoKey <- NoResult, NoGift <- NoResult,
    memo <- toolCache, working <- Working, given <- Given

\* Every run with deduplication enforced behaves as the contract says.
ImplementsReuseContract == Contract!Spec
=============================================================================
