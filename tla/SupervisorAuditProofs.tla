------------------------ MODULE SupervisorAuditProofs ------------------------
(***************************************************************************)
(* The theorems of SupervisorRun and SupervisorAudit, for any callers,     *)
(* requests, policies, limits and modes.                                   *)
(*                                                                         *)
(* First a run itself: types, what is reused is sound, what is repeated is *)
(* bounded, every run implements ReuseContract, what is overspent is       *)
(* bounded, observing changes nothing, what is interrupted is audited,     *)
(* retries are bounded and repetitions are blocked.                        *)
(*                                                                         *)
(* Then that the trace of a run reports what the run did.  The inductive   *)
(* invariant AuditInv follows the log: what an entry of it says (Entry),   *)
(* what its completions cost (Charged), which interventions it holds       *)
(* (Balanced) and what they rest on (Traced, Grounded).                    *)
(***************************************************************************)
EXTENDS SupervisorAudit, SequenceTheorems, TraceFacts

-----------------------------------------------------------------------------
(* What the run emits are events.                                          *)

\* A policy decision is an action or "observe" (Enforcer.decide).
LEMMA DecideType ==
    ASSUME NEW p \in PolicyIds
    PROVE  Decide(p) \in Actions \cup {"observe"}
  BY PolicyAssumption DEF Decide

\* A plain event is an event (RunCollector.emit).
LEMMA PlainType ==
    ASSUME NEW type \in EventTypes, NEW tool \in Tools \cup {NoTool},
           NEW status \in Statuses
    PROVE  Plain(type, tool, status) \in Event
  BY DEF Plain, Event

\* The event of a tool call is an event.
LEMMA ToolEventType ==
    ASSUME NEW type \in EventTypes, NEW r \in Request, NEW status \in Statuses,
           NEW dup \in BOOLEAN, NEW amount \in Nat
    PROVE  ToolEvent(type, r, status, dup, amount) \in Event
  <1>1. r.slow \in BOOLEAN /\ r.tool \in Tools /\ r.hash \in Hashes \cup {NoHash}
    BY DEF Request
  <1>2. (r.slow /\ type = "tool.completed" /\ status # "blocked") \in BOOLEAN
    BY <1>1
  <1>3. QED  BY <1>1, <1>2 DEF ToolEvent, Plain, Event

\* emit_intervention emits two events.
LEMMA InterventionType ==
    ASSUME NEW p \in PolicyIds, NEW action \in Actions,
           NEW tool \in Tools \cup {NoTool}
    PROVE  Intervention(p, action, tool) \in Seq(Event)
  <1>1. "policy.triggered" \in EventTypes /\ "intervention.applied" \in EventTypes
        /\ "none" \in Statuses
    BY DEF EventTypes, Statuses
  <1> DEFINE e1 == [Plain("policy.triggered", tool, "none")
                        EXCEPT !.policy = p, !.action = action]
             e2 == [Plain("intervention.applied", tool, "none")
                        EXCEPT !.policy = p, !.action = action]
  <1>2. e1 \in Event /\ e2 \in Event
    BY <1>1 DEF Plain, Event
  <1>3. <<e1, e2>> \in Seq(Event)
    BY <1>2
  <1>4. QED  BY <1>3 DEF Intervention

\* What _apply_decision emits.
LEMMA EmittedType ==
    ASSUME NEW p \in PolicyIds, NEW action \in Actions \cup {"observe"},
           NEW tool \in Tools \cup {NoTool}
    PROVE  Emitted(p, action, tool) \in Seq(Event)
  BY InterventionType DEF Emitted

\* Extending the event log by events gives an event log.
LEMMA LogType ==
    ASSUME NEW s \in Seq(Event), NEW t \in Seq(Event)
    PROVE  s \o t \in Seq(Event)
  BY ConcatProperties

\* One or two events are a log.
LEMMA ShortLog ==
    ASSUME NEW e1 \in Event, NEW e2 \in Event
    PROVE  << e1 >> \in Seq(Event) /\ << e1, e2 >> \in Seq(Event)
  OBVIOUS

-----------------------------------------------------------------------------
(* Type correctness                                                        *)

\* The requests are well-formed, and their keys are keys of the caches.
LEMMA RequestType ==
    ASSUME NEW r \in Requests
    PROVE  /\ r \in Request
           /\ r.tool \in Tools
           /\ r.hash \in Hashes \cup {NoHash}
           /\ r.failed \in BOOLEAN
           /\ r.marked \in BOOLEAN
           /\ r.cost \in Nat
           /\ Keyed(r) => Key(r) \in Keys
           /\ CacheKey(r) \in CacheKeys
  BY RunAssumption DEF Requests, Request, Keyed, Key, Keys, CacheKey, CacheKeys

\* A file with the results of some requests holds at each key nothing, or what
\* the key allows.
LEMMA HoldingType ==
    ASSUME NEW S \in SUBSET Requests
    PROVE  /\ Holding(S) \in [CacheKeys -> Requests \cup {NoResult}]
           /\ \A k \in CacheKeys : Holding(S)[k] \in Storable(k) \cup {NoResult}
  <1>1. ASSUME NEW k \in CacheKeys
        PROVE  /\ Holding(S)[k] \in Storable(k) \cup {NoResult}
               /\ Holding(S)[k] \in Requests \cup {NoResult}
    <2>1. CASE S \cap Storable(k) = {}
      BY <2>1 DEF Holding
    <2>2. CASE S \cap Storable(k) # {}
      <3>1. (CHOOSE r \in S \cap Storable(k) : TRUE) \in S \cap Storable(k)
        BY <2>2
      <3>2. QED  BY <2>2, <3>1 DEF Holding, Storable
    <2>3. QED  BY <2>1, <2>2
  <1>2. Holding(S) = [k \in CacheKeys |-> Holding(S)[k]]
    BY DEF Holding
  <1>3. QED  BY <1>1, <1>2

\* The initial state is well-typed (Supervisor.__init__).
LEMMA InitType == Init => TypeOK
  <1> SUFFICES ASSUME Init  PROVE TypeOK
    OBVIOUS
  <1>1. cache \in [CacheKeys -> Requests \cup {NoResult}]
    <2>1. CASE Durable
      BY <2>1, HoldingType DEF Init
    <2>2. CASE ~Durable
      BY <2>2 DEF Init
    <2>3. QED  BY <2>1, <2>2
  <1>2. events \in Seq(Event)
    BY DEF Init
  <1>3. answer \in [Callers -> Answers]
    BY DEF Init, NoAnswer, Answers
  <1>4. \A c \in Callers : FrameOK(c)
    BY DEF Init, FrameOK
  <1>5. pc \in [Callers -> Labels]
    BY DEF Init, Labels
  <1>6. QED  BY <1>1, <1>2, <1>3, <1>4, <1>5 DEF Init, TypeOK

\* The callers that a step of caller c leaves alone keep their locals.
LEMMA FrameStep ==
    ASSUME TypeOK, NEW c \in Callers, NEW label \in Labels,
           pc' = [pc EXCEPT ![c] = label],
           NEW f \in CallFrame \cup RetryFrame \cup {NoFrame},
           frame' = [frame EXCEPT ![c] = f],
           /\ label \in {"idle", "stopped", "paused"} => f = NoFrame
           /\ label \in {"blocked", "lookup", "serve", "execute", "record", "guard"} =>
                  f \in CallFrame /\ f.req \in ToolRequests
           /\ label = "blocked" => Keyed(f.req)
           /\ label \in {"model_serve", "model_execute"} =>
                  f \in CallFrame /\ f.req \in ModelRequests
           /\ label \in {"retry_inc", "retry_guard"} => f \in RetryFrame
    PROVE  /\ pc' \in [Callers -> Labels]
           /\ frame' \in [Callers -> CallFrame \cup RetryFrame \cup {NoFrame}]
           /\ \A d \in Callers : FrameOK(d)'
  <1>1. pc' \in [Callers -> Labels]
    BY DEF TypeOK
  <1>2. frame' \in [Callers -> CallFrame \cup RetryFrame \cup {NoFrame}]
    BY DEF TypeOK
  <1>3. ASSUME NEW d \in Callers  PROVE FrameOK(d)'
    <2>1. CASE d = c
      <3>1. pc'[c] = label /\ frame'[c] = f
        BY DEF TypeOK
      <3>2. QED  BY <2>1, <3>1 DEF FrameOK
    <2>2. CASE d # c
      <3>1. pc'[d] = pc[d] /\ frame'[d] = frame[d]
        BY <2>2 DEF TypeOK
      <3>2. FrameOK(d)
        BY DEF TypeOK
      <3>3. QED  BY <3>1, <3>2 DEF FrameOK
    <2>3. QED  BY <2>1, <2>2
  <1>4. QED  BY <1>1, <1>2, <1>3

\* Returning from a call leaves the caller idle, without locals.
LEMMA ReturnStep ==
    ASSUME TypeOK, NEW c \in Callers,
           NEW how \in {"ran", "blocked", "served", "raised", "broken"},
           NEW r \in Requests, NEW value \in Requests \cup {NoResult},
           Return(c, how, r, value)
    PROVE  /\ pc' \in [Callers -> Labels]
           /\ frame' \in [Callers -> CallFrame \cup RetryFrame \cup {NoFrame}]
           /\ \A d \in Callers : FrameOK(d)'
           /\ answer' \in [Callers -> Answers]
  <1>1. /\ pc' = [pc EXCEPT ![c] = "idle"]
        /\ frame' = [frame EXCEPT ![c] = NoFrame]
        /\ answer' = [answer EXCEPT ![c] = Answer(how, r, value)]
    BY DEF Return, Goto
  <1>2. Answer(how, r, value) \in Answers
    BY DEF Answer, Answers
  <1>3. answer' \in [Callers -> Answers]
    BY <1>1, <1>2 DEF TypeOK
  <1>4. "idle" \in Labels
    BY DEF Labels
  <1>5. QED  BY <1>1, <1>3, <1>4, FrameStep

\* A caller inside tool() has the locals of a tool call.
LEMMA ToolFrame ==
    ASSUME TypeOK, NEW c \in Callers,
           pc[c] \in {"blocked", "lookup", "serve", "execute", "record", "guard"}
    PROVE  /\ frame[c] \in CallFrame
           /\ frame[c].req \in ToolRequests
           /\ frame[c].req \in Requests
           /\ frame[c].dup \in BOOLEAN
           /\ frame[c].hit \in Requests \cup {NoResult}
  BY DEF TypeOK, FrameOK, CallFrame, Requests

\* A caller inside model() has the locals of a model call.
LEMMA ModelFrame ==
    ASSUME TypeOK, NEW c \in Callers, pc[c] \in {"model_serve", "model_execute"}
    PROVE  /\ frame[c] \in CallFrame
           /\ frame[c].req \in ModelRequests
           /\ frame[c].req \in Requests
           /\ frame[c].hit \in Requests \cup {NoResult}
  BY DEF TypeOK, FrameOK, CallFrame, Requests

\* The label _apply_decision leads to.
LEMMA ContinueType ==
    ASSUME NEW action, NEW label \in Labels
    PROVE  Continue(action, label) \in {"stopped", "paused", label}
  BY DEF Continue

\* tool() preserves types.
LEMMA TypeToolStep ==
    ASSUME TypeOK, NEW c \in Callers, ToolStep(c)
    PROVE  TypeOK'
  <1> USE PolicyAssumption, RunAssumption
  <1>1. ASSUME NEW r \in ToolRequests, ToolCheck(c, r)  PROVE TypeOK'
    <2> DEFINE f == [req |-> r, dup |-> PriorOk(r) \/ r.marked, hit |-> NoResult,
                     match |-> "none"]
               label == IF PriorOk(r) /\ Decide("duplicate_tool_protection") = "block"
                        THEN "blocked" ELSE "lookup"
    <2>1. r \in Requests
      BY DEF Requests
    <2>2. (PriorOk(r) \/ r.marked) \in BOOLEAN
      OBVIOUS
    <2>3. f \in CallFrame /\ f.req \in ToolRequests
      BY <2>1, <2>2 DEF CallFrame
    <2>4. /\ label \in Labels /\ label \in {"blocked", "lookup"}
          /\ label = "blocked" => Keyed(f.req)
      BY DEF Labels, PriorOk
    <2>5. pc' = [pc EXCEPT ![c] = label] /\ frame' = [frame EXCEPT ![c] = f]
      BY <1>1 DEF ToolCheck, Goto
    <2>6. /\ pc' \in [Callers -> Labels]
          /\ frame' \in [Callers -> CallFrame \cup RetryFrame \cup {NoFrame}]
          /\ \A d \in Callers : FrameOK(d)'
      <3> HIDE DEF f, label
      <3> QED  BY <2>3, <2>4, <2>5, FrameStep
    <2>7. answer' \in [Callers -> Answers]
      BY <1>1 DEF ToolCheck, TypeOK, NoAnswer, Answers
    <2>8. calls' \in Nat
      BY <1>1 DEF ToolCheck, Begin, TypeOK
    <2>9. QED  BY <1>1, <2>6, <2>7, <2>8 DEF ToolCheck, TypeOK
  <1>2. CASE ToolBlocked(c)
    <2> DEFINE r == frame[c].req
    <2>1. r \in Requests /\ Keyed(r)
      BY <1>2, ToolFrame DEF ToolBlocked, TypeOK, FrameOK
    <2>2. r \in Request /\ r.tool \in Tools /\ Key(r) \in Keys
      BY <2>1, RequestType
    <2>3. toolCache[Key(r)] \in Requests \cup {NoResult}
      BY <2>2 DEF TypeOK
    <2>4. events' \in Seq(Event)
      <3>1. Intervention("duplicate_tool_protection", "block", r.tool) \in Seq(Event)
        BY <2>2, InterventionType DEF PolicyIds, Actions
      <3>2. /\ ToolEvent("tool.requested", r, "none", TRUE, 0) \in Event
            /\ ToolEvent("tool.completed", r, "blocked", TRUE, 0) \in Event
        BY <2>2, ToolEventType DEF EventTypes, Statuses
      <3>3. QED
        <4> DEFINE audit == Intervention("duplicate_tool_protection", "block", r.tool)
                   pair == << ToolEvent("tool.requested", r, "none", TRUE, 0),
                              ToolEvent("tool.completed", r, "blocked", TRUE, 0) >>
        <4>1. audit \in Seq(Event) /\ pair \in Seq(Event) /\ events \in Seq(Event)
          BY <3>1, <3>2, ShortLog DEF TypeOK
        <4>2. events' = (events \o audit) \o pair
          BY <1>2 DEF ToolBlocked
        <4> HIDE DEF audit, pair
        <4>3. QED  BY <4>1, <4>2, LogType
    <2>5. Return(c, "blocked", r, toolCache[Key(r)])
      BY <1>2 DEF ToolBlocked
    <2>6. QED  BY <1>2, <2>1, <2>3, <2>4, <2>5, ReturnStep DEF ToolBlocked, TypeOK
  <1>3. CASE ToolLookup(c)
    <2> DEFINE r == frame[c].req
               looked == Optimize # "off" /\ ~r.failed
               found == IF looked /\ r.cacheable THEN cache[CacheKey(r)] ELSE NoResult
               match == IF looked THEN Match(r) ELSE "none"
               label == IF Optimize = "active" /\ Approved /\ found # NoResult
                        THEN "serve" ELSE "execute"
               f == [frame[c] EXCEPT !.hit = found, !.match = match]
    <2>1. /\ frame[c] \in CallFrame /\ r \in ToolRequests /\ r \in Requests
          /\ frame[c].dup \in BOOLEAN
      BY <1>3, ToolFrame DEF ToolLookup
    <2>2. r \in Request /\ CacheKey(r) \in CacheKeys
      BY <2>1, RequestType
    <2>3. found \in Requests \cup {NoResult}
      BY <2>2 DEF TypeOK
    <2>4. match \in {"none", "exact", "semantic"}
      BY DEF Match
    <2>5. f \in CallFrame /\ f.req \in ToolRequests
      <3> HIDE DEF found, match
      <3> QED  BY <2>1, <2>3, <2>4 DEF CallFrame
    <2>6. label \in Labels /\ label \in {"serve", "execute"}
      BY DEF Labels
    <2>7. pc' = [pc EXCEPT ![c] = label] /\ frame' = [frame EXCEPT ![c] = f]
      BY <1>3 DEF ToolLookup, Goto, TypeOK
    <2>8. /\ pc' \in [Callers -> Labels]
          /\ frame' \in [Callers -> CallFrame \cup RetryFrame \cup {NoFrame}]
          /\ \A d \in Callers : FrameOK(d)'
      <3> HIDE DEF f, label
      <3> QED  BY <2>5, <2>6, <2>7, FrameStep
    <2>9. events' \in Seq(Event)
      <3>1. ToolEvent("tool.requested", r, "none", frame[c].dup, 0) \in Event
        BY <2>1, <2>2, ToolEventType DEF EventTypes, Statuses
      <3>2. QED  BY <1>3, <3>1 DEF ToolLookup, TypeOK
    <2>10. checked' \subseteq Requests
      BY <1>3, <2>1 DEF ToolLookup, TypeOK
    <2>11. QED  BY <1>3, <2>8, <2>9, <2>10 DEF ToolLookup, TypeOK
  <1>4. CASE ToolServe(c)
    <2> DEFINE r == frame[c].req
    <2>1. /\ r \in Requests /\ frame[c].dup \in BOOLEAN
          /\ frame[c].hit \in Requests \cup {NoResult}
      BY <1>4, ToolFrame DEF ToolServe
    <2>2. r \in Request /\ r.tool \in Tools
      BY <2>1, RequestType
    <2>3. events' \in Seq(Event)
      <3>1. Plain("optimization.applied", r.tool, "none") \in Event
        BY <2>2, PlainType DEF EventTypes, Statuses
      <3>2. ToolEvent("tool.completed", r, "ok", frame[c].dup, ServedCost(r)) \in Event
        BY <2>1, <2>2, ToolEventType DEF EventTypes, Statuses, ServedCost
      <3>3. QED  BY <1>4, <3>1, <3>2 DEF ToolServe, TypeOK
    <2>4. Return(c, "served", r, frame[c].hit)
      BY <1>4 DEF ToolServe
    <2>5. QED  BY <1>4, <2>1, <2>3, <2>4, ReturnStep DEF ToolServe, TypeOK
  <1>5. CASE ToolRaise(c)
    <2>1. frame[c].req \in Requests /\ Return(c, "raised", frame[c].req, NoResult)
      BY <1>5, ToolFrame DEF ToolRaise
    <2>2. QED  BY <1>5, <2>1, ReturnStep DEF ToolRaise, TypeOK
  <1>6. CASE ToolGetRaises(c) \/ ToolPutRaises(c)
    <2>1. frame[c].req \in Requests /\ Return(c, "broken", frame[c].req, NoResult)
      BY <1>6, ToolFrame DEF ToolGetRaises, ToolPutRaises
    <2>2. checked' \subseteq Requests
      BY <1>6, <2>1 DEF ToolGetRaises, ToolPutRaises, TypeOK
    <2>3. QED
      BY <1>6, <2>1, <2>2, ReturnStep DEF ToolGetRaises, ToolPutRaises, TypeOK
  <1>7. CASE ToolReturn(c)
    <2> DEFINE r == frame[c].req
    <2>1. /\ frame[c] \in CallFrame /\ r \in ToolRequests /\ r \in Requests
          /\ frame[c].dup \in BOOLEAN
      BY <1>7, ToolFrame DEF ToolReturn
    <2>2. /\ r \in Request /\ r.tool \in Tools /\ r.cost \in Nat
          /\ CacheKey(r) \in CacheKeys
      BY <2>1, RequestType
    <2>3. events' \in Seq(Event)
      <3> DEFINE rec == << Plain("optimization.recommended", r.tool, "none") >>
                 done == << ToolEvent("tool.completed", r,
                                IF r.failed THEN "error" ELSE "ok",
                                frame[c].dup, r.cost) >>
      <3>1. Plain("optimization.recommended", r.tool, "none") \in Event
        BY <2>2, PlainType DEF EventTypes, Statuses
      <3>2. done \in Seq(Event)
        <4>1. (IF r.failed THEN "error" ELSE "ok") \in Statuses
          BY DEF Statuses
        <4>2. "tool.completed" \in EventTypes
          BY DEF EventTypes
        <4>3. QED  BY <2>1, <2>2, <4>1, <4>2, ToolEventType
      <3>3. rec \in Seq(Event)
        BY <3>1
      <3>4. events \in Seq(Event)
        BY DEF TypeOK
      <3>5. events' = (events \o rec) \o done \/ events' = (events \o << >>) \o done
        BY <1>7 DEF ToolReturn
      <3>6. QED
        <4> HIDE DEF rec, done
        <4>1. << >> \in Seq(Event)
          OBVIOUS
        <4>2. events \o rec \in Seq(Event) /\ events \o << >> \in Seq(Event)
          BY <3>3, <3>4, <4>1, LogType
        <4>3. /\ (events \o rec) \o done \in Seq(Event)
              /\ (events \o << >>) \o done \in Seq(Event)
          BY <3>2, <4>2, LogType
        <4>4. QED  BY <3>5, <4>3
    <2>4. cache' \in [CacheKeys -> Requests \cup {NoResult}]
      BY <1>7, <2>1 DEF ToolReturn, TypeOK
    <2>5. /\ pc' \in [Callers -> Labels]
          /\ frame' \in [Callers -> CallFrame \cup RetryFrame \cup {NoFrame}]
          /\ \A d \in Callers : FrameOK(d)'
      <3>1. frame' = [frame EXCEPT ![c] = frame[c]] /\ pc' = [pc EXCEPT ![c] = "record"]
        BY <1>7 DEF ToolReturn, Goto, TypeOK
      <3>2. "record" \in Labels
        BY DEF Labels
      <3>3. QED  BY <2>1, <3>1, <3>2, FrameStep
    <2>6. QED  BY <1>7, <2>3, <2>4, <2>5 DEF ToolReturn, TypeOK
  <1>8. CASE ToolRecord(c)
    <2> DEFINE r == frame[c].req
    <2>1. frame[c] \in CallFrame /\ r \in ToolRequests /\ r \in Requests
      BY <1>8, ToolFrame DEF ToolRecord
    <2>2. r.cost \in Nat /\ (Remembers(r) => Key(r) \in Keys)
      BY <2>1, RequestType DEF Remembers
    <2>3. cost' \in Nat
      BY <1>8, <2>2 DEF ToolRecord, TypeOK, Charge
    <2>4. /\ seenOk' \subseteq Keys
          /\ toolCache' \in [Keys -> Requests \cup {NoResult}]
          /\ completions' \in [Keys -> Nat]
      BY <1>8, <2>1, <2>2 DEF ToolRecord, TypeOK
    <2>5. /\ pc' \in [Callers -> Labels]
          /\ frame' \in [Callers -> CallFrame \cup RetryFrame \cup {NoFrame}]
          /\ \A d \in Callers : FrameOK(d)'
      <3>1. frame' = [frame EXCEPT ![c] = frame[c]] /\ pc' = [pc EXCEPT ![c] = "guard"]
        BY <1>8 DEF ToolRecord, Goto, TypeOK
      <3>2. "guard" \in Labels
        BY DEF Labels
      <3>3. QED  BY <2>1, <3>1, <3>2, FrameStep
    <2>6. QED  BY <1>8, <2>3, <2>4, <2>5 DEF ToolRecord, TypeOK
  <1>9. CASE ToolGuard(c)
    <2> DEFINE r == frame[c].req
               action == IF CostExceeded THEN Decide("cost_budget") ELSE "observe"
               next == Continue(action, "idle")
    <2>1. r \in Requests /\ r.tool \in Tools
      BY <1>9, ToolFrame, RequestType DEF ToolGuard
    <2>2. action \in Actions \cup {"observe"}
      BY DecideType DEF PolicyIds
    <2>3. next \in Labels /\ next \in {"stopped", "paused", "idle"}
      BY DEF Continue, Labels
    <2>4. events' \in Seq(Event)
      <3> HIDE DEF action
      <3>1. Emitted("cost_budget", action, r.tool) \in Seq(Event)
        BY <2>1, <2>2, EmittedType DEF PolicyIds
      <3>2. events' = events \o Emitted("cost_budget", action, r.tool)
        BY <1>9 DEF ToolGuard, action
      <3>3. QED  BY <3>1, <3>2 DEF TypeOK
    <2>5. /\ pc' \in [Callers -> Labels]
          /\ frame' \in [Callers -> CallFrame \cup RetryFrame \cup {NoFrame}]
          /\ \A d \in Callers : FrameOK(d)'
      <3>1. frame' = [frame EXCEPT ![c] = NoFrame] /\ pc' = [pc EXCEPT ![c] = next]
        BY <1>9 DEF ToolGuard, Goto
      <3> HIDE DEF next
      <3>2. QED  BY <2>3, <3>1, FrameStep
    <2>6. answer' \in [Callers -> Answers]
      BY <1>9, <2>1 DEF ToolGuard, TypeOK, Answer, Answers
    <2>7. interruptions' \in Nat
      BY <1>9 DEF ToolGuard, TypeOK, Raised
    <2>8. QED  BY <1>9, <2>4, <2>5, <2>6, <2>7 DEF ToolGuard, TypeOK
  <1>10. QED
    BY <1>1, <1>2, <1>3, <1>4, <1>5, <1>6, <1>7, <1>8, <1>9 DEF ToolStep

\* model() preserves types.
LEMMA TypeModelStep ==
    ASSUME TypeOK, NEW c \in Callers, ModelStep(c)
    PROVE  TypeOK'
  <1> USE PolicyAssumption, RunAssumption
  <1>1. ASSUME NEW r \in ModelRequests, ModelLookup(c, r)  PROVE TypeOK'
    <2> DEFINE match == IF Optimize # "off" THEN Match(r) ELSE "none"
               found == IF match # "none" THEN cache[CacheKey(r)] ELSE NoResult
               label == IF /\ Optimize = "active" /\ Approved /\ r.cacheable
                           /\ match = "exact" /\ found # NoResult
                        THEN "model_serve" ELSE "model_execute"
               f == [req |-> r, dup |-> FALSE, hit |-> found, match |-> match]
    <2>1. r \in Requests
      BY DEF Requests
    <2>2. r \in Request /\ r.tool \in Tools /\ CacheKey(r) \in CacheKeys
      BY <2>1, RequestType
    <2>3. found \in Requests \cup {NoResult}
      BY <2>2 DEF TypeOK
    <2>4. match \in {"none", "exact", "semantic"}
      BY DEF Match
    <2>5. label \in Labels /\ label \in {"model_serve", "model_execute"}
      BY DEF Labels
    <2>6. f \in CallFrame /\ f.req \in ModelRequests
      <3> HIDE DEF found, match
      <3> QED  BY <2>1, <2>3, <2>4 DEF CallFrame
    <2>7. pc' = [pc EXCEPT ![c] = label] /\ frame' = [frame EXCEPT ![c] = f]
      BY <1>1 DEF ModelLookup, Goto
    <2>8. /\ pc' \in [Callers -> Labels]
          /\ frame' \in [Callers -> CallFrame \cup RetryFrame \cup {NoFrame}]
          /\ \A d \in Callers : FrameOK(d)'
      <3> HIDE DEF f, label
      <3> QED  BY <2>5, <2>6, <2>7, FrameStep
    <2>9. events' \in Seq(Event)
      <3>1. Plain("model.requested", r.tool, "none") \in Event
        BY <2>2, PlainType DEF EventTypes, Statuses
      <3>2. QED  BY <1>1, <3>1 DEF ModelLookup, TypeOK
    <2>10. answer' \in [Callers -> Answers] /\ calls' \in Nat
      BY <1>1 DEF ModelLookup, Begin, TypeOK, NoAnswer, Answers
    <2>11. checked' \subseteq Requests
      BY <1>1, <2>1 DEF ModelLookup, TypeOK
    <2>12. QED  BY <1>1, <2>8, <2>9, <2>10, <2>11 DEF ModelLookup, TypeOK
  <1>2. CASE ModelServe(c)
    <2> DEFINE r == frame[c].req
    <2>1. r \in Requests /\ frame[c].hit \in Requests \cup {NoResult}
      BY <1>2, ModelFrame DEF ModelServe
    <2>2. events' \in Seq(Event)
      <3> DEFINE pair == << Plain("optimization.applied", r.tool, "none"),
                            Plain("model.completed", r.tool, "ok") >>
      <3>1. pair \in Seq(Event)
        BY <2>1, RequestType, PlainType, ShortLog DEF EventTypes, Statuses
      <3>2. events' = events \o pair /\ events \in Seq(Event)
        BY <1>2 DEF ModelServe, TypeOK
      <3> HIDE DEF pair
      <3>3. QED  BY <3>1, <3>2, LogType
    <2>3. Return(c, "served", r, frame[c].hit)
      BY <1>2 DEF ModelServe
    <2>4. QED  BY <1>2, <2>1, <2>2, <2>3, ReturnStep DEF ModelServe, TypeOK
  <1>3. CASE ModelReturn(c)
    <2> DEFINE r == frame[c].req
    <2>1. r \in Requests
      BY <1>3, ModelFrame DEF ModelReturn
    <2>2. r.tool \in Tools /\ r.cost \in Nat /\ CacheKey(r) \in CacheKeys
      BY <2>1, RequestType
    <2>3. events' \in Seq(Event)
      <3> DEFINE rec == << Plain("optimization.recommended", r.tool, "none") >>
                 e == Plain("model.completed", r.tool, "ok")
                 done == << [e EXCEPT !.cost = r.cost] >>
      <3>1. rec \in Seq(Event)
        BY <2>2, PlainType DEF EventTypes, Statuses
      <3>2. e \in Event
        BY <2>2, PlainType DEF EventTypes, Statuses
      <3>3. done \in Seq(Event)
        <4>1. [e EXCEPT !.cost = r.cost] \in Event
          <5> HIDE DEF e
          <5> QED  BY <2>2, <3>2 DEF Event
        <4>2. QED  BY <4>1
      <3>4. events' = (events \o rec) \o done \/ events' = (events \o << >>) \o done
        BY <1>3 DEF ModelReturn
      <3>5. events \in Seq(Event) /\ << >> \in Seq(Event)
        BY DEF TypeOK
      <3> HIDE DEF rec, done
      <3>6. events \o rec \in Seq(Event) /\ events \o << >> \in Seq(Event)
        BY <3>1, <3>5, LogType
      <3>7. /\ (events \o rec) \o done \in Seq(Event)
            /\ (events \o << >>) \o done \in Seq(Event)
        BY <3>3, <3>6, LogType
      <3>8. QED  BY <3>4, <3>7
    <2>4. cache' \in [CacheKeys -> Requests \cup {NoResult}]
      BY <1>3, <2>1 DEF ModelReturn, TypeOK
    <2>5. Return(c, "ran", r, r)
      BY <1>3 DEF ModelReturn
    <2>6. QED  BY <1>3, <2>1, <2>3, <2>4, <2>5, ReturnStep DEF ModelReturn, TypeOK
  <1>4. CASE ModelRaise(c) \/ ModelPutRaises(c)
    <2>1. /\ frame[c].req \in Requests
          /\ \E how \in {"raised", "broken"} : Return(c, how, frame[c].req, NoResult)
      BY <1>4, ModelFrame DEF ModelRaise, ModelPutRaises
    <2>2. QED  BY <1>4, <2>1, ReturnStep DEF ModelRaise, ModelPutRaises, TypeOK
  <1>5. ASSUME NEW r \in ModelRequests, ModelGetRaises(c, r)  PROVE TypeOK'
    <2>1. r \in Requests /\ Return(c, "broken", r, NoResult)
      BY <1>5 DEF ModelGetRaises, Requests
    <2>2. checked' \subseteq Requests /\ calls' \in Nat
      BY <1>5, <2>1 DEF ModelGetRaises, Begin, TypeOK
    <2>3. QED  BY <1>5, <2>1, <2>2, ReturnStep DEF ModelGetRaises, TypeOK
  <1>6. QED  BY <1>1, <1>2, <1>3, <1>4, <1>5 DEF ModelStep

\* retry() preserves types.
LEMMA TypeRetryStep ==
    ASSUME TypeOK, NEW c \in Callers, RetryStep(c)
    PROVE  TypeOK'
  <1> USE PolicyAssumption, RunAssumption
  <1>1. ASSUME NEW t \in Tools, RetryRead(c, t)  PROVE TypeOK'
    <2> DEFINE f == [tool |-> t, count |-> retries[t]]
    <2>1. f \in RetryFrame
      BY DEF RetryFrame, TypeOK
    <2>2. "retry_inc" \in Labels
      BY DEF Labels
    <2>3. pc' = [pc EXCEPT ![c] = "retry_inc"] /\ frame' = [frame EXCEPT ![c] = f]
      BY <1>1 DEF RetryRead, Goto
    <2>4. /\ pc' \in [Callers -> Labels]
          /\ frame' \in [Callers -> CallFrame \cup RetryFrame \cup {NoFrame}]
          /\ \A d \in Callers : FrameOK(d)'
      <3> HIDE DEF f
      <3> QED  BY <2>1, <2>2, <2>3, FrameStep
    <2>5. answer' \in [Callers -> Answers] /\ calls' \in Nat
      BY <1>1 DEF RetryRead, Begin, TypeOK, NoAnswer, Answers
    <2>6. QED  BY <1>1, <2>4, <2>5 DEF RetryRead, TypeOK
  <1>2. CASE RetryStore(c)
    <2>1. frame[c] \in RetryFrame
      BY <1>2 DEF RetryStore, TypeOK, FrameOK
    <2>2. retries' \in [Tools -> Nat]
      BY <1>2, <2>1 DEF RetryStore, RetryFrame, Increment, TypeOK
    <2>3. /\ pc' = [pc EXCEPT ![c] = "retry_guard"]
          /\ frame' = [frame EXCEPT ![c] = frame[c]]
      BY <1>2 DEF RetryStore, Goto, TypeOK
    <2>4. "retry_guard" \in Labels
      BY DEF Labels
    <2>5. /\ pc' \in [Callers -> Labels]
          /\ frame' \in [Callers -> CallFrame \cup RetryFrame \cup {NoFrame}]
          /\ \A d \in Callers : FrameOK(d)'
      BY <2>1, <2>3, <2>4, FrameStep
    <2>6. QED  BY <1>2, <2>2, <2>5 DEF RetryStore, TypeOK
  <1>3. CASE RetryGuard(c)
    <2> DEFINE t == frame[c].tool
               action == IF RetriesExhausted(t) THEN Decide("retry_budget")
                                                ELSE "observe"
               next == Continue(action, "idle")
               audit == Emitted("retry_budget", action, t)
               pair == << Plain("retry.scheduled", t, "none"),
                          Plain("retry.completed", t, "none") >>
    <2>1. t \in Tools
      BY <1>3 DEF RetryGuard, TypeOK, FrameOK, RetryFrame
    <2>2. action \in Actions \cup {"observe"}
      BY DecideType DEF PolicyIds
    <2>3. next \in Labels /\ next \in {"stopped", "paused", "idle"}
      BY DEF Continue, Labels
    <2>4. events' \in Seq(Event)
      <3>1. audit \in Seq(Event)
        <4> HIDE DEF action
        <4> QED  BY <2>1, <2>2, EmittedType DEF PolicyIds
      <3>2. pair \in Seq(Event)
        BY <2>1, PlainType, ShortLog DEF EventTypes, Statuses
      <3>3. events' = (events \o audit) \o pair \/ events' = (events \o audit) \o << >>
        BY <1>3 DEF RetryGuard
      <3>4. events \in Seq(Event) /\ << >> \in Seq(Event)
        BY DEF TypeOK
      <3> HIDE DEF audit, pair
      <3>5. events \o audit \in Seq(Event)
        BY <3>1, <3>4, LogType
      <3>6. /\ (events \o audit) \o pair \in Seq(Event)
            /\ (events \o audit) \o << >> \in Seq(Event)
        BY <3>2, <3>4, <3>5, LogType
      <3>7. QED  BY <3>3, <3>6
    <2>5. /\ pc' \in [Callers -> Labels]
          /\ frame' \in [Callers -> CallFrame \cup RetryFrame \cup {NoFrame}]
          /\ \A d \in Callers : FrameOK(d)'
      <3>1. frame' = [frame EXCEPT ![c] = NoFrame] /\ pc' = [pc EXCEPT ![c] = next]
        BY <1>3 DEF RetryGuard, Goto
      <3> HIDE DEF next
      <3>2. QED  BY <2>3, <3>1, FrameStep
    <2>6. interruptions' \in Nat
      BY <1>3 DEF RetryGuard, TypeOK, Raised
    <2>7. QED  BY <1>3, <2>4, <2>5, <2>6 DEF RetryGuard, TypeOK
  <1>4. QED  BY <1>1, <1>2, <1>3 DEF RetryStep

\* Starting and finishing a run and the cache's environment preserve types.
LEMMA TypeRunStep ==
    ASSUME TypeOK,
           \/ StartRun
           \/ \E status \in {"ok", "error"} : FinishRun(status)
           \/ \E k \in CacheKeys : CacheForget(k)
           \/ \E k \in CacheKeys, r \in Requests : OtherRunStores(k, r)
    PROVE  TypeOK'
  <1>1. CASE StartRun
    <2>1. Plain("run.started", NoTool, "none") \in Event
      BY PlainType DEF EventTypes, Statuses
    <2>2. QED  BY <1>1, <2>1 DEF StartRun, TypeOK, FrameOK
  <1>2. ASSUME NEW status \in {"ok", "error"}, FinishRun(status)  PROVE TypeOK'
    <2> DEFINE done == << Plain("run.completed", NoTool, status) >>
               failed == << Plain("run.failed", NoTool, status) >>
    <2>1. done \in Seq(Event) /\ failed \in Seq(Event)
      BY PlainType DEF EventTypes, Statuses
    <2>2. events' = (events \o done) \o failed \/ events' = (events \o done) \o << >>
      BY <1>2 DEF FinishRun
    <2>3. events \in Seq(Event) /\ << >> \in Seq(Event)
      BY DEF TypeOK
    <2>4. events' \in Seq(Event)
      <3> HIDE DEF done, failed
      <3>1. events \o done \in Seq(Event)
        BY <2>1, <2>3, LogType
      <3>2. /\ (events \o done) \o failed \in Seq(Event)
            /\ (events \o done) \o << >> \in Seq(Event)
        BY <2>1, <2>3, <3>1, LogType
      <3>3. QED  BY <2>2, <3>2
    <2>5. QED  BY <1>2, <2>4 DEF FinishRun, TypeOK, FrameOK
  <1>3. ASSUME NEW k \in CacheKeys, CacheForget(k)  PROVE TypeOK'
    BY <1>3 DEF CacheForget, TypeOK, FrameOK
  <1>4. ASSUME NEW k \in CacheKeys, NEW r \in Requests, OtherRunStores(k, r)
        PROVE TypeOK'
    BY <1>4 DEF OtherRunStores, TypeOK, FrameOK
  <1>5. QED  BY <1>1, <1>2, <1>3, <1>4

\* Every reachable state of a run is well-typed, and every caller has the
\* locals its point in tool(), model() or retry() needs.
THEOREM TypeCorrect == Spec => []TypeOK
  <1>1. Init => TypeOK
    BY InitType
  <1>2. TypeOK /\ [Next]_vars => TypeOK'
    <2> SUFFICES ASSUME TypeOK, [Next]_vars  PROVE TypeOK'
      OBVIOUS
    <2>1. CASE Next
      BY <2>1, TypeToolStep, TypeModelStep, TypeRetryStep, TypeRunStep DEF Next
    <2>2. CASE UNCHANGED vars
      BY <2>2 DEF vars, TypeOK, FrameOK
    <2>3. QED  BY <2>1, <2>2
  <1>3. QED  BY <1>1, <1>2, PTL DEF Spec

\* Every reachable step keeps the types on both sides (TypeCorrect, one step).
LEMMA TypeStep == TypeOK /\ [Next]_vars => TypeOK'
  <1> SUFFICES ASSUME TypeOK, [Next]_vars  PROVE TypeOK'
    OBVIOUS
  <1>1. CASE Next
    BY <1>1, TypeToolStep, TypeModelStep, TypeRetryStep, TypeRunStep DEF Next
  <1>2. CASE UNCHANGED vars
    BY <1>2 DEF vars, TypeOK, FrameOK
  <1>3. QED  BY <1>1, <1>2

-----------------------------------------------------------------------------
(* What is reused is sound.                                                *)

\* What makes ReuseIsSound inductive: the memo and the cache are coherent, a
\* caller about to be answered from the memo has a result there, and a caller
\* about to be served holds a result its own key allows.
ReuseInv ==
    /\ MemoCoherent
    /\ ReuseIsSound
    /\ \A c \in Callers :
          /\ pc[c] = "blocked" => Key(frame[c].req) \in seenOk
          /\ pc[c] \in {"serve", "model_serve"} =>
                 frame[c].hit \in Storable(CacheKey(frame[c].req))

\* The initial state holds no result, or what another run left in the file.
LEMMA ReuseInit == Init => ReuseInv
  <1> SUFFICES ASSUME Init  PROVE ReuseInv
    OBVIOUS
  <1>1. MemoCoherent
    <2>1. \A k \in Keys : k \notin seenOk /\ toolCache[k] = NoResult
      BY DEF Init
    <2>2. \A k \in CacheKeys : cache[k] \in Storable(k) \cup {NoResult}
      <3>1. CASE Durable
        BY <3>1, HoldingType DEF Init
      <3>2. CASE ~Durable
        BY <3>2 DEF Init
      <3>3. QED  BY <3>1, <3>2
    <2>3. QED  BY <2>1, <2>2 DEF MemoCoherent
  <1>2. ReuseIsSound
    BY DEF Init, ReuseIsSound, NoAnswer
  <1>3. QED  BY <1>1, <1>2 DEF ReuseInv, Init

\* What a key allows answers any request with that key.
LEMMA StorableFits ==
    ASSUME NEW r \in Requests, NEW v \in Storable(CacheKey(r))
    PROVE  /\ v \in Requests /\ v # NoResult /\ ~v.failed
           /\ v.tool = r.tool /\ v.input = r.input /\ v.scope = r.scope
  BY RunAssumption DEF Storable, CacheKey, Requests

\* A step of caller c that only changes c's locals and answer, with the memo
\* and the cache left alone, keeps ReuseInv if c's own part holds after it.
LEMMA ReuseLocal ==
    ASSUME ReuseInv, TypeOK, NEW c \in Callers,
           NEW label, pc' = [pc EXCEPT ![c] = label],
           NEW f, frame' = [frame EXCEPT ![c] = f],
           NEW a, answer' = [answer EXCEPT ![c] = a],
           UNCHANGED <<seenOk, toolCache, cache>>,
           label = "blocked" => Key(f.req) \in seenOk,
           label \in {"serve", "model_serve"} => f.hit \in Storable(CacheKey(f.req)),
           a.how = "blocked" =>
               a.value \in ToolRequests /\ Key(a.value) = Key(a.req) /\ ~a.value.failed,
           a.how = "served" =>
               /\ a.value \in Requests /\ ~a.value.failed
               /\ a.value.tool = a.req.tool /\ a.value.input = a.req.input
               /\ a.value.scope = a.req.scope
    PROVE  ReuseInv'
  <1>1. MemoCoherent'
    BY DEF ReuseInv, MemoCoherent, Storable
  <1>2. ASSUME NEW d \in Callers
        PROVE  /\ (answer[d].how = "blocked" =>
                      /\ answer[d].value \in ToolRequests
                      /\ Key(answer[d].value) = Key(answer[d].req)
                      /\ ~answer[d].value.failed)'
               /\ (answer[d].how = "served" =>
                      /\ answer[d].value \in Requests /\ ~answer[d].value.failed
                      /\ answer[d].value.tool = answer[d].req.tool
                      /\ answer[d].value.input = answer[d].req.input
                      /\ answer[d].value.scope = answer[d].req.scope)'
               /\ (pc[d] = "blocked" => Key(frame[d].req) \in seenOk)'
               /\ (pc[d] \in {"serve", "model_serve"} =>
                      frame[d].hit \in Storable(CacheKey(frame[d].req)))'
    <2>1. CASE d = c
      BY <2>1 DEF TypeOK
    <2>2. CASE d # c
      <3>1. pc'[d] = pc[d] /\ frame'[d] = frame[d] /\ answer'[d] = answer[d]
        BY <2>2 DEF TypeOK
      <3>2. QED  BY <3>1 DEF ReuseInv, ReuseIsSound
    <2>3. QED  BY <2>1, <2>2
  <1>3. QED  BY <1>1, <1>2 DEF ReuseInv, ReuseIsSound

\* A call that returns an answer that fits keeps ReuseInv.
LEMMA ReuseAnswer ==
    ASSUME ReuseInv, TypeOK, NEW c \in Callers, NEW how, NEW r, NEW v,
           Return(c, how, r, v),
           UNCHANGED <<seenOk, toolCache, cache>>,
           how = "blocked" => v \in ToolRequests /\ Key(v) = Key(r) /\ ~v.failed,
           how = "served" => /\ v \in Requests /\ ~v.failed
                             /\ v.tool = r.tool /\ v.input = r.input
                             /\ v.scope = r.scope
    PROVE  ReuseInv'
  <1> DEFINE a == Answer(how, r, v)
  <1>1. /\ pc' = [pc EXCEPT ![c] = "idle"]
        /\ frame' = [frame EXCEPT ![c] = NoFrame]
        /\ answer' = [answer EXCEPT ![c] = a]
    BY DEF Return, Goto
  <1>2. a.how = how /\ a.req = r /\ a.value = v
    BY DEF Answer
  <1>3. "idle" \notin {"blocked", "serve", "model_serve"}
    OBVIOUS
  <1> HIDE DEF a
  <1>4. QED  BY <1>1, <1>2, <1>3, ReuseLocal

\* The answer of a call that ran, raised or has just begun.
LEMMA PlainAnswers ==
    ASSUME NEW how \in {"ran", "raised", "broken"}, NEW r, NEW value
    PROVE  /\ Answer(how, r, value).how \notin {"blocked", "served"}
           /\ NoAnswer.how \notin {"blocked", "served"}
  BY DEF Answer, NoAnswer

\* tool() keeps the reuse sound.
LEMMA ReuseToolStep ==
    ASSUME TypeOK, ReuseInv, NEW c \in Callers, ToolStep(c)
    PROVE  ReuseInv'
  <1> USE RunAssumption
  <1>1. ASSUME NEW r \in ToolRequests, ToolCheck(c, r)  PROVE ReuseInv'
    <2> DEFINE label == IF PriorOk(r) /\ Decide("duplicate_tool_protection") = "block"
                        THEN "blocked" ELSE "lookup"
               f == [req |-> r, dup |-> PriorOk(r) \/ r.marked, hit |-> NoResult,
                     match |-> "none"]
    <2>1. /\ pc' = [pc EXCEPT ![c] = label]
          /\ frame' = [frame EXCEPT ![c] = f]
          /\ answer' = [answer EXCEPT ![c] = NoAnswer]
          /\ UNCHANGED <<seenOk, toolCache, cache>>
      BY <1>1 DEF ToolCheck, Goto
    <2>2. label = "blocked" => Key(f.req) \in seenOk
      BY DEF PriorOk
    <2>3. label \notin {"serve", "model_serve"}
      OBVIOUS
    <2> HIDE DEF label, f
    <2>4. QED  BY <2>1, <2>2, <2>3, PlainAnswers, ReuseLocal
  <1>2. CASE ToolBlocked(c)
    <2> DEFINE r == frame[c].req
               v == toolCache[Key(r)]
    <2>1. r \in Requests /\ Keyed(r) /\ Key(r) \in seenOk
      BY <1>2, ToolFrame DEF ToolBlocked, TypeOK, FrameOK, ReuseInv
    <2>2. Key(r) \in Keys
      BY <2>1, RequestType
    <2>3. v \in ToolRequests /\ Key(v) = Key(r) /\ ~v.failed
      BY <2>1, <2>2 DEF ReuseInv, MemoCoherent
    <2>4. Return(c, "blocked", r, v) /\ UNCHANGED <<seenOk, toolCache, cache>>
      BY <1>2 DEF ToolBlocked
    <2> HIDE DEF r, v
    <2>5. QED  BY <2>3, <2>4, ReuseAnswer
  <1>3. CASE ToolLookup(c)
    <2> DEFINE r == frame[c].req
               looked == Optimize # "off" /\ ~r.failed
               found == IF looked /\ r.cacheable THEN cache[CacheKey(r)] ELSE NoResult
               label == IF Optimize = "active" /\ Approved /\ found # NoResult
                        THEN "serve" ELSE "execute"
               f == [frame[c] EXCEPT !.hit = found,
                                     !.match = IF looked THEN Match(r) ELSE "none"]
    <2>1. frame[c] \in CallFrame /\ r \in Requests /\ CacheKey(r) \in CacheKeys
      BY <1>3, ToolFrame, RequestType DEF ToolLookup
    <2>2. /\ pc' = [pc EXCEPT ![c] = label]
          /\ frame' = [frame EXCEPT ![c] = f]
          /\ answer' = [answer EXCEPT ![c] = answer[c]]
          /\ UNCHANGED <<seenOk, toolCache, cache>>
      BY <1>3 DEF ToolLookup, Goto, TypeOK
    <2>3. f.req = r /\ f.hit = found
      BY <2>1 DEF CallFrame
    <2>4. label = "serve" => f.hit \in Storable(CacheKey(f.req))
      BY <2>1, <2>3 DEF ReuseInv, MemoCoherent
    <2>5. label \notin {"blocked", "model_serve"}
      OBVIOUS
    <2> HIDE DEF label, f
    <2>6. QED  BY <2>2, <2>4, <2>5, ReuseLocal DEF ReuseInv, ReuseIsSound
  <1>4. CASE ToolServe(c)
    <2> DEFINE r == frame[c].req
               v == frame[c].hit
    <2>1. r \in Requests /\ v \in Storable(CacheKey(r))
      BY <1>4, ToolFrame DEF ToolServe, ReuseInv
    <2>2. /\ v \in Requests /\ ~v.failed
          /\ v.tool = r.tool /\ v.input = r.input /\ v.scope = r.scope
      BY <2>1, StorableFits
    <2>3. Return(c, "served", r, v) /\ UNCHANGED <<seenOk, toolCache, cache>>
      BY <1>4 DEF ToolServe
    <2> HIDE DEF r, v
    <2>4. QED  BY <2>2, <2>3, ReuseAnswer
  <1>5. CASE ToolRaise(c) \/ ToolGetRaises(c) \/ ToolPutRaises(c)
    <2>1. /\ \E how \in {"raised", "broken"} : Return(c, how, frame[c].req, NoResult)
          /\ UNCHANGED <<seenOk, toolCache, cache>>
      BY <1>5 DEF ToolRaise, ToolGetRaises, ToolPutRaises
    <2>2. QED  BY <2>1, ReuseAnswer
  <1>6. CASE ToolReturn(c)
    <2> DEFINE r == frame[c].req
    <2>1. r \in Requests /\ CacheKey(r) \in CacheKeys
      BY <1>6, ToolFrame, RequestType DEF ToolReturn
    <2>2. \A k \in CacheKeys : cache'[k] \in Storable(k) \cup {NoResult}
      <3>1. Stores(c) => r \in Storable(CacheKey(r))
        BY <2>1 DEF Stores, Storable
      <3>2. QED  BY <1>6, <2>1, <3>1 DEF ToolReturn, ReuseInv, MemoCoherent, TypeOK
    <2>3. MemoCoherent'
      BY <1>6, <2>2 DEF ToolReturn, ReuseInv, MemoCoherent, Storable
    <2>4. /\ pc' = [pc EXCEPT ![c] = "record"]
          /\ UNCHANGED <<frame, seenOk, answer>>
      BY <1>6 DEF ToolReturn, Goto
    <2>5. \A d \in Callers : pc'[d] \in {"blocked", "serve", "model_serve"} =>
                                 pc'[d] = pc[d]
      BY <2>4 DEF TypeOK
    <2>6. QED  BY <2>3, <2>4, <2>5 DEF ReuseInv, ReuseIsSound, Storable
  <1>7. CASE ToolRecord(c)
    <2> DEFINE r == frame[c].req
    <2>1. r \in ToolRequests /\ r # NoResult /\ (Keyed(r) => Key(r) \in Keys)
      BY <1>7, ToolFrame, RequestType DEF ToolRecord
    <2>2. ASSUME NEW k \in Keys
          PROVE  /\ k \in seenOk' <=> toolCache'[k] # NoResult
                 /\ k \in seenOk' => /\ toolCache'[k] \in ToolRequests
                                     /\ Key(toolCache'[k]) = k
                                     /\ ~toolCache'[k].failed
      BY <1>7, <2>1 DEF ToolRecord, Remembers, ReuseInv, MemoCoherent, TypeOK
    <2>3. MemoCoherent'
      BY <1>7, <2>2 DEF ToolRecord, ReuseInv, MemoCoherent, Storable
    <2>4. /\ pc' = [pc EXCEPT ![c] = "guard"] /\ seenOk \subseteq seenOk'
          /\ UNCHANGED <<frame, answer>>
      BY <1>7 DEF ToolRecord, Goto
    <2>5. \A d \in Callers : pc'[d] \in {"blocked", "serve", "model_serve"} =>
                                 pc'[d] = pc[d]
      BY <2>4 DEF TypeOK
    <2>6. QED  BY <2>3, <2>4, <2>5 DEF ReuseInv, ReuseIsSound, Storable
  <1>8. CASE ToolGuard(c)
    <2> DEFINE r == frame[c].req
               next == Continue(IF CostExceeded THEN Decide("cost_budget")
                                                ELSE "observe", "idle")
               a == IF next = "idle" THEN Answer("ran", r, r)
                                     ELSE Answer("raised", r, NoResult)
    <2>1. /\ pc' = [pc EXCEPT ![c] = next]
          /\ frame' = [frame EXCEPT ![c] = NoFrame]
          /\ answer' = [answer EXCEPT ![c] = a]
          /\ UNCHANGED <<seenOk, toolCache, cache>>
      BY <1>8 DEF ToolGuard, Goto
    <2>2. next \notin {"blocked", "serve", "model_serve"}
      BY DEF Continue
    <2>3. a.how \notin {"blocked", "served"}
      BY PlainAnswers
    <2> HIDE DEF next, a
    <2>4. QED  BY <2>1, <2>2, <2>3, ReuseLocal
  <1>9. QED
    BY <1>1, <1>2, <1>3, <1>4, <1>5, <1>6, <1>7, <1>8 DEF ToolStep

\* model() keeps the reuse sound.
LEMMA ReuseModelStep ==
    ASSUME TypeOK, ReuseInv, NEW c \in Callers, ModelStep(c)
    PROVE  ReuseInv'
  <1> USE RunAssumption
  <1>1. ASSUME NEW r \in ModelRequests, ModelLookup(c, r)  PROVE ReuseInv'
    <2> DEFINE match == IF Optimize # "off" THEN Match(r) ELSE "none"
               found == IF match # "none" THEN cache[CacheKey(r)] ELSE NoResult
               label == IF /\ Optimize = "active" /\ Approved /\ r.cacheable
                           /\ match = "exact" /\ found # NoResult
                        THEN "model_serve" ELSE "model_execute"
               f == [req |-> r, dup |-> FALSE, hit |-> found, match |-> match]
    <2>1. r \in Requests /\ CacheKey(r) \in CacheKeys
      BY RequestType DEF Requests
    <2>2. /\ pc' = [pc EXCEPT ![c] = label]
          /\ frame' = [frame EXCEPT ![c] = f]
          /\ answer' = [answer EXCEPT ![c] = NoAnswer]
          /\ UNCHANGED <<seenOk, toolCache, cache>>
      BY <1>1 DEF ModelLookup, Goto
    <2>3. found # NoResult => found \in Storable(CacheKey(r))
      BY <2>1 DEF ReuseInv, MemoCoherent
    <2>4. label = "model_serve" => f.hit \in Storable(CacheKey(f.req))
      BY <2>3
    <2>5. label \notin {"blocked", "serve"}
      OBVIOUS
    <2> HIDE DEF label, f
    <2>6. QED  BY <2>2, <2>4, <2>5, PlainAnswers, ReuseLocal
  <1>2. CASE ModelServe(c)
    <2> DEFINE r == frame[c].req
               v == frame[c].hit
    <2>1. r \in Requests /\ v \in Storable(CacheKey(r))
      BY <1>2, ModelFrame DEF ModelServe, ReuseInv
    <2>2. /\ v \in Requests /\ ~v.failed
          /\ v.tool = r.tool /\ v.input = r.input /\ v.scope = r.scope
      BY <2>1, StorableFits
    <2>3. Return(c, "served", r, v) /\ UNCHANGED <<seenOk, toolCache, cache>>
      BY <1>2 DEF ModelServe
    <2> HIDE DEF r, v
    <2>4. QED  BY <2>2, <2>3, ReuseAnswer
  <1>3. CASE ModelReturn(c)
    <2> DEFINE r == frame[c].req
    <2>1. r \in Requests /\ CacheKey(r) \in CacheKeys
      BY <1>3, ModelFrame, RequestType DEF ModelReturn
    <2>2. \A k \in CacheKeys : cache'[k] \in Storable(k) \cup {NoResult}
      <3>1. Stores(c) => r \in Storable(CacheKey(r))
        BY <2>1 DEF Stores, Storable
      <3>2. QED  BY <1>3, <2>1, <3>1 DEF ModelReturn, ReuseInv, MemoCoherent, TypeOK
    <2>3. MemoCoherent'
      BY <1>3, <2>2 DEF ModelReturn, ReuseInv, MemoCoherent, Storable
    <2>4. /\ pc' = [pc EXCEPT ![c] = "idle"]
          /\ frame' = [frame EXCEPT ![c] = NoFrame]
          /\ answer' = [answer EXCEPT ![c] = Answer("ran", r, r)]
          /\ UNCHANGED seenOk
      BY <1>3 DEF ModelReturn, Return, Goto
    <2>5. ASSUME NEW d \in Callers
          PROVE  /\ answer'[d].how \in {"blocked", "served"} => answer'[d] = answer[d]
                 /\ pc'[d] \in {"blocked", "serve", "model_serve"} =>
                        pc'[d] = pc[d] /\ frame'[d] = frame[d]
      BY <2>4, PlainAnswers DEF TypeOK
    <2>6. ReuseIsSound'
      BY <2>5 DEF ReuseInv, ReuseIsSound
    <2>7. QED  BY <2>3, <2>4, <2>5, <2>6 DEF ReuseInv, Storable
  <1>4. CASE ModelRaise(c) \/ ModelPutRaises(c) \/ \E r \in ModelRequests : ModelGetRaises(c, r)
    <2>1. /\ \E how \in {"raised", "broken"}, r \in Requests : Return(c, how, r, NoResult)
          /\ UNCHANGED <<seenOk, toolCache, cache>>
      BY <1>4, ModelFrame DEF ModelRaise, ModelPutRaises, ModelGetRaises, Requests
    <2>2. QED  BY <2>1, ReuseAnswer
  <1>5. QED  BY <1>1, <1>2, <1>3, <1>4 DEF ModelStep

\* retry(), the run's own steps and the cache's environment keep the reuse sound.
LEMMA ReuseOtherStep ==
    ASSUME TypeOK, ReuseInv,
           \/ \E c \in Callers : RetryStep(c)
           \/ StartRun
           \/ \E status \in {"ok", "error"} : FinishRun(status)
           \/ \E k \in CacheKeys : CacheForget(k)
           \/ \E k \in CacheKeys, r \in Requests : OtherRunStores(k, r)
    PROVE  ReuseInv'
  <1>1. ASSUME NEW c \in Callers, RetryStep(c)  PROVE ReuseInv'
    <2>1. ASSUME NEW t \in Tools, RetryRead(c, t)  PROVE ReuseInv'
      <3> DEFINE f == [tool |-> t, count |-> retries[t]]
      <3>1. /\ pc' = [pc EXCEPT ![c] = "retry_inc"]
            /\ frame' = [frame EXCEPT ![c] = f]
            /\ answer' = [answer EXCEPT ![c] = NoAnswer]
            /\ UNCHANGED <<seenOk, toolCache, cache>>
        BY <2>1 DEF RetryRead, Goto
      <3>2. "retry_inc" \notin {"blocked", "serve", "model_serve"}
        OBVIOUS
      <3> HIDE DEF f
      <3>3. QED  BY <3>1, <3>2, PlainAnswers, ReuseLocal
    <2>2. CASE RetryStore(c)
      <3>1. /\ pc' = [pc EXCEPT ![c] = "retry_guard"] /\ frame' = frame
            /\ UNCHANGED <<seenOk, toolCache, cache, answer>>
        BY <2>2 DEF RetryStore, Goto
      <3>2. \A d \in Callers : pc'[d] \in {"blocked", "serve", "model_serve"} =>
                                   pc'[d] = pc[d]
        BY <3>1 DEF TypeOK
      <3>3. QED
        BY <3>1, <3>2 DEF ReuseInv, MemoCoherent, ReuseIsSound, Storable
    <2>3. CASE RetryGuard(c)
      <3> DEFINE next == Continue(IF RetriesExhausted(frame[c].tool)
                                  THEN Decide("retry_budget") ELSE "observe", "idle")
      <3>1. /\ pc' = [pc EXCEPT ![c] = next]
            /\ frame' = [frame EXCEPT ![c] = NoFrame]
            /\ UNCHANGED <<seenOk, toolCache, cache, answer>>
        BY <2>3 DEF RetryGuard, Goto
      <3>2. next \notin {"blocked", "serve", "model_serve"}
        BY DEF Continue
      <3> HIDE DEF next
      <3>3. \A d \in Callers : pc'[d] \in {"blocked", "serve", "model_serve"} =>
                                   pc'[d] = pc[d] /\ frame'[d] = frame[d]
        BY <3>1, <3>2 DEF TypeOK
      <3>4. QED
        BY <3>1, <3>3 DEF ReuseInv, MemoCoherent, ReuseIsSound, Storable
    <2>4. QED  BY <1>1, <2>1, <2>2, <2>3 DEF RetryStep
  <1>2. CASE StartRun
    BY <1>2 DEF StartRun, ReuseInv, MemoCoherent, ReuseIsSound, Storable
  <1>3. ASSUME NEW status \in {"ok", "error"}, FinishRun(status)  PROVE ReuseInv'
    BY <1>3 DEF FinishRun, ReuseInv, MemoCoherent, ReuseIsSound, Storable
  <1>4. ASSUME NEW k \in CacheKeys, CacheForget(k)  PROVE ReuseInv'
    BY <1>4 DEF CacheForget, TypeOK, ReuseInv, MemoCoherent, ReuseIsSound, Storable
  <1>5. ASSUME NEW k \in CacheKeys, NEW r \in Requests, OtherRunStores(k, r)
        PROVE ReuseInv'
    BY <1>5 DEF OtherRunStores, TypeOK, ReuseInv, MemoCoherent, ReuseIsSound, Storable
  <1>6. QED  BY <1>1, <1>2, <1>3, <1>4, <1>5

\* ReuseInv is an invariant of the runs.
LEMMA ReuseInvariant == Spec => [](TypeOK /\ ReuseInv)
  <1>1. Init => TypeOK /\ ReuseInv
    BY InitType, ReuseInit
  <1>2. TypeOK /\ ReuseInv /\ [Next]_vars => (TypeOK /\ ReuseInv)'
    <2> SUFFICES ASSUME TypeOK, ReuseInv, [Next]_vars  PROVE ReuseInv'
      BY TypeStep
    <2>1. CASE Next
      BY <2>1, ReuseToolStep, ReuseModelStep, ReuseOtherStep DEF Next
    <2>2. CASE UNCHANGED vars
      BY <2>2 DEF vars, ReuseInv, MemoCoherent, ReuseIsSound, Storable
    <2>3. QED  BY <2>1, <2>2
  <1>3. QED  BY <1>1, <1>2, PTL DEF Spec

\* Whatever the callers interleave and other runs store, _seen_tool_status and
\* _tool_cache describe the same successes, and the optimization cache holds
\* only what its keys allow.
THEOREM MemoStaysCoherent == Spec => []MemoCoherent
  <1>1. TypeOK /\ ReuseInv => MemoCoherent
    BY DEF ReuseInv
  <1>2. QED  BY <1>1, ReuseInvariant, PTL

\* A call that tool() or model() answers without running gets the result of a
\* successful execution of the same call, in every interleaving.
THEOREM ReuseSound == Spec => []ReuseIsSound
  <1>1. TypeOK /\ ReuseInv => ReuseIsSound
    BY DEF ReuseInv
  <1>2. QED  BY <1>1, ReuseInvariant, PTL

-----------------------------------------------------------------------------
(* What is repeated is bounded.                                            *)

\* The successes recorded for a key and the calls still in flight for it never
\* outnumber the callers: those calls all passed the check before the first
\* success, one per caller, and no call passes it afterwards.
Reserved ==
    \A k \in Keys :
        /\ k \notin seenOk => completions[k] = 0
        /\ completions[k] + Cardinality(InFlight(k)) <= Cardinality(Callers)

\* Any set of callers is finite and no larger than Callers.
LEMMA CallerSets ==
    ASSUME NEW S \in SUBSET Callers
    PROVE  /\ IsFiniteSet(S)
           /\ Cardinality(S) \in Nat
           /\ Cardinality(Callers) \in Nat
           /\ Cardinality(S) <= Cardinality(Callers)
           /\ \A T \in SUBSET S : Cardinality(T) <= Cardinality(S)
  BY RunAssumption, FS_Subset, FS_CardinalityType

\* The calls in flight are calls of callers.
LEMMA InFlightCallers ==
    ASSUME NEW k
    PROVE  InFlight(k) \subseteq Callers /\ InFlight(k)' \subseteq Callers
  BY DEF InFlight

\* A step that records no success keeps Reserved if no call for a remembered
\* key enters.
LEMMA ReservedQuiet ==
    ASSUME TypeOK, Reserved,
           UNCHANGED <<seenOk, completions>>,
           \A k \in seenOk : InFlight(k)' \subseteq InFlight(k)
    PROVE  Reserved'
  <1> SUFFICES ASSUME NEW k \in Keys
               PROVE  /\ k \notin seenOk => completions[k] = 0
                      /\ completions[k] + Cardinality(InFlight(k)')
                             <= Cardinality(Callers)
    BY DEF Reserved
  <1>1. k \notin seenOk => completions[k] = 0
    BY DEF Reserved
  <1>2. completions[k] \in Nat
    BY DEF TypeOK
  <1>3. CASE k \notin seenOk
    <2>1. /\ Cardinality(InFlight(k)') \in Nat
          /\ Cardinality(InFlight(k)') <= Cardinality(Callers)
      BY InFlightCallers, CallerSets
    <2>2. QED  BY <1>1, <1>3, <2>1
  <1>4. CASE k \in seenOk
    <2>1. /\ Cardinality(InFlight(k)') \in Nat /\ Cardinality(InFlight(k)) \in Nat
          /\ Cardinality(InFlight(k)') <= Cardinality(InFlight(k))
          /\ Cardinality(Callers) \in Nat
      BY <1>4, InFlightCallers, CallerSets
    <2>2. completions[k] + Cardinality(InFlight(k)) <= Cardinality(Callers)
      BY DEF Reserved
    <2>3. QED  BY <1>1, <1>2, <2>1, <2>2
  <1>5. QED  BY <1>3, <1>4

\* A step of model() or retry() moves one caller between points that tool()
\* does not have, and leaves alone what tool() records.
LEMMA OtherCalls ==
    ASSUME TypeOK, NEW c \in Callers, ModelStep(c) \/ RetryStep(c)
    PROVE  /\ pc[c] \in {"idle", "model_serve", "model_execute", "retry_inc",
                         "retry_guard", "stopped", "paused"}
           /\ pc'[c] \in {"idle", "model_serve", "model_execute", "retry_inc",
                          "retry_guard", "stopped", "paused"}
           /\ \A d \in Callers \ {c} : pc'[d] = pc[d] /\ frame'[d] = frame[d]
           /\ pc' = [pc EXCEPT ![c] = pc'[c]]
           /\ frame' = [frame EXCEPT ![c] = frame'[c]]
           /\ answer' = [answer EXCEPT ![c] = answer'[c]]
           /\ UNCHANGED <<seenOk, toolCache, completions, cost>>
  <1>1. UNCHANGED <<seenOk, toolCache, completions, cost>>
    <2>1. CASE ModelStep(c)
      BY <2>1 DEF ModelStep, ModelLookup, ModelServe, ModelReturn, ModelRaise,
                  ModelGetRaises, ModelPutRaises
    <2>2. CASE RetryStep(c)
      BY <2>2 DEF RetryStep, RetryRead, RetryStore, RetryGuard
    <2>3. QED  BY <2>1, <2>2
  <1>2. \E l \in {"idle", "model_serve", "model_execute", "retry_inc", "retry_guard",
                  "stopped", "paused"} : Goto(c, l)
    <2>1. CASE ModelStep(c)
      BY <2>1 DEF ModelStep, ModelLookup, ModelServe, ModelReturn, ModelRaise,
                  ModelGetRaises, ModelPutRaises, Return
    <2>2. CASE RetryStep(c)
      BY <2>2 DEF RetryStep, RetryRead, RetryStore, RetryGuard, Continue
    <2>3. QED  BY <2>1, <2>2
  <1>3. pc[c] \in {"idle", "model_serve", "model_execute", "retry_inc", "retry_guard",
                  "stopped", "paused"}
    <2>1. CASE ModelStep(c)
      BY <2>1 DEF ModelStep, ModelLookup, ModelServe, ModelReturn, ModelRaise,
                  ModelGetRaises, ModelPutRaises, Begin, Interrupted
    <2>2. CASE RetryStep(c)
      BY <2>2 DEF RetryStep, RetryRead, RetryStore, RetryGuard, Begin, Interrupted
    <2>3. QED  BY <2>1, <2>2
  <1>4. \E f : frame' = [frame EXCEPT ![c] = f]
    <2>1. CASE ModelStep(c)
      <3>1. ModelReturn(c) \/ ModelRaise(c) \/ ModelPutRaises(c) \/ ModelServe(c) =>
                frame' = [frame EXCEPT ![c] = NoFrame]
        BY DEF ModelReturn, ModelRaise, ModelPutRaises, ModelServe, Return
      <3>2. (\E r \in ModelRequests : ModelLookup(c, r) \/ ModelGetRaises(c, r)) =>
                \E f : frame' = [frame EXCEPT ![c] = f]
        BY DEF ModelLookup, ModelGetRaises, Return
      <3>3. QED  BY <2>1, <3>1, <3>2 DEF ModelStep
    <2>2. CASE RetryStep(c)
      <3>1. RetryStore(c) => frame' = [frame EXCEPT ![c] = frame[c]]
        BY DEF RetryStore, TypeOK
      <3>2. QED  BY <2>2, <3>1 DEF RetryStep, RetryRead, RetryGuard
    <2>3. QED  BY <2>1, <2>2
  <1>5. \E a : answer' = [answer EXCEPT ![c] = a]
    <2>1. CASE ModelStep(c)
      BY <2>1 DEF ModelStep, ModelLookup, ModelServe, ModelReturn, ModelRaise,
                  ModelGetRaises, ModelPutRaises, Return
    <2>2. CASE RetryStep(c)
      <3>1. RetryStore(c) \/ RetryGuard(c) => answer' = [answer EXCEPT ![c] = answer[c]]
        BY DEF RetryStore, RetryGuard, TypeOK
      <3>2. QED  BY <2>2, <3>1 DEF RetryStep, RetryRead
    <2>3. QED  BY <2>1, <2>2
  <1>6. pc \in [Callers -> Labels] /\ DOMAIN frame = Callers /\ DOMAIN answer = Callers
    BY DEF TypeOK
  <1>7. \A l : Goto(c, l) =>
            pc'[c] = l /\ pc' = [pc EXCEPT ![c] = l] /\ \A d \in Callers \ {c} : pc'[d] = pc[d]
    BY <1>6 DEF Goto
  <1>8. /\ frame' = [frame EXCEPT ![c] = frame'[c]]
        /\ \A d \in Callers \ {c} : frame'[d] = frame[d]
    BY <1>4, <1>6
  <1>9. answer' = [answer EXCEPT ![c] = answer'[c]]
    BY <1>5, <1>6
  <1>10. QED  BY <1>1, <1>2, <1>3, <1>7, <1>8, <1>9

\* A step of one caller moves only that caller.
LEMMA OneCaller ==
    ASSUME TypeOK, NEW c \in Callers, NEW label, NEW f,
           pc' = [pc EXCEPT ![c] = label],
           frame' = [frame EXCEPT ![c] = f]
    PROVE  /\ pc'[c] = label /\ frame'[c] = f
           /\ \A d \in Callers \ {c} : pc'[d] = pc[d] /\ frame'[d] = frame[d]
  BY DEF TypeOK

\* With deduplication enforced, tool() keeps the reservation.
LEMMA ReservedToolStep ==
    ASSUME TypeOK, Reserved, DedupOn, NEW c \in Callers, ToolStep(c)
    PROVE  Reserved'
  <1>1. ASSUME NEW r \in ToolRequests, ToolCheck(c, r)  PROVE Reserved'
    <2> DEFINE label == IF PriorOk(r) /\ Decide("duplicate_tool_protection") = "block"
                        THEN "blocked" ELSE "lookup"
               f == [req |-> r, dup |-> PriorOk(r) \/ r.marked, hit |-> NoResult,
                     match |-> "none"]
    <2>1. /\ pc' = [pc EXCEPT ![c] = label]
          /\ frame' = [frame EXCEPT ![c] = f]
          /\ UNCHANGED <<seenOk, completions>>
      BY <1>1 DEF ToolCheck, Goto
    <2>2. f.req = r
      OBVIOUS
    <2>3. label = "lookup" /\ Keyed(r) => Key(r) \notin seenOk
      BY DEF PriorOk, DedupOn
    <2>4. label \notin {"serve", "execute", "record"}
      OBVIOUS
    <2> HIDE DEF label, f
    <2>5. ASSUME NEW k \in seenOk, NEW d \in InFlight(k)'  PROVE d \in InFlight(k)
      <3>1. /\ pc'[c] = label /\ frame'[c] = f
            /\ \A e \in Callers \ {c} : pc'[e] = pc[e] /\ frame'[e] = frame[e]
        BY <2>1, OneCaller
      <3>2. d # c
        BY <2>2, <2>3, <2>4, <3>1 DEF InFlight
      <3>3. QED  BY <3>1, <3>2 DEF InFlight
    <2>6. QED  BY <2>1, <2>5, ReservedQuiet
  <1>2. CASE ToolBlocked(c) \/ ToolServe(c) \/ ToolRaise(c) \/ ToolGetRaises(c)
             \/ ToolPutRaises(c)
    <2>1. /\ pc' = [pc EXCEPT ![c] = "idle"]
          /\ frame' = [frame EXCEPT ![c] = NoFrame]
          /\ UNCHANGED <<seenOk, completions>>
      BY <1>2 DEF ToolBlocked, ToolServe, ToolRaise, ToolGetRaises, ToolPutRaises,
                  Return, Goto
    <2> DEFINE label == "idle"
    <2>2. pc' = [pc EXCEPT ![c] = label] /\ label = "idle"
      BY <2>1
    <2> HIDE DEF label
    <2>3. pc'[c] = label /\ \A d \in Callers \ {c} : pc'[d] = pc[d] /\ frame'[d] = frame[d]
      BY <2>1, <2>2, OneCaller
    <2>4. \A k \in seenOk : InFlight(k)' \subseteq InFlight(k)
      BY <2>2, <2>3 DEF InFlight
    <2>5. QED  BY <2>1, <2>4, ReservedQuiet
  <1>3. CASE ToolLookup(c)
    <2> DEFINE label == pc'[c]
               f == frame'[c]
    <2>1. pc[c] = "lookup" /\ frame[c] \in CallFrame
      BY <1>3, ToolFrame DEF ToolLookup
    <2>2. /\ pc' = [pc EXCEPT ![c] = label]
          /\ frame' = [frame EXCEPT ![c] = f]
          /\ f.req = frame[c].req
          /\ UNCHANGED <<seenOk, completions>>
      BY <1>3, <2>1 DEF ToolLookup, Goto, TypeOK, CallFrame
    <2>3. \A k : Keyed(f.req) /\ Key(f.req) = k => c \in InFlight(k)
      BY <2>1, <2>2 DEF InFlight
    <2> HIDE DEF label, f
    <2>4. \A k \in seenOk : InFlight(k)' \subseteq InFlight(k)
      BY <2>2, <2>3, OneCaller DEF InFlight
    <2>5. QED  BY <2>2, <2>4, ReservedQuiet
  <1>4. CASE ToolReturn(c)
    <2>1. /\ pc[c] = "execute" /\ pc' = [pc EXCEPT ![c] = "record"]
          /\ UNCHANGED <<frame, seenOk, completions>>
      BY <1>4 DEF ToolReturn, Goto
    <2>2. \A d \in Callers \ {c} : pc'[d] = pc[d]
      BY <2>1 DEF TypeOK
    <2>3. \A k \in seenOk : InFlight(k)' \subseteq InFlight(k)
      BY <2>1, <2>2 DEF InFlight
    <2>4. QED  BY <2>1, <2>3, ReservedQuiet
  <1>5. CASE ToolRecord(c)
    <2> DEFINE r == frame[c].req
    <2>1. /\ r \in Requests /\ pc[c] = "record"
          /\ Remembers(r) => Keyed(r) /\ Key(r) \in Keys
      BY <1>5, ToolFrame, RequestType DEF ToolRecord, Remembers
    <2>2. pc' = [pc EXCEPT ![c] = "guard"] /\ frame' = [frame EXCEPT ![c] = frame[c]]
      BY <1>5 DEF ToolRecord, Goto, TypeOK
    <2>3. ASSUME NEW k  PROVE InFlight(k)' = InFlight(k) \ {c}
      <3>1. /\ pc'[c] = "guard"
            /\ \A d \in Callers \ {c} : pc'[d] = pc[d] /\ frame'[d] = frame[d]
        BY <2>2, OneCaller
      <3>2. QED  BY <3>1 DEF InFlight
    <2>4. CASE ~Remembers(r)
      <3>1. UNCHANGED <<seenOk, completions>>
        BY <1>5, <2>4 DEF ToolRecord
      <3>2. QED  BY <2>3, <3>1, ReservedQuiet
    <2>5. CASE Remembers(r)
      <3>1. /\ seenOk' = seenOk \cup {Key(r)}
            /\ completions' = [completions EXCEPT ![Key(r)] = @ + 1]
        BY <1>5, <2>5 DEF ToolRecord
      <3>2. c \in InFlight(Key(r))
        BY <2>1, <2>5 DEF InFlight
      <3>3. SUFFICES ASSUME NEW k \in Keys
                     PROVE  /\ k \notin seenOk' => completions'[k] = 0
                            /\ completions'[k] + Cardinality(InFlight(k)')
                                   <= Cardinality(Callers)
        BY DEF Reserved
      <3>4. /\ IsFiniteSet(InFlight(k)) /\ Cardinality(InFlight(k)) \in Nat
            /\ Cardinality(InFlight(k)') \in Nat
            /\ Cardinality(InFlight(k)') <= Cardinality(InFlight(k))
            /\ Cardinality(Callers) \in Nat
        BY <2>3, InFlightCallers, CallerSets
      <3>5. /\ completions[k] \in Nat
            /\ k \notin seenOk => completions[k] = 0
            /\ completions[k] + Cardinality(InFlight(k)) <= Cardinality(Callers)
        BY DEF Reserved, TypeOK
      <3>6. CASE k = Key(r)
        <4>1. Cardinality(InFlight(k)') = Cardinality(InFlight(k)) - 1
          BY <2>3, <3>2, <3>4, <3>6, FS_RemoveElement
        <4>2. completions'[k] = completions[k] + 1 /\ k \in seenOk'
          BY <3>1, <3>6 DEF TypeOK
        <4>3. QED  BY <3>4, <3>5, <4>1, <4>2
      <3>7. CASE k # Key(r)
        <4>1. completions'[k] = completions[k] /\ (k \notin seenOk' => k \notin seenOk)
          BY <3>1, <3>7 DEF TypeOK
        <4>2. QED  BY <3>4, <3>5, <4>1
      <3>8. QED  BY <3>6, <3>7
    <2>6. QED  BY <2>4, <2>5
  <1>6. CASE ToolGuard(c)
    <2> DEFINE next == Continue(IF CostExceeded THEN Decide("cost_budget")
                                                ELSE "observe", "idle")
    <2>1. /\ pc' = [pc EXCEPT ![c] = next]
          /\ frame' = [frame EXCEPT ![c] = NoFrame]
          /\ UNCHANGED <<seenOk, completions>>
      BY <1>6 DEF ToolGuard, Goto
    <2>2. next \notin {"lookup", "serve", "execute", "record"}
      BY DEF Continue
    <2> HIDE DEF next
    <2>3. \A k \in seenOk : InFlight(k)' \subseteq InFlight(k)
      BY <2>1, <2>2, OneCaller DEF InFlight
    <2>4. QED  BY <2>1, <2>3, ReservedQuiet
  <1>7. QED  BY <1>1, <1>2, <1>3, <1>4, <1>5, <1>6 DEF ToolStep

\* No other step lets a tool call in or records one.
LEMMA ReservedOtherStep ==
    ASSUME TypeOK, Reserved,
           \/ \E c \in Callers : ModelStep(c) \/ RetryStep(c)
           \/ StartRun
           \/ \E status \in {"ok", "error"} : FinishRun(status)
           \/ \E k \in CacheKeys : CacheForget(k)
           \/ \E k \in CacheKeys, r \in Requests : OtherRunStores(k, r)
           \/ UNCHANGED vars
    PROVE  Reserved'
  <1>1. ASSUME NEW c \in Callers, ModelStep(c) \/ RetryStep(c)  PROVE Reserved'
    <2> DEFINE label == pc'[c]
               f == frame'[c]
    <2>1. UNCHANGED <<seenOk, completions>>
      BY <1>1, OtherCalls
    <2>2. /\ pc' = [pc EXCEPT ![c] = label] /\ frame' = [frame EXCEPT ![c] = f]
          /\ label \notin {"lookup", "serve", "execute", "record"}
      BY <1>1, OtherCalls
    <2> HIDE DEF label, f
    <2>3. \A k \in seenOk : InFlight(k)' \subseteq InFlight(k)
      BY <2>2, OneCaller DEF InFlight
    <2>4. QED  BY <2>1, <2>3, ReservedQuiet
  <1>2. ASSUME UNCHANGED <<pc, frame, seenOk, completions>>  PROVE Reserved'
    BY <1>2, ReservedQuiet DEF InFlight
  <1>3. QED
    BY <1>1, <1>2 DEF StartRun, FinishRun, CacheForget, OtherRunStores, vars

\* With deduplication enforced, a call succeeds at most once per caller,
\* however the callers of tool() race; with one caller, at most once.
THEOREM ReexecutionBounded == Spec => []BoundedReexecution
  <1>1. Init => TypeOK /\ (DedupOn => Reserved)
    <2>1. Init => Reserved
      <3> SUFFICES ASSUME Init, NEW k \in Keys
                   PROVE  completions[k] + Cardinality(InFlight(k))
                              <= Cardinality(Callers) /\ completions[k] = 0
        BY DEF Reserved
      <3>1. completions[k] = 0
        BY DEF Init
      <3>2. /\ Cardinality(InFlight(k)) \in Nat
            /\ Cardinality(InFlight(k)) <= Cardinality(Callers)
        BY InFlightCallers, CallerSets
      <3>3. QED  BY <3>1, <3>2
    <2>2. QED  BY <2>1, InitType
  <1>2. /\ TypeOK /\ (DedupOn => Reserved) /\ [Next]_vars
        => (TypeOK /\ (DedupOn => Reserved))'
    <2>1. DedupOn' = DedupOn
      BY DEF DedupOn, Decide
    <2>2. TypeOK /\ DedupOn /\ Reserved /\ [Next]_vars => Reserved'
      BY ReservedToolStep, ReservedOtherStep DEF Next
    <2>3. QED  BY <2>1, <2>2, TypeStep
  <1>3. TypeOK /\ (DedupOn => Reserved) => BoundedReexecution
    <2> SUFFICES ASSUME TypeOK, Reserved, NEW k \in Keys
                 PROVE  completions[k] <= Cardinality(Callers)
      BY DEF BoundedReexecution
    <2>1. /\ Cardinality(InFlight(k)) \in Nat /\ Cardinality(Callers) \in Nat
          /\ completions[k] \in Nat
      BY InFlightCallers, CallerSets DEF TypeOK
    <2>2. QED  BY <2>1 DEF Reserved
  <1>4. QED  BY <1>1, <1>2, <1>3, PTL DEF Spec

-----------------------------------------------------------------------------
(* Deduplication as the contract has it.                                   *)

\* A caller inside a call was not answered from the memo: its last answer was
\* cleared when the call began (ToolCheck, ModelLookup and RetryRead).
Cleared == \A c \in Callers : pc[c] # "idle" => answer[c].how # "blocked"

\* A caller that keeps or clears its answer, or that returns, stays cleared.
LEMMA ClearedLocal ==
    ASSUME TypeOK, Cleared, NEW c \in Callers, NEW label,
           pc' = [pc EXCEPT ![c] = label],
           \/ answer' = answer /\ pc[c] # "idle"
           \/ \E a : answer' = [answer EXCEPT ![c] = a]
                     /\ (a.how # "blocked" \/ label = "idle")
    PROVE  Cleared'
  <1>1. \A d \in Callers \ {c} : pc'[d] = pc[d] /\ answer'[d] = answer[d]
    BY DEF TypeOK
  <1>2. pc'[c] # "idle" => answer'[c].how # "blocked"
    BY DEF TypeOK, Cleared
  <1>3. QED  BY <1>1, <1>2 DEF Cleared

\* Every step keeps the callers inside a call cleared.
LEMMA ClearedStep ==
    ASSUME TypeOK, Cleared, [Next]_vars
    PROVE  Cleared'
  <1>0. NoAnswer.how # "blocked"
    BY DEF NoAnswer
  <1>1. ASSUME NEW c \in Callers, NEW how, NEW r, NEW v, Return(c, how, r, v)
        PROVE  Cleared'
    BY <1>1, ClearedLocal DEF Return, Goto
  <1>2. ASSUME NEW c \in Callers, NEW label,
               pc' = [pc EXCEPT ![c] = label],
               answer' = [answer EXCEPT ![c] = NoAnswer]
        PROVE  Cleared'
    BY <1>0, <1>2, ClearedLocal
  <1>3. ASSUME NEW c \in Callers, NEW label, pc[c] # "idle",
               pc' = [pc EXCEPT ![c] = label], answer' = answer
        PROVE  Cleared'
    BY <1>3, ClearedLocal
  <1>4. ASSUME NEW c \in Callers, ToolGuard(c)  PROVE Cleared'
    <2> DEFINE next == Continue(IF CostExceeded THEN Decide("cost_budget")
                                                ELSE "observe", "idle")
               a == IF next = "idle" THEN Answer("ran", frame[c].req, frame[c].req)
                                     ELSE Answer("raised", frame[c].req, NoResult)
    <2>1. pc' = [pc EXCEPT ![c] = next] /\ answer' = [answer EXCEPT ![c] = a]
      BY <1>4 DEF ToolGuard, Goto
    <2>2. a.how # "blocked"
      BY DEF Answer
    <2> HIDE DEF next, a
    <2>3. QED  BY <2>1, <2>2, ClearedLocal
  <1>5. ASSUME NEW c \in Callers, ToolStep(c)  PROVE Cleared'
    <2>1. ASSUME NEW r \in ToolRequests, ToolCheck(c, r)  PROVE Cleared'
      BY <1>2, <2>1 DEF ToolCheck, Goto
    <2>2. CASE ToolBlocked(c) \/ ToolServe(c) \/ ToolRaise(c) \/ ToolGetRaises(c)
               \/ ToolPutRaises(c)
      BY <1>1, <2>2 DEF ToolBlocked, ToolServe, ToolRaise, ToolGetRaises, ToolPutRaises
    <2>3. CASE ToolLookup(c) \/ ToolReturn(c) \/ ToolRecord(c)
      BY <1>3, <2>3 DEF ToolLookup, ToolReturn, ToolRecord, Goto
    <2>4. QED  BY <1>4, <1>5, <2>1, <2>2, <2>3 DEF ToolStep
  <1>6. ASSUME NEW c \in Callers, ModelStep(c)  PROVE Cleared'
    <2>1. ASSUME NEW r \in ModelRequests, ModelLookup(c, r)  PROVE Cleared'
      BY <1>2, <2>1 DEF ModelLookup, Goto
    <2>2. CASE \/ ModelServe(c) \/ ModelReturn(c) \/ ModelRaise(c) \/ ModelPutRaises(c)
               \/ \E r \in ModelRequests : ModelGetRaises(c, r)
      BY <1>1, <2>2 DEF ModelServe, ModelReturn, ModelRaise, ModelPutRaises, ModelGetRaises
    <2>3. QED  BY <1>6, <2>1, <2>2 DEF ModelStep
  <1>7. ASSUME NEW c \in Callers, RetryStep(c)  PROVE Cleared'
    <2>1. ASSUME NEW t \in Tools, RetryRead(c, t)  PROVE Cleared'
      BY <1>2, <2>1 DEF RetryRead, Goto
    <2>2. CASE RetryStore(c) \/ RetryGuard(c)
      BY <1>3, <2>2 DEF RetryStore, RetryGuard, Goto
    <2>3. QED  BY <1>7, <2>1, <2>2 DEF RetryStep
  <1>8. ASSUME UNCHANGED <<pc, answer>>  PROVE Cleared'
    BY <1>8 DEF Cleared
  <1>9. QED
    BY <1>5, <1>6, <1>7, <1>8
       DEF Next, StartRun, FinishRun, CacheForget, OtherRunStores, vars

-----------------------------------------------------------------------------
(* The refinement mapping, one caller at a time.                           *)

\* A step of c changes the key only c is working on.
LEMMA WorkingOf ==
    ASSUME TypeOK, NEW c \in Callers, NEW label, NEW f,
           pc' = [pc EXCEPT ![c] = label],
           frame' = [frame EXCEPT ![c] = f]
    PROVE  Working' = [Working EXCEPT ![c] =
               IF label \in {"lookup", "execute", "record"} /\ Keyed(f.req) /\ ~f.req.failed
               THEN Key(f.req) ELSE NoResult]
  <1>1. /\ pc'[c] = label /\ frame'[c] = f
        /\ \A d \in Callers \ {c} : pc'[d] = pc[d] /\ frame'[d] = frame[d]
    BY OneCaller
  <1>2. \A d \in Callers \ {c} : Working'[d] = Working[d]
    BY <1>1 DEF Working, Claims
  <1>3. Working'[c] = IF label \in {"lookup", "execute", "record"} /\ Keyed(f.req) /\ ~f.req.failed
                      THEN Key(f.req) ELSE NoResult
    BY <1>1 DEF Working, Claims
  <1>4. DOMAIN Working = Callers /\ DOMAIN Working' = Callers
        /\ Working = [d \in Callers |-> Working[d]]
        /\ Working' = [d \in Callers |-> Working'[d]]
    BY DEF Working
  <1>5. QED  BY <1>2, <1>3, <1>4

\* A step of c changes what only c was given.
LEMMA GivenOf ==
    ASSUME TypeOK, NEW c \in Callers, NEW a,
           answer' = [answer EXCEPT ![c] = a]
    PROVE  Given' = [Given EXCEPT ![c] =
               IF a.how = "blocked" THEN <<Key(a.req), a.value>> ELSE NoResult]
  <1>1. answer'[c] = a /\ \A d \in Callers \ {c} : answer'[d] = answer[d]
    BY DEF TypeOK
  <1>2. \A d \in Callers \ {c} : Given'[d] = Given[d]
    BY <1>1 DEF Given
  <1>3. Given'[c] = IF a.how = "blocked" THEN <<Key(a.req), a.value>> ELSE NoResult
    BY <1>1 DEF Given
  <1>4. DOMAIN Given = Callers /\ DOMAIN Given' = Callers
        /\ Given = [d \in Callers |-> Given[d]]
        /\ Given' = [d \in Callers |-> Given'[d]]
    BY DEF Given
  <1>5. QED  BY <1>2, <1>3, <1>4

\* A caller inside a call was given nothing from the memo.
LEMMA GivenNothing ==
    ASSUME Cleared, NEW c \in Callers, pc[c] # "idle"
    PROVE  Given[c] = NoResult
  BY DEF Given, Cleared

\* The abstract steps of c, on the whole mapping.
LEMMA AbstractSteps ==
    ASSUME NEW c \in Callers
    PROVE  /\ Contract!Clear(c) => Contract!Next
           /\ Contract!Abandon(c) => Contract!Next
           /\ \A k \in Keys : Contract!Begin(c, k) \/ Contract!Reuse(c, k)
                                  => Contract!Next
           /\ \A k \in Keys : \A v \in Results[k] : Contract!Deliver(c, v)
                                  => Contract!Next
  BY DEF Contract!Next

\* A step that leaves the memo alone and takes c out of a call, or keeps it
\* where it is, maps to Clear, Abandon or a stutter.
LEMMA MapsToQuiet ==
    ASSUME NEW c \in Callers, UNCHANGED toolCache,
           Working' = Working \/ Working' = [Working EXCEPT ![c] = NoResult],
           Given' = Given \/ Given' = [Given EXCEPT ![c] = NoResult],
           Working' = Working \/ Given' = Given
    PROVE  [Contract!Next]_(Contract!cvars)
  <1>1. CASE Working' = Working /\ Given' = Given
    BY <1>1 DEF Contract!cvars
  <1>2. CASE Working' = Working /\ Given' = [Given EXCEPT ![c] = NoResult]
    BY <1>2, AbstractSteps DEF Contract!Clear
  <1>3. CASE Working' = [Working EXCEPT ![c] = NoResult] /\ Given' = Given
    BY <1>3, AbstractSteps DEF Contract!Abandon
  <1>4. QED  BY <1>1, <1>2, <1>3

\* A caller that is not looking up or executing is working on no key.
LEMMA WorkingNothing ==
    ASSUME NEW c \in Callers, pc[c] \notin {"lookup", "execute", "record"}
    PROVE  Working[c] = NoResult
  BY DEF Working, Claims

\* Setting an entry to what it was changes nothing.
LEMMA SameEntry ==
    ASSUME NEW c \in Callers
    PROVE  /\ [Working EXCEPT ![c] = Working[c]] = Working
           /\ [Given EXCEPT ![c] = Given[c]] = Given
  BY DEF Working, Given

\* A call of c that begins off the contract, goes on or returns without a
\* result to remember.
LEMMA QuietCall ==
    ASSUME TypeOK, Cleared, NEW c \in Callers, NEW label, NEW f, NEW a,
           pc' = [pc EXCEPT ![c] = label],
           frame' = [frame EXCEPT ![c] = f],
           answer' = [answer EXCEPT ![c] = a],
           a.how # "blocked",
           ~(label \in {"lookup", "execute", "record"} /\ Keyed(f.req) /\ ~f.req.failed),
           UNCHANGED toolCache
    PROVE  [Contract!Next]_(Contract!cvars)
  <1>1. /\ Working' = [Working EXCEPT ![c] = NoResult]
        /\ Given' = [Given EXCEPT ![c] = NoResult]
    BY WorkingOf, GivenOf
  <1>2. CASE pc[c] = "idle"
    <2>1. Working' = Working
      BY <1>1, <1>2, WorkingNothing, SameEntry
    <2>2. QED  BY <1>1, <2>1, MapsToQuiet
  <1>3. CASE pc[c] # "idle"
    <2>1. Given' = Given
      BY <1>1, <1>3, GivenNothing, SameEntry
    <2>2. QED  BY <1>1, <2>1, MapsToQuiet
  <1>4. QED  BY <1>2, <1>3

\* With deduplication enforced, every step of tool() maps to a step of the
\* contract or a stutter.
LEMMA ToolMaps ==
    ASSUME DedupOn, TypeOK, ReuseInv, Cleared, NEW c \in Callers, ToolStep(c)
    PROVE  [Contract!Next]_(Contract!cvars)
  <1> USE RunAssumption
  <1>0. /\ NoAnswer.how # "blocked"
        /\ \A r : /\ Answer("ran", r, r).how # "blocked"
                  /\ Answer("raised", r, NoResult).how # "blocked"
    BY DEF NoAnswer, Answer
  <1>1. ASSUME NEW r \in ToolRequests, ToolCheck(c, r)
        PROVE  [Contract!Next]_(Contract!cvars)
    <2> DEFINE label == IF PriorOk(r) /\ Decide("duplicate_tool_protection") = "block"
                        THEN "blocked" ELSE "lookup"
               f == [req |-> r, dup |-> PriorOk(r) \/ r.marked, hit |-> NoResult,
                     match |-> "none"]
    <2>1. /\ pc[c] \in {"idle", "stopped", "paused"}
          /\ pc' = [pc EXCEPT ![c] = label]
          /\ frame' = [frame EXCEPT ![c] = f]
          /\ answer' = [answer EXCEPT ![c] = NoAnswer]
          /\ UNCHANGED toolCache
      BY <1>1 DEF ToolCheck, Begin, Interrupted, Goto
    <2>2. f.req = r
      OBVIOUS
    <2>3. CASE label = "lookup" /\ Keyed(r) /\ ~r.failed
      <3>1. Key(r) \in Keys
        BY RequestType, <2>3 DEF Requests
      <3>2. Key(r) \notin seenOk
        BY <2>3 DEF PriorOk, DedupOn
      <3>3. toolCache[Key(r)] = NoResult
        BY <3>1, <3>2 DEF ReuseInv, MemoCoherent
      <3> HIDE DEF label, f
      <3>4. /\ Working' = [Working EXCEPT ![c] = Key(r)]
            /\ Given' = [Given EXCEPT ![c] = NoResult]
        BY <1>0, <2>1, <2>2, <2>3, WorkingOf, GivenOf
      <3>5. Working[c] = NoResult
        BY <2>1, WorkingNothing
      <3>6. Contract!Begin(c, Key(r))
        BY <2>1, <3>3, <3>4, <3>5 DEF Contract!Begin
      <3>7. QED  BY <3>1, <3>6, AbstractSteps
    <2>4. CASE ~(label = "lookup" /\ Keyed(r) /\ ~r.failed)
      <3>1. label \notin {"execute", "record"}
        OBVIOUS
      <3> HIDE DEF label, f
      <3>2. QED  BY <1>0, <2>1, <2>2, <2>4, <3>1, QuietCall
    <2>5. QED  BY <2>3, <2>4
  <1>2. CASE ToolBlocked(c)
    <2> DEFINE r == frame[c].req
               v == toolCache[Key(r)]
    <2>1. pc[c] = "blocked" /\ r \in Requests /\ Keyed(r) /\ Key(r) \in seenOk
      BY <1>2, ToolFrame DEF ToolBlocked, TypeOK, FrameOK, ReuseInv
    <2>2. Key(r) \in Keys
      BY <2>1, RequestType
    <2>3. v # NoResult
      BY <2>1, <2>2 DEF ReuseInv, MemoCoherent
    <2>4. /\ pc' = [pc EXCEPT ![c] = "idle"]
          /\ frame' = [frame EXCEPT ![c] = NoFrame]
          /\ answer' = [answer EXCEPT ![c] = Answer("blocked", r, v)]
          /\ UNCHANGED toolCache
      BY <1>2 DEF ToolBlocked, Return, Goto
    <2>5. /\ Answer("blocked", r, v).how = "blocked"
          /\ Answer("blocked", r, v).req = r
          /\ Answer("blocked", r, v).value = v
      BY DEF Answer
    <2>6. Given' = [Given EXCEPT ![c] = <<Key(r), toolCache[Key(r)]>>]
      <3> HIDE DEF r
      <3> QED  BY <2>4, <2>5, GivenOf
    <2>7. Working[c] = NoResult /\ Working' = Working
      <3>1. Working[c] = NoResult
        BY <2>1, WorkingNothing
      <3>2. Working' = [Working EXCEPT ![c] = NoResult]
        BY <2>4, WorkingOf
      <3>3. QED  BY <3>1, <3>2, SameEntry
    <2>8. Contract!Reuse(c, Key(r))
      BY <2>3, <2>4, <2>6, <2>7 DEF Contract!Reuse
    <2>9. QED  BY <2>2, <2>8, AbstractSteps
  <1>3. CASE ToolLookup(c)
    <2> DEFINE label == pc'[c]
               f == frame'[c]
    <2>1. pc[c] = "lookup" /\ frame[c] \in CallFrame
      BY <1>3, ToolFrame DEF ToolLookup
    <2>2. /\ pc' = [pc EXCEPT ![c] = label]
          /\ frame' = [frame EXCEPT ![c] = f]
          /\ answer' = [answer EXCEPT ![c] = answer[c]]
          /\ f.req = frame[c].req
          /\ label \in {"serve", "execute"}
          /\ UNCHANGED <<toolCache, answer>>
      BY <1>3, <2>1 DEF ToolLookup, Goto, TypeOK, CallFrame
    <2>3. answer[c].how # "blocked"
      BY <2>1 DEF Cleared
    <2>4. CASE label = "execute" /\ Claims(c)
      <3>1. Working[c] = Key(f.req) /\ Keyed(f.req) /\ ~f.req.failed
        BY <2>2, <2>4 DEF Working, Claims
      <3> HIDE DEF label, f
      <3>2. Working' = Working
        <4>1. Working' = [Working EXCEPT ![c] = Key(f.req)]
          BY <2>2, <2>4, <3>1, WorkingOf
        <4>2. QED  BY <3>1, <4>1, SameEntry
      <3>3. Given' = Given
        BY <2>2 DEF Given
      <3>4. QED  BY <2>2, <3>2, <3>3, MapsToQuiet
    <2>5. CASE ~(label = "execute" /\ Claims(c))
      <3>1. ~(label \in {"lookup", "execute", "record"} /\ Keyed(f.req) /\ ~f.req.failed)
        BY <2>1, <2>2, <2>5 DEF Claims
      <3> HIDE DEF label, f
      <3>2. QED  BY <2>2, <2>3, <3>1, QuietCall
    <2>6. QED  BY <2>4, <2>5
  <1>4. ASSUME NEW how, how # "blocked", NEW r, NEW v, Return(c, how, r, v),
               UNCHANGED toolCache
        PROVE  [Contract!Next]_(Contract!cvars)
    <2> DEFINE a == Answer(how, r, v)
    <2>1. /\ pc' = [pc EXCEPT ![c] = "idle"]
          /\ frame' = [frame EXCEPT ![c] = NoFrame]
          /\ answer' = [answer EXCEPT ![c] = a]
      BY <1>4 DEF Return, Goto
    <2>2. a.how # "blocked"
      BY <1>4 DEF Answer
    <2> HIDE DEF a
    <2>3. QED  BY <1>4, <2>1, <2>2, QuietCall
  <1>5. CASE ToolServe(c) \/ ToolRaise(c) \/ ToolGetRaises(c) \/ ToolPutRaises(c)
    BY <1>4, <1>5 DEF ToolServe, ToolRaise, ToolGetRaises, ToolPutRaises
  <1>6. CASE ToolReturn(c)
    <2>1. /\ pc[c] = "execute" /\ pc' = [pc EXCEPT ![c] = "record"]
          /\ UNCHANGED <<frame, answer, toolCache>>
      BY <1>6 DEF ToolReturn, Goto
    <2>2. \A d \in Callers : Claims(d)' = Claims(d)
      BY <2>1 DEF Claims, TypeOK
    <2>3. Working' = Working /\ Given' = Given
      BY <2>1, <2>2 DEF Working, Given
    <2>4. QED  BY <2>1, <2>3, MapsToQuiet
  <1>7. CASE ToolRecord(c)
    <2> DEFINE r == frame[c].req
    <2>1. /\ pc[c] = "record" /\ r \in ToolRequests /\ r \in Requests
          /\ Keyed(r) => Key(r) \in Keys
      BY <1>7, ToolFrame, RequestType DEF ToolRecord
    <2>2. /\ pc' = [pc EXCEPT ![c] = "guard"]
          /\ frame' = [frame EXCEPT ![c] = frame[c]]
          /\ answer' = [answer EXCEPT ![c] = answer[c]]
          /\ UNCHANGED answer
      BY <1>7 DEF ToolRecord, Goto, TypeOK
    <2>3. Working' = [Working EXCEPT ![c] = NoResult]
      BY <2>2, WorkingOf
    <2>4. Given' = Given
      BY <2>2 DEF Given
    <2>5. CASE Remembers(r)
      <3>1. toolCache' = [toolCache EXCEPT ![Key(r)] = r]
        BY <1>7, <2>5 DEF ToolRecord
      <3>2. Working[c] = Key(r) /\ Key(r) \in Keys
        BY <2>1, <2>5 DEF Remembers, Working, Claims
      <3>3. Key(r) # NoResult
        BY <3>2 DEF Keys
      <3>4. r \in Results[Key(r)]
        BY <2>1, <2>5, <3>2 DEF Results, Remembers
      <3>5. Contract!Deliver(c, r)
        BY <2>3, <2>4, <3>1, <3>2, <3>3, <3>4 DEF Contract!Deliver
      <3>6. QED  BY <3>2, <3>4, <3>5, AbstractSteps
    <2>6. CASE ~Remembers(r)
      <3>1. UNCHANGED toolCache
        BY <1>7, <2>6 DEF ToolRecord
      <3>2. QED  BY <2>3, <2>4, <3>1, MapsToQuiet
    <2>7. QED  BY <2>5, <2>6
  <1>8. CASE ToolGuard(c)
    <2> DEFINE r == frame[c].req
               next == Continue(IF CostExceeded THEN Decide("cost_budget")
                                                ELSE "observe", "idle")
               a == IF next = "idle" THEN Answer("ran", r, r)
                                     ELSE Answer("raised", r, NoResult)
    <2>1. /\ pc' = [pc EXCEPT ![c] = next]
          /\ frame' = [frame EXCEPT ![c] = NoFrame]
          /\ answer' = [answer EXCEPT ![c] = a]
          /\ UNCHANGED toolCache
      BY <1>8 DEF ToolGuard, Goto
    <2>2. next \notin {"lookup", "execute", "record"}
      BY DEF Continue
    <2>3. a.how # "blocked"
      BY DEF Answer
    <2> HIDE DEF next, a, r
    <2>4. QED  BY <2>1, <2>2, <2>3, QuietCall
  <1>9. QED
    BY <1>1, <1>2, <1>3, <1>5, <1>6, <1>7, <1>8 DEF ToolStep

\* model() and retry() stay outside the contract.
LEMMA OtherCallsMap ==
    ASSUME TypeOK, Cleared, NEW c \in Callers, ModelStep(c) \/ RetryStep(c)
    PROVE  [Contract!Next]_(Contract!cvars)
  <1> DEFINE label == pc'[c]
             f == frame'[c]
             a == answer'[c]
  <1>1. /\ pc' = [pc EXCEPT ![c] = label]
        /\ frame' = [frame EXCEPT ![c] = f]
        /\ answer' = [answer EXCEPT ![c] = a]
        /\ UNCHANGED toolCache
        /\ label \notin {"lookup", "execute", "record"}
    BY OtherCalls
  <1>3. a.how # "blocked"
    <2>1. CASE ModelStep(c)
      <3>1. ASSUME NEW how, how # "blocked", NEW r, NEW v, Return(c, how, r, v)
            PROVE  a.how # "blocked"
        BY <3>1 DEF Return, Answer, TypeOK
      <3>2. ASSUME NEW r \in ModelRequests, ModelLookup(c, r)
            PROVE  a.how # "blocked"
        BY <3>2 DEF ModelLookup, NoAnswer, TypeOK
      <3> HIDE DEF a
      <3>3. QED
        BY <2>1, <3>1, <3>2 DEF ModelStep, ModelServe, ModelReturn, ModelRaise,
                               ModelGetRaises, ModelPutRaises
    <2>2. CASE RetryStep(c)
      <3>1. pc[c] # "idle" => answer[c].how # "blocked"
        BY DEF Cleared
      <3>2. CASE \E t \in Tools : RetryRead(c, t)
        BY <3>2 DEF RetryRead, NoAnswer, TypeOK
      <3>3. CASE RetryStore(c) \/ RetryGuard(c)
        BY <3>1, <3>3 DEF RetryStore, RetryGuard
      <3>4. QED  BY <2>2, <3>2, <3>3 DEF RetryStep
    <2>3. QED  BY <2>1, <2>2
  <1> HIDE DEF label, f, a
  <1>4. QED  BY <1>1, <1>3, QuietCall

\* With deduplication enforced, tool() keeps the contract: a call whose key has
\* a remembered success never starts again, and a call answered without running
\* gets exactly the remembered result.
THEOREM RunImplementsContract ==
    ASSUME DedupOn
    PROVE  Spec => ImplementsReuseContract
  <1>1. Init => TypeOK /\ ReuseInv /\ Cleared /\ Contract!Init
    <2>1. Init => Cleared
      BY DEF Init, Cleared
    <2>2. Init => Contract!Init
      <3> SUFFICES ASSUME Init  PROVE Contract!Init
        OBVIOUS
      <3>1. Working = [c \in Callers |-> NoResult]
        BY DEF Init, Working, Claims
      <3>2. Given = [c \in Callers |-> NoResult]
        BY DEF Init, Given, NoAnswer
      <3>3. QED  BY <3>1, <3>2 DEF Init, Contract!Init
    <2>3. QED  BY <2>1, <2>2, InitType, ReuseInit
  <1>2. TypeOK /\ Cleared /\ [Next]_vars => (TypeOK /\ Cleared)'
    BY TypeStep, ClearedStep
  <1>3. /\ TypeOK /\ ReuseInv /\ Cleared /\ [Next]_vars
        => [Contract!Next]_(Contract!cvars)
    <2> SUFFICES ASSUME TypeOK, ReuseInv, Cleared, [Next]_vars
                 PROVE  [Contract!Next]_(Contract!cvars)
      OBVIOUS
    <2>1. ASSUME NEW c \in Callers, ToolStep(c) \/ ModelStep(c) \/ RetryStep(c)
          PROVE  [Contract!Next]_(Contract!cvars)
      BY <2>1, ToolMaps, OtherCallsMap
    <2>2. ASSUME UNCHANGED <<pc, frame, answer, toolCache>>
          PROVE  [Contract!Next]_(Contract!cvars)
      BY <2>2 DEF Contract!cvars, Working, Claims, Given
    <2>3. QED
      BY <2>1, <2>2 DEF Next, StartRun, FinishRun, CacheForget, OtherRunStores, vars
  <1>4. QED
    BY <1>1, <1>2, <1>3, ReuseInvariant, PTL
       DEF Spec, ImplementsReuseContract, Contract!Spec

-----------------------------------------------------------------------------
(* Observing changes nothing.                                              *)

Observing == ~Enforce /\ Optimize # "active"

Interfering == {"policy.triggered", "intervention.applied", "optimization.applied"}

Calm(log) == \A i \in DOMAIN log : log[i].type \notin Interfering

\* What makes NonInterference inductive: no caller is on a path where a call
\* is answered without running or interrupted.
Undisturbed ==
    /\ \A c \in Callers :
          /\ pc[c] \notin {"blocked", "serve", "model_serve", "stopped", "paused"}
          /\ answer[c].how \in {"none", "ran", "raised", "broken"}
          /\ answer[c].how = "ran" => answer[c].value = answer[c].req
          /\ answer[c].how = "broken" => Durable /\ Optimize = "dry_run"
    /\ Calm(events)

\* Without enforcement the enforcer observes, and the caller carries on.
LEMMA Observes ==
    ASSUME ~Enforce, NEW p, NEW tool, NEW label
    PROVE  /\ Decide(p) = "observe"
           /\ Emitted(p, "observe", tool) = << >>
           /\ Continue("observe", label) = label
  BY DEF Decide, Emitted, Continue

\* A log of harmless events stays quiet when harmless events are added.
LEMMA QuietConcat ==
    ASSUME NEW s \in Seq(Event), NEW t \in Seq(Event), Calm(s), Calm(t)
    PROVE  s \o t \in Seq(Event) /\ Calm(s \o t)
  <1>1. /\ s \o t \in Seq(Event)
        /\ Len(s \o t) = Len(s) + Len(t)
        /\ \A i \in 1 .. Len(s) + Len(t) :
               (s \o t)[i] = IF i <= Len(s) THEN s[i] ELSE t[i - Len(s)]
    BY ConcatProperties
  <1>2. /\ DOMAIN (s \o t) = 1 .. Len(s) + Len(t)
        /\ DOMAIN s = 1 .. Len(s) /\ DOMAIN t = 1 .. Len(t)
        /\ Len(s) \in Nat /\ Len(t) \in Nat
    BY <1>1
  <1>3. ASSUME NEW i \in 1 .. Len(s) + Len(t)
        PROVE  (s \o t)[i].type \notin Interfering
    <2>1. CASE i <= Len(s)
      BY <1>1, <1>2, <2>1 DEF Calm
    <2>2. CASE ~(i <= Len(s))
      <3>1. i - Len(s) \in DOMAIN t /\ (s \o t)[i] = t[i - Len(s)]
        BY <1>1, <1>2, <2>2
      <3>2. QED  BY <3>1 DEF Calm
    <2>3. QED  BY <2>1, <2>2
  <1>4. QED  BY <1>1, <1>2, <1>3 DEF Calm

\* A log of one harmless event is quiet.
LEMMA QuietOne ==
    ASSUME NEW e \in Event, e.type \notin Interfering
    PROVE  << e >> \in Seq(Event) /\ Calm(<< e >>)
  BY DEF Calm

\* A log of two harmless events is quiet.
LEMMA QuietTwo ==
    ASSUME NEW d \in Event, d.type \notin Interfering,
           NEW e \in Event, e.type \notin Interfering
    PROVE  << d, e >> \in Seq(Event) /\ Calm(<< d, e >>)
  BY DEF Calm

\* Appending an event concatenates the log of that event.
LEMMA AppendConcat ==
    ASSUME NEW s \in Seq(Event), NEW e \in Event
    PROVE  Append(s, e) = s \o << e >>
  OBVIOUS

\* The empty log is quiet.
LEMMA QuietNone == << >> \in Seq(Event) /\ Calm(<< >>)
  BY DEF Calm

\* The request and the completion of a tool call are harmless.
LEMMA HarmlessCall ==
    ASSUME NEW type \in {"tool.requested", "tool.completed"},
           NEW r \in Requests, NEW status \in Statuses,
           NEW dup \in BOOLEAN, NEW amount \in Nat
    PROVE  /\ << ToolEvent(type, r, status, dup, amount) >> \in Seq(Event)
           /\ Calm(<< ToolEvent(type, r, status, dup, amount) >>)
  <1>1. ToolEvent(type, r, status, dup, amount) \in Event
    BY RequestType, ToolEventType DEF EventTypes
  <1>2. ToolEvent(type, r, status, dup, amount).type = type
    BY DEF ToolEvent, Plain
  <1>3. QED  BY <1>1, <1>2, QuietOne DEF Interfering

\* A harmless plain event names its own type.
LEMMA HarmlessPlain ==
    ASSUME NEW type \in EventTypes \ Interfering, NEW tool \in Tools \cup {NoTool},
           NEW status \in Statuses
    PROVE  /\ Plain(type, tool, status) \in Event
           /\ Plain(type, tool, status).type = type
           /\ << Plain(type, tool, status) >> \in Seq(Event)
           /\ Calm(<< Plain(type, tool, status) >>)
  <1>1. Plain(type, tool, status) \in Event /\ Plain(type, tool, status).type = type
    BY PlainType DEF Plain
  <1>2. QED  BY <1>1, QuietOne

\* A step of caller c that leaves the other callers alone keeps Undisturbed if
\* c stays on the paths of a call that runs, and begins, runs or raises.
LEMMA UndisturbedLocal ==
    ASSUME TypeOK, Undisturbed, NEW c \in Callers, NEW r,
           NEW label \in {"idle", "lookup", "execute", "record", "guard",
                          "model_execute", "retry_inc", "retry_guard"},
           pc' = [pc EXCEPT ![c] = label],
           \/ answer' = answer
           \/ answer' = [answer EXCEPT ![c] = NoAnswer]
           \/ answer' = [answer EXCEPT ![c] = Answer("ran", r, r)]
           \/ answer' = [answer EXCEPT ![c] = Answer("raised", r, NoResult)]
           \/ /\ answer' = [answer EXCEPT ![c] = Answer("broken", r, NoResult)]
              /\ Durable /\ Optimize = "dry_run",
           Calm(events')
    PROVE  Undisturbed'
  <1>1. \/ answer'[c] = answer[c]
        \/ answer'[c] = NoAnswer
        \/ answer'[c] = Answer("ran", r, r)
        \/ answer'[c] = Answer("raised", r, NoResult)
        \/ answer'[c] = Answer("broken", r, NoResult) /\ Durable /\ Optimize = "dry_run"
    BY DEF TypeOK
  <1>2. /\ answer'[c].how \in {"none", "ran", "raised", "broken"}
        /\ answer'[c].how = "ran" => answer'[c].value = answer'[c].req
        /\ answer'[c].how = "broken" => Durable /\ Optimize = "dry_run"
    BY <1>1 DEF Answer, NoAnswer, Undisturbed
  <1>3. \A d \in Callers \ {c} : pc'[d] = pc[d] /\ answer'[d] = answer[d]
    BY DEF TypeOK
  <1>4. pc'[c] \notin {"blocked", "serve", "model_serve", "stopped", "paused"}
    BY DEF TypeOK
  <1>5. Calm(events)'
    BY DEF Calm
  <1>6. QED  BY <1>2, <1>3, <1>4, <1>5 DEF Undisturbed

\* While observing, no step interferes with a call.
LEMMA UndisturbedStep ==
    ASSUME TypeOK, Undisturbed, Observing, [Next]_vars
    PROVE  Undisturbed'
  <1> USE RunAssumption DEF Observing
  <1>0. events \in Seq(Event) /\ Calm(events)
    BY DEF TypeOK, Undisturbed
  <1>1. ASSUME NEW c \in Callers, ToolStep(c)  PROVE Undisturbed'
    <2>1. ASSUME NEW r \in ToolRequests, ToolCheck(c, r)  PROVE Undisturbed'
      <3>1. Decide("duplicate_tool_protection") = "observe"
        BY Observes
      <3>2. /\ pc' = [pc EXCEPT ![c] = "lookup"] /\ events' = events
            /\ answer' = [answer EXCEPT ![c] = NoAnswer]
        BY <2>1, <3>1 DEF ToolCheck, Goto
      <3>3. QED  BY <1>0, <3>2, UndisturbedLocal
    <2>2. ~ToolBlocked(c) /\ ~ToolServe(c)
      BY DEF ToolBlocked, ToolServe, Undisturbed
    <2>3. CASE ToolLookup(c)
      <3> DEFINE r == frame[c].req
                 new == << ToolEvent("tool.requested", r, "none", frame[c].dup, 0) >>
      <3>1. r \in Requests /\ frame[c].dup \in BOOLEAN
        BY <2>3, ToolFrame DEF ToolLookup
      <3>2. new \in Seq(Event) /\ Calm(new)
        BY <3>1, HarmlessCall DEF Statuses
      <3>3. /\ pc' = [pc EXCEPT ![c] = "execute"]
            /\ answer' = answer
        BY <2>3 DEF ToolLookup, Goto
      <3>4. events' = events \o new
        <4>1. ToolEvent("tool.requested", r, "none", frame[c].dup, 0) \in Event
          BY <3>1, RequestType, ToolEventType DEF Statuses, EventTypes
        <4>2. QED  BY <1>0, <2>3, <4>1, AppendConcat DEF ToolLookup
      <3> HIDE DEF new, r
      <3>5. Calm(events')
        BY <1>0, <3>2, <3>4, QuietConcat
      <3>6. QED  BY <3>3, <3>5, UndisturbedLocal
    <2>4. CASE ToolRaise(c) \/ ToolGetRaises(c) \/ ToolPutRaises(c)
      <3>1. /\ pc' = [pc EXCEPT ![c] = "idle"] /\ events' = events
            /\ \/ answer' = [answer EXCEPT ![c] = Answer("raised", frame[c].req, NoResult)]
               \/ /\ answer' = [answer EXCEPT ![c] = Answer("broken", frame[c].req, NoResult)]
                  /\ Durable /\ Optimize = "dry_run"
        BY <2>4 DEF ToolRaise, ToolGetRaises, ToolPutRaises, Stores, Return, Goto
      <3>2. QED  BY <1>0, <3>1, UndisturbedLocal
    <2>5. CASE ToolReturn(c)
      <3> DEFINE r == frame[c].req
                 rec == << Plain("optimization.recommended", r.tool, "none") >>
                 done == << ToolEvent("tool.completed", r,
                                IF r.failed THEN "error" ELSE "ok",
                                frame[c].dup, r.cost) >>
      <3>1. r \in Requests /\ frame[c].dup \in BOOLEAN /\ r.tool \in Tools /\ r.cost \in Nat
        BY <2>5, ToolFrame, RequestType DEF ToolReturn
      <3>2. rec \in Seq(Event) /\ Calm(rec)
        BY <3>1, HarmlessPlain DEF Statuses, EventTypes, Interfering
      <3>3. done \in Seq(Event) /\ Calm(done)
        <4>1. (IF r.failed THEN "error" ELSE "ok") \in Statuses
          BY DEF Statuses
        <4>2. QED  BY <3>1, <4>1, HarmlessCall
      <3>4. /\ pc' = [pc EXCEPT ![c] = "record"]
            /\ answer' = answer
        BY <2>5 DEF ToolReturn, Goto, TypeOK
      <3>5. events' = (events \o rec) \o done \/ events' = (events \o << >>) \o done
        BY <2>5 DEF ToolReturn
      <3> HIDE DEF rec, done, r
      <3>6. /\ events \o rec \in Seq(Event) /\ Calm(events \o rec)
            /\ events \o << >> \in Seq(Event) /\ Calm(events \o << >>)
        BY <1>0, <3>2, QuietNone, QuietConcat
      <3>7. Calm((events \o rec) \o done) /\ Calm((events \o << >>) \o done)
        BY <3>3, <3>6, QuietConcat
      <3>8. Calm(events')
        BY <3>5, <3>7
      <3>9. QED  BY <3>4, <3>8, UndisturbedLocal
    <2>6. CASE ToolRecord(c)
      <3>1. /\ pc' = [pc EXCEPT ![c] = "guard"] /\ UNCHANGED <<answer, events>>
        BY <2>6 DEF ToolRecord, Goto
      <3>2. QED  BY <1>0, <3>1, UndisturbedLocal
    <2>7. CASE ToolGuard(c)
      <3> DEFINE r == frame[c].req
      <3>1. /\ Decide("cost_budget") = "observe"
            /\ Emitted("cost_budget", "observe", r.tool) = << >>
            /\ Continue("observe", "idle") = "idle"
        BY Observes
      <3>2. /\ pc' = [pc EXCEPT ![c] = "idle"]
            /\ answer' = [answer EXCEPT ![c] = Answer("ran", r, r)]
            /\ events' = events \o << >>
        BY <2>7, <3>1 DEF ToolGuard, Goto
      <3>3. Calm(events')
        BY <1>0, <3>2, QuietNone, QuietConcat
      <3> HIDE DEF r
      <3>4. QED  BY <3>2, <3>3, UndisturbedLocal
    <2>8. QED
      BY <1>1, <2>1, <2>2, <2>3, <2>4, <2>5, <2>6, <2>7 DEF ToolStep
  <1>2. ASSUME NEW c \in Callers, ModelStep(c)  PROVE Undisturbed'
    <2>1. ASSUME NEW r \in ModelRequests, ModelLookup(c, r)  PROVE Undisturbed'
      <3> DEFINE new == << Plain("model.requested", r.tool, "none") >>
      <3>1. r \in Requests /\ r.tool \in Tools
        BY RequestType DEF Requests
      <3>2. new \in Seq(Event) /\ Calm(new)
        BY <3>1, HarmlessPlain DEF Statuses, EventTypes, Interfering
      <3>3. /\ pc' = [pc EXCEPT ![c] = "model_execute"]
            /\ answer' = [answer EXCEPT ![c] = NoAnswer]
        BY <2>1 DEF ModelLookup, Goto
      <3>4. events' = events \o new
        <4>1. Plain("model.requested", r.tool, "none") \in Event
          BY <3>1, PlainType DEF Statuses, EventTypes
        <4>2. QED  BY <1>0, <2>1, <4>1, AppendConcat DEF ModelLookup
      <3> HIDE DEF new
      <3>5. Calm(events')
        BY <1>0, <3>2, <3>4, QuietConcat
      <3>6. QED  BY <3>3, <3>5, UndisturbedLocal
    <2>2. ~ModelServe(c)
      BY DEF ModelServe, Undisturbed
    <2>3. CASE ModelReturn(c)
      <3> DEFINE r == frame[c].req
                 rec == << Plain("optimization.recommended", r.tool, "none") >>
                 e == Plain("model.completed", r.tool, "ok")
                 done == << [e EXCEPT !.cost = r.cost] >>
      <3>1. r \in Requests /\ r.tool \in Tools /\ r.cost \in Nat
        BY <2>3, ModelFrame, RequestType DEF ModelReturn
      <3>2. rec \in Seq(Event) /\ Calm(rec)
        BY <3>1, HarmlessPlain DEF Statuses, EventTypes, Interfering
      <3>3. done \in Seq(Event) /\ Calm(done)
        <4>1. e \in Event /\ e.type = "model.completed"
          BY <3>1, PlainType DEF Plain, EventTypes, Statuses
        <4> HIDE DEF e
        <4>2. /\ [e EXCEPT !.cost = r.cost] \in Event
              /\ [e EXCEPT !.cost = r.cost].type = "model.completed"
          BY <3>1, <4>1 DEF Event
        <4>3. QED  BY <4>2, QuietOne DEF Interfering
      <3>4. /\ pc' = [pc EXCEPT ![c] = "idle"]
            /\ answer' = [answer EXCEPT ![c] = Answer("ran", r, r)]
        BY <2>3 DEF ModelReturn, Return, Goto
      <3>5. events' = (events \o rec) \o done \/ events' = (events \o << >>) \o done
        BY <2>3 DEF ModelReturn
      <3> HIDE DEF rec, done, r
      <3>6. /\ events \o rec \in Seq(Event) /\ Calm(events \o rec)
            /\ events \o << >> \in Seq(Event) /\ Calm(events \o << >>)
        BY <1>0, <3>2, QuietNone, QuietConcat
      <3>7. Calm((events \o rec) \o done) /\ Calm((events \o << >>) \o done)
        BY <3>3, <3>6, QuietConcat
      <3>8. Calm(events')
        BY <3>5, <3>7
      <3>9. QED  BY <3>4, <3>8, UndisturbedLocal
    <2>4. CASE ModelRaise(c) \/ ModelPutRaises(c)
      <3>1. /\ pc' = [pc EXCEPT ![c] = "idle"] /\ events' = events
            /\ \/ answer' = [answer EXCEPT ![c] = Answer("raised", frame[c].req, NoResult)]
               \/ /\ answer' = [answer EXCEPT ![c] = Answer("broken", frame[c].req, NoResult)]
                  /\ Durable /\ Optimize = "dry_run"
        BY <2>4 DEF ModelRaise, ModelPutRaises, Stores, Return, Goto
      <3>2. QED  BY <1>0, <3>1, UndisturbedLocal
    <2>5. ASSUME NEW r \in ModelRequests, ModelGetRaises(c, r)  PROVE Undisturbed'
      <3>1. /\ pc' = [pc EXCEPT ![c] = "idle"] /\ events' = events
            /\ answer' = [answer EXCEPT ![c] = Answer("broken", r, NoResult)]
            /\ Durable /\ Optimize = "dry_run"
        BY <2>5 DEF ModelGetRaises, Return, Goto
      <3>2. QED  BY <1>0, <3>1, UndisturbedLocal
    <2>6. QED  BY <1>2, <2>1, <2>2, <2>3, <2>4, <2>5 DEF ModelStep
  <1>3. ASSUME NEW c \in Callers, RetryStep(c)  PROVE Undisturbed'
    <2>1. ASSUME NEW t \in Tools, RetryRead(c, t)  PROVE Undisturbed'
      <3>1. /\ pc' = [pc EXCEPT ![c] = "retry_inc"] /\ events' = events
            /\ answer' = [answer EXCEPT ![c] = NoAnswer]
        BY <2>1 DEF RetryRead, Goto
      <3>2. QED  BY <1>0, <3>1, UndisturbedLocal
    <2>2. CASE RetryStore(c)
      <3>1. /\ pc' = [pc EXCEPT ![c] = "retry_guard"] /\ events' = events
            /\ answer' = answer
        BY <2>2 DEF RetryStore, Goto, TypeOK
      <3>2. QED  BY <1>0, <3>1, UndisturbedLocal
    <2>3. CASE RetryGuard(c)
      <3> DEFINE t == frame[c].tool
                 pair == << Plain("retry.scheduled", t, "none"),
                            Plain("retry.completed", t, "none") >>
      <3>1. t \in Tools
        BY <2>3 DEF RetryGuard, TypeOK, FrameOK, RetryFrame
      <3>2. pair \in Seq(Event) /\ Calm(pair)
        <4>1. /\ Plain("retry.scheduled", t, "none") \in Event
              /\ Plain("retry.scheduled", t, "none").type = "retry.scheduled"
              /\ Plain("retry.completed", t, "none") \in Event
              /\ Plain("retry.completed", t, "none").type = "retry.completed"
          BY <3>1, HarmlessPlain DEF Statuses, EventTypes, Interfering
        <4>2. QED  BY <4>1, QuietTwo DEF Interfering
      <3>3. /\ Decide("retry_budget") = "observe"
            /\ Emitted("retry_budget", "observe", t) = << >>
            /\ Continue("observe", "idle") = "idle"
        BY Observes
      <3>4. /\ pc' = [pc EXCEPT ![c] = "idle"]
            /\ answer' = answer
            /\ events' = (events \o << >>) \o pair
        BY <2>3, <3>3 DEF RetryGuard, Goto
      <3> HIDE DEF pair, t
      <3>5. events \o << >> \in Seq(Event) /\ Calm(events \o << >>)
        BY <1>0, QuietNone, QuietConcat
      <3>6. Calm(events')
        BY <3>2, <3>4, <3>5, QuietConcat
      <3>7. QED  BY <3>4, <3>6, UndisturbedLocal
    <2>4. QED  BY <1>3, <2>1, <2>2, <2>3 DEF RetryStep
  <1>4. ASSUME UNCHANGED <<pc, answer>>, Calm(events')  PROVE Undisturbed'
    BY <1>4 DEF Undisturbed, Calm
  <1>5. CASE StartRun
    <2> DEFINE new == << Plain("run.started", NoTool, "none") >>
    <2>1. Plain("run.started", NoTool, "none") \in Event
      BY PlainType DEF EventTypes, Statuses
    <2>2. Plain("run.started", NoTool, "none").type = "run.started"
      BY DEF Plain
    <2>3. new \in Seq(Event) /\ Calm(new)
      BY <2>1, <2>2, QuietOne DEF Interfering
    <2>4. events' = events \o new
      BY <1>0, <1>5, <2>1, AppendConcat DEF StartRun
    <2> HIDE DEF new
    <2>5. Calm(events')
      BY <1>0, <2>3, <2>4, QuietConcat
    <2>6. QED  BY <1>4, <1>5, <2>5 DEF StartRun
  <1>6. ASSUME NEW status \in {"ok", "error"}, FinishRun(status)  PROVE Undisturbed'
    <2> DEFINE done == << Plain("run.completed", NoTool, status) >>
               failed == << Plain("run.failed", NoTool, status) >>
    <2>1. /\ Plain("run.completed", NoTool, status) \in Event
          /\ Plain("run.failed", NoTool, status) \in Event
      BY PlainType DEF EventTypes, Statuses
    <2>2. /\ Plain("run.completed", NoTool, status).type = "run.completed"
          /\ Plain("run.failed", NoTool, status).type = "run.failed"
      BY DEF Plain
    <2>3. /\ done \in Seq(Event) /\ Calm(done)
          /\ failed \in Seq(Event) /\ Calm(failed)
      BY <2>1, <2>2, QuietOne DEF Interfering
    <2>4. events' = (events \o done) \o failed \/ events' = (events \o done) \o << >>
      BY <1>6 DEF FinishRun
    <2> HIDE DEF done, failed
    <2>5. events \o done \in Seq(Event) /\ Calm(events \o done)
      BY <1>0, <2>3, QuietConcat
    <2>6. Calm((events \o done) \o failed) /\ Calm((events \o done) \o << >>)
      BY <2>3, <2>5, QuietNone, QuietConcat
    <2>7. Calm(events')
      BY <2>4, <2>6
    <2>8. QED  BY <1>4, <1>6, <2>7 DEF FinishRun
  <1>7. ASSUME \/ \E k \in CacheKeys : CacheForget(k)
               \/ \E k \in CacheKeys, r \in Requests : OtherRunStores(k, r)
               \/ UNCHANGED vars
        PROVE  Undisturbed'
    BY <1>0, <1>4, <1>7 DEF CacheForget, OtherRunStores, vars
  <1>8. QED  BY <1>1, <1>2, <1>3, <1>5, <1>6, <1>7 DEF Next

\* No step but the two guards raises StopRun or PauseForApproval.
LEMMA OnlyGuardsInterrupt ==
    ASSUME [Next]_vars, \A c \in Callers : ~ToolGuard(c) /\ ~RetryGuard(c)
    PROVE  interruptions' = interruptions
  <1>1. ASSUME NEW c \in Callers, ToolStep(c)  PROVE interruptions' = interruptions
    BY <1>1 DEF ToolStep, ToolCheck, ToolBlocked, ToolLookup, ToolServe, ToolRaise,
                ToolGetRaises, ToolPutRaises, ToolReturn, ToolRecord
  <1>2. ASSUME NEW c \in Callers, ModelStep(c)  PROVE interruptions' = interruptions
    BY <1>2 DEF ModelStep, ModelLookup, ModelGetRaises, ModelServe, ModelPutRaises,
                ModelReturn, ModelRaise
  <1>3. ASSUME NEW c \in Callers, RetryStep(c)  PROVE interruptions' = interruptions
    BY <1>3 DEF RetryStep, RetryRead, RetryStore
  <1>4. QED
    BY <1>1, <1>2, <1>3 DEF Next, StartRun, FinishRun, CacheForget, OtherRunStores, vars

\* A guard that observes raises nothing.
LEMMA ObservingNeverInterrupts ==
    ASSUME TypeOK, ~Enforce, [Next]_vars
    PROVE  interruptions' = interruptions
  <1>1. \A p, tool, label : Decide(p) = "observe" /\ Continue("observe", label) = label
    BY Observes
  <1>2. ASSUME NEW c \in Callers, ToolGuard(c) \/ RetryGuard(c)
        PROVE  interruptions' = interruptions
    <2>1. interruptions' = interruptions + Raised("idle")
      BY <1>1, <1>2 DEF ToolGuard, RetryGuard
    <2>2. QED  BY <2>1 DEF Raised, TypeOK
  <1>3. QED  BY <1>2, OnlyGuardsInterrupt

\* ADR-006: a supervisor that does not enforce, and whose optimization mode is
\* not "active", runs every call and answers it with its own result or its own
\* exception, but for an exception of the file cache in dry-run; it raises
\* nothing of its own and records no intervention.
THEOREM ObservingDoesNotInterfere == Spec => []NonInterference
  <1> DEFINE Inv == Observing => Undisturbed /\ interruptions = 0
  <1>1. Init => TypeOK /\ Inv
    <2>1. Init => Undisturbed /\ interruptions = 0
      BY DEF Init, Undisturbed, Calm, NoAnswer
    <2>2. QED  BY <2>1, InitType
  <1>2. TypeOK /\ Inv /\ [Next]_vars => (TypeOK /\ Inv)'
    BY UndisturbedStep, ObservingNeverInterrupts, TypeStep DEF Observing
  <1>3. Inv => NonInterference
    BY DEF Observing, Undisturbed, Calm, Interfering, NonInterference
  <1>4. QED  BY <1>1, <1>2, <1>3, PTL DEF Spec

-----------------------------------------------------------------------------
(* What is interrupted is audited, and retries are bounded.                *)

\* How many events of a log are in E.
CountIn(log, E) == Cardinality({i \in DOMAIN log : log[i] \in E})

\* The events the properties count.
Applied(acts) == {e \in Event : e.type = "intervention.applied" /\ e.action \in acts}
Skipped == {e \in Event : e.type = "tool.completed" /\ e.status = "blocked"}
Scheduled(t) == {e \in Event : e.type = "retry.scheduled" /\ e.tool = t}
Done(k) == {e \in Event : /\ e.type = "tool.completed" /\ e.status = "ok"
                          /\ <<e.tool, e.hash>> = k}

Halts == Applied({"stop", "pause"})

\* The interventions of a policy.
Judged(p) == {e \in Event : e.type = "intervention.applied" /\ e.policy = p}

\* The events none of them is about, and the completions only Done is about.
Silent ==
    {e \in Event : e.type \notin {"intervention.applied", "retry.scheduled", "tool.completed"}}
Lasting == {e \in Event : e.type = "tool.completed" /\ e.status # "blocked"}

\* What the properties count is apart from what quiet steps emit.
LEMMA CountedApart ==
    /\ \A E \in {Halts, Skipped} \cup {Scheduled(t) : t \in Tools} :
           E \cap Silent = {} /\ E \cap Lasting = {}
    /\ \A p : Judged(p) \cap Silent = {} /\ Judged(p) \cap Lasting = {}
    /\ \A k : Done(k) \cap Silent = {}
  BY DEF Halts, Judged, Applied, Skipped, Scheduled, Done, Silent, Lasting

\* A count is a number, of a finite set of positions.
LEMMA CountType ==
    ASSUME NEW log \in Seq(Event), NEW E
    PROVE  /\ IsFiniteSet({i \in DOMAIN log : log[i] \in E})
           /\ CountIn(log, E) \in Nat
  <1>1. DOMAIN log = 1 .. Len(log) /\ Len(log) \in Nat
    OBVIOUS
  <1>2. IsFiniteSet(1 .. Len(log))
    BY <1>1, FS_Interval
  <1>3. {i \in DOMAIN log : log[i] \in E} \subseteq 1 .. Len(log)
    BY <1>1
  <1>4. IsFiniteSet({i \in DOMAIN log : log[i] \in E})
    BY <1>2, <1>3, FS_Subset
  <1>5. QED  BY <1>4, FS_CardinalityType DEF CountIn

\* One more event.
LEMMA CountAppend ==
    ASSUME NEW log \in Seq(Event), NEW e \in Event, NEW E
    PROVE  /\ log \o << e >> \in Seq(Event)
           /\ CountIn(log \o << e >>, E) = CountIn(log, E) + IF e \in E THEN 1 ELSE 0
  <1> DEFINE n == Len(log)
             long == log \o << e >>
             here(s) == {i \in DOMAIN s : s[i] \in E}
  <1>1. /\ long \in Seq(Event) /\ n \in Nat
        /\ DOMAIN long = 1 .. n + 1 /\ DOMAIN log = 1 .. n
        /\ \A i \in 1 .. n : long[i] = log[i]
        /\ long[n + 1] = e
    OBVIOUS
  <1> HIDE DEF long, n
  <1>2. n + 1 \notin here(log)
    BY <1>1
  <1>3. IsFiniteSet(here(log)) /\ Cardinality(here(log)) \in Nat
    BY CountType DEF CountIn
  <1>4. CASE e \in E
    <2>1. here(long) = here(log) \cup {n + 1}
      BY <1>1, <1>4
    <2> HIDE DEF here
    <2>2. Cardinality(here(long)) = Cardinality(here(log)) + 1
      BY <1>2, <1>3, <2>1, FS_AddElement
    <2>3. QED  BY <1>1, <1>4, <2>2 DEF CountIn, here, long
  <1>5. CASE e \notin E
    <2>1. here(long) = here(log)
      BY <1>1, <1>5
    <2>2. CountIn(long, E) = Cardinality(here(long)) /\ CountIn(log, E) = Cardinality(here(log))
      BY DEF CountIn
    <2> HIDE DEF here
    <2>3. QED  BY <1>1, <1>3, <1>5, <2>1, <2>2 DEF long
  <1>6. QED  BY <1>4, <1>5

\* Adding two events is adding one after the other.
LEMMA PairConcat ==
    ASSUME NEW log \in Seq(Event), NEW d \in Event, NEW e \in Event
    PROVE  (log \o << d >>) \o << e >> = log \o << d, e >>
  <1> DEFINE a == (log \o << d >>) \o << e >>
             b == log \o << d, e >>
             n == Len(log)
  <1>1. /\ log \o << d >> \in Seq(Event) /\ Len(log \o << d >>) = n + 1
        /\ (log \o << d >>)[n + 1] = d
        /\ \A i \in 1 .. n : (log \o << d >>)[i] = log[i]
    OBVIOUS
  <1>2. /\ a \in Seq(Event) /\ Len(a) = n + 2 /\ a[n + 2] = e
        /\ \A i \in 1 .. n + 1 : a[i] = (log \o << d >>)[i]
    BY <1>1
  <1>3. /\ b \in Seq(Event) /\ Len(b) = n + 2 /\ b[n + 1] = d /\ b[n + 2] = e
        /\ \A i \in 1 .. n : b[i] = log[i]
    OBVIOUS
  <1>4. n \in Nat
    OBVIOUS
  <1> HIDE DEF a, b, n
  <1>5. \A i \in 1 .. n + 2 : a[i] = b[i]
    BY <1>1, <1>2, <1>3, <1>4
  <1>6. a = b
    BY <1>2, <1>3, <1>5, SeqEqual
  <1>7. QED  BY <1>6 DEF a, b

\* Two more events.
LEMMA CountPair ==
    ASSUME NEW log \in Seq(Event), NEW d \in Event, NEW e \in Event, NEW E
    PROVE  /\ log \o << d, e >> \in Seq(Event)
           /\ CountIn(log \o << d, e >>, E) =
                  CountIn(log, E) + (IF d \in E THEN 1 ELSE 0) + (IF e \in E THEN 1 ELSE 0)
  <1>1. log \o << d, e >> = (log \o << d >>) \o << e >>
    BY PairConcat
  <1>2. log \o << d >> \in Seq(Event)
    OBVIOUS
  <1>3. QED
    <2> DEFINE one == log \o << d >>
    <2>1. CountIn(one, E) = CountIn(log, E) + IF d \in E THEN 1 ELSE 0
      BY CountAppend
    <2> HIDE DEF one
    <2>2. /\ one \o << e >> \in Seq(Event)
          /\ CountIn(one \o << e >>, E) = CountIn(one, E) + IF e \in E THEN 1 ELSE 0
      BY <1>2, CountAppend DEF one
    <2>3. QED  BY <1>1, <2>1, <2>2 DEF one

\* One event that is not counted leaves a count alone ...
LEMMA SameOne ==
    ASSUME NEW log \in Seq(Event), NEW E, NEW e \in Event \ E
    PROVE  CountIn(log \o << e >>, E) = CountIn(log, E)
  <1>1. e \in Event /\ e \notin E /\ CountIn(log, E) \in Nat
    BY CountType
  <1>2. CountIn(log \o << e >>, E) = CountIn(log, E) + IF e \in E THEN 1 ELSE 0
    BY <1>1, CountAppend
  <1>3. QED  BY <1>1, <1>2

\* ... and so do two ...
LEMMA SameTwo ==
    ASSUME NEW log \in Seq(Event), NEW E, NEW d \in Event \ E, NEW e \in Event \ E
    PROVE  CountIn(log \o << d, e >>, E) = CountIn(log, E)
  <1>1. d \in Event /\ e \in Event /\ d \notin E /\ e \notin E /\ CountIn(log, E) \in Nat
    BY CountType
  <1>2. CountIn(log \o << d, e >>, E) =
            CountIn(log, E) + (IF d \in E THEN 1 ELSE 0) + (IF e \in E THEN 1 ELSE 0)
    BY <1>1, CountPair
  <1>3. QED  BY <1>1, <1>2

\* ... and none.
LEMMA SameNone ==
    ASSUME NEW log \in Seq(Event)
    PROVE  log \o << >> = log
  OBVIOUS

\* Most plain events are silent.
LEMMA PlainSilent ==
    ASSUME NEW type \in EventTypes \ {"intervention.applied", "retry.scheduled",
                                       "tool.completed"},
           NEW tool \in Tools \cup {NoTool}, NEW status \in Statuses
    PROVE  Plain(type, tool, status) \in Silent
  <1>1. Plain(type, tool, status) \in Event
    BY PlainType
  <1>2. QED  BY <1>1 DEF Plain, Silent

\* The request of a call is silent; its completion is about one key.
LEMMA CallEvents ==
    ASSUME NEW r \in Requests, NEW status \in Statuses, NEW dup \in BOOLEAN,
           NEW amount \in Nat
    PROVE  /\ ToolEvent("tool.requested", r, status, dup, amount) \in Silent
           /\ status # "blocked" =>
                  ToolEvent("tool.completed", r, status, dup, amount) \in Lasting
           /\ ToolEvent("tool.completed", r, status, dup, amount) \in Event
           /\ ToolEvent("tool.completed", r, status, dup, amount).type = "tool.completed"
           /\ ToolEvent("tool.completed", r, status, dup, amount).status = status
           /\ ToolEvent("tool.completed", r, status, dup, amount).tool = r.tool
           /\ ToolEvent("tool.completed", r, status, dup, amount).hash = r.hash
  <1>1. /\ ToolEvent("tool.requested", r, status, dup, amount) \in Event
        /\ ToolEvent("tool.completed", r, status, dup, amount) \in Event
    BY RequestType, ToolEventType DEF EventTypes
  <1>2. QED  BY <1>1 DEF ToolEvent, Plain, Silent, Lasting

\* What an intervention adds to the counts: one for its action, one for its
\* policy and nothing else.
LEMMA InterventionCounts ==
    ASSUME NEW log \in Seq(Event), NEW p \in PolicyIds, NEW action \in Actions,
           NEW tool \in Tools
    PROVE  LET more == log \o Intervention(p, action, tool)
           IN  /\ more \in Seq(Event)
               /\ CountIn(more, Halts) =
                      CountIn(log, Halts) + IF action \in {"stop", "pause"} THEN 1 ELSE 0
               /\ \A q \in PolicyIds : CountIn(more, Judged(q)) =
                      CountIn(log, Judged(q)) + IF q = p THEN 1 ELSE 0
               /\ CountIn(more, Skipped) = CountIn(log, Skipped)
               /\ \A t \in Tools : CountIn(more, Scheduled(t)) = CountIn(log, Scheduled(t))
               /\ \A k \in Keys : CountIn(more, Done(k)) = CountIn(log, Done(k))
  <1> DEFINE first == [Plain("policy.triggered", tool, "none")
                          EXCEPT !.policy = p, !.action = action]
             second == [Plain("intervention.applied", tool, "none")
                          EXCEPT !.policy = p, !.action = action]
  <1>1. /\ first \in Event /\ second \in Event
        /\ first.type = "policy.triggered"
        /\ second.type = "intervention.applied" /\ second.action = action
        /\ second.policy = p
    BY DEF Plain, Event, EventTypes, Statuses
  <1>2. Intervention(p, action, tool) = << first, second >>
    BY DEF Intervention
  <1> HIDE DEF first, second
  <1>3. /\ first \notin Halts /\ first \notin Skipped
        /\ \A q \in PolicyIds : first \notin Judged(q) /\ (second \in Judged(q) <=> q = p)
        /\ second \notin Skipped
        /\ \A t \in Tools : first \notin Scheduled(t) /\ second \notin Scheduled(t)
        /\ \A k \in Keys : first \notin Done(k) /\ second \notin Done(k)
        /\ second \in Halts <=> action \in {"stop", "pause"}
    BY <1>1 DEF Halts, Judged, Applied, Skipped, Scheduled, Done
  <1>4. log \o << first, second >> \in Seq(Event)
    BY <1>1, CountPair
  <1>5. ASSUME NEW E, first \notin E
        PROVE  CountIn(log \o << first, second >>, E) =
                   CountIn(log, E) + IF second \in E THEN 1 ELSE 0
    <2>1. CountIn(log, E) \in Nat
      BY CountType
    <2>2. CountIn(log \o << first, second >>, E) =
              CountIn(log, E) + (IF first \in E THEN 1 ELSE 0)
                              + (IF second \in E THEN 1 ELSE 0)
      BY <1>1, CountPair
    <2>3. QED  BY <1>5, <2>1, <2>2
  <1>6. \A E : CountIn(log, E) \in Nat
    BY CountType
  <1>7. /\ CountIn(log \o << first, second >>, Halts) =
               CountIn(log, Halts) + IF action \in {"stop", "pause"} THEN 1 ELSE 0
        /\ \A q \in PolicyIds : CountIn(log \o << first, second >>, Judged(q)) =
               CountIn(log, Judged(q)) + IF q = p THEN 1 ELSE 0
    BY <1>3, <1>5
  <1>8. CountIn(log \o << first, second >>, Skipped) = CountIn(log, Skipped)
    BY <1>3, <1>5, <1>6
  <1>9. /\ \A t \in Tools :
               CountIn(log \o << first, second >>, Scheduled(t)) = CountIn(log, Scheduled(t))
        /\ \A k \in Keys :
               CountIn(log \o << first, second >>, Done(k)) = CountIn(log, Done(k))
    BY <1>1, <1>3, SameTwo
  <1>10. QED  BY <1>2, <1>4, <1>7, <1>8, <1>9

\* What _apply_decision adds.
LEMMA EmittedCounts ==
    ASSUME NEW log \in Seq(Event), NEW p \in PolicyIds,
           NEW action \in Actions \cup {"observe"}, NEW tool \in Tools
    PROVE  LET more == log \o Emitted(p, action, tool)
           IN  /\ more \in Seq(Event)
               /\ CountIn(more, Halts) =
                      CountIn(log, Halts) + IF action \in {"stop", "pause"} THEN 1 ELSE 0
               /\ \A q \in PolicyIds : CountIn(more, Judged(q)) =
                      CountIn(log, Judged(q)) + IF q = p /\ action # "observe" THEN 1 ELSE 0
               /\ CountIn(more, Skipped) = CountIn(log, Skipped)
               /\ \A t \in Tools : CountIn(more, Scheduled(t)) = CountIn(log, Scheduled(t))
               /\ \A k \in Keys : CountIn(more, Done(k)) = CountIn(log, Done(k))
  <1>1. CASE action = "observe"
    <2> DEFINE more == log \o Emitted(p, action, tool)
    <2>1. more = log
      BY <1>1, SameNone DEF Emitted
    <2> HIDE DEF more
    <2>2. CountIn(log, Halts) \in Nat /\ \A q : CountIn(log, Judged(q)) \in Nat
      BY CountType
    <2>3. /\ CountIn(more, Halts) =
                 CountIn(log, Halts) + IF action \in {"stop", "pause"} THEN 1 ELSE 0
          /\ \A q \in PolicyIds : CountIn(more, Judged(q)) =
                 CountIn(log, Judged(q)) + IF q = p /\ action # "observe" THEN 1 ELSE 0
      BY <1>1, <2>1, <2>2
    <2>4. /\ CountIn(more, Skipped) = CountIn(log, Skipped)
          /\ \A t \in Tools : CountIn(more, Scheduled(t)) = CountIn(log, Scheduled(t))
          /\ \A k \in Keys : CountIn(more, Done(k)) = CountIn(log, Done(k))
      BY <2>1
    <2>5. QED  BY <2>1, <2>3, <2>4 DEF more
  <1>2. CASE action # "observe"
    BY <1>2, InterventionCounts DEF Emitted
  <1>3. QED  BY <1>1, <1>2

\* Every step but a blocked call and the two guards leaves the counts alone, but
\* for the completions of calls.
LEMMA QuietSteps ==
    ASSUME TypeOK, [Next]_vars,
           \A c \in Callers : ~ToolBlocked(c) /\ ~ToolGuard(c) /\ ~RetryGuard(c),
           NEW E, E \cap Silent = {},
           E \cap Lasting = {} \/ \A c \in Callers : ~ToolServe(c) /\ ~ToolReturn(c)
    PROVE  CountIn(events', E) = CountIn(events, E)
  <1> DEFINE Same == CountIn(events', E) = CountIn(events, E)
  <1> USE RunAssumption, PolicyAssumption
  <1>0. /\ events \in Seq(Event)
        /\ \A e \in Silent : e \in Event \ E
        /\ E \cap Lasting = {} => \A e \in Lasting : e \in Event \ E
    BY DEF TypeOK, Silent, Lasting
  <1>1. CASE UNCHANGED events
    BY <1>1
  <1>2. ASSUME NEW c \in Callers, ToolLookup(c)  PROVE Same
    <2>1. frame[c].req \in Requests /\ frame[c].dup \in BOOLEAN
      BY <1>2, ToolFrame DEF ToolLookup
    <2> DEFINE e == ToolEvent("tool.requested", frame[c].req, "none", frame[c].dup, 0)
    <2>2. e \in Silent
      BY <2>1, CallEvents DEF Statuses
    <2>3. events' = Append(events, e)
      BY <1>2 DEF ToolLookup
    <2> HIDE DEF e
    <2>4. events' = events \o << e >>
      BY <1>0, <2>2, <2>3, AppendConcat
    <2>5. QED  BY <1>0, <2>2, <2>4, SameOne
  <1>3. ASSUME NEW c \in Callers, ToolServe(c)  PROVE Same
    <2>1. frame[c].req \in Requests /\ frame[c].dup \in BOOLEAN /\ frame[c].req.tool \in Tools
      BY <1>3, ToolFrame, RequestType DEF ToolServe
    <2> DEFINE d == Plain("optimization.applied", frame[c].req.tool, "none")
               e == ToolEvent("tool.completed", frame[c].req, "ok", frame[c].dup,
                              ServedCost(frame[c].req))
    <2>2. d \in Silent /\ e \in Lasting
      <3>1. d \in Silent
        BY <2>1, PlainSilent DEF Statuses, EventTypes
      <3>2. e \in Lasting
        BY <2>1, CallEvents DEF Statuses, ServedCost
      <3>3. QED  BY <3>1, <3>2
    <2>3. events' = events \o << d, e >>
      BY <1>3 DEF ToolServe
    <2> HIDE DEF d, e
    <2>4. QED  BY <1>0, <1>3, <2>2, <2>3, SameTwo
  <1>4. ASSUME NEW d \in Event \ E, NEW e \in Event \ E,
               \/ events' = (events \o << d >>) \o << e >>
               \/ events' = (events \o << >>) \o << e >>
        PROVE  Same
    <2>1. events' = events \o << d, e >> \/ events' = events \o << e >>
      <3>1. (events \o << d >>) \o << e >> = events \o << d, e >> /\ events \o << >> = events
        BY <1>0, PairConcat, SameNone
      <3>2. QED  BY <1>4, <3>1
    <2>2. /\ CountIn(events \o << d, e >>, E) = CountIn(events, E)
          /\ CountIn(events \o << e >>, E) = CountIn(events, E)
      BY <1>0, SameOne, SameTwo
    <2>3. QED  BY <2>1, <2>2
  <1>5. ASSUME NEW c \in Callers, ToolReturn(c)  PROVE Same
    <2> DEFINE r == frame[c].req
               status == IF r.failed THEN "error" ELSE "ok"
               rec == Plain("optimization.recommended", r.tool, "none")
               done == ToolEvent("tool.completed", r, status, frame[c].dup, r.cost)
    <2>1. r \in Requests /\ frame[c].dup \in BOOLEAN /\ r.tool \in Tools /\ r.cost \in Nat
      BY <1>5, ToolFrame, RequestType DEF ToolReturn
    <2>2. status \in Statuses /\ status # "blocked"
      BY DEF Statuses
    <2>4. \/ events' = (events \o << rec >>) \o << done >>
          \/ events' = (events \o << >>) \o << done >>
      BY <1>5 DEF ToolReturn
    <2> HIDE DEF status
    <2>3. rec \in Silent /\ done \in Lasting
      <3>1. rec \in Silent
        BY <2>1, PlainSilent DEF Statuses, EventTypes
      <3>2. done \in Lasting
        BY <2>1, <2>2, CallEvents
      <3>3. QED  BY <3>1, <3>2
    <2> HIDE DEF rec, done
    <2>5. QED  BY <1>0, <1>4, <1>5, <2>3, <2>4
  <1>6. ASSUME NEW c \in Callers, NEW r \in ModelRequests, ModelLookup(c, r)  PROVE Same
    <2> DEFINE e == Plain("model.requested", r.tool, "none")
    <2>1. r.tool \in Tools
      BY RequestType DEF Requests
    <2>2. e \in Silent
      BY <2>1, PlainSilent DEF Statuses, EventTypes
    <2>3. events' = Append(events, e)
      BY <1>6 DEF ModelLookup
    <2> HIDE DEF e
    <2>4. events' = events \o << e >>
      BY <1>0, <2>2, <2>3, AppendConcat
    <2>5. QED  BY <1>0, <2>2, <2>4, SameOne
  <1>7. ASSUME NEW c \in Callers, ModelServe(c)  PROVE Same
    <2> DEFINE d == Plain("optimization.applied", frame[c].req.tool, "none")
               e == Plain("model.completed", frame[c].req.tool, "ok")
    <2>1. frame[c].req.tool \in Tools
      BY <1>7, ModelFrame, RequestType DEF ModelServe
    <2>2. d \in Silent /\ e \in Silent
      BY <2>1, PlainSilent DEF Statuses, EventTypes
    <2>3. events' = events \o << d, e >>
      BY <1>7 DEF ModelServe
    <2> HIDE DEF d, e
    <2>4. QED  BY <1>0, <2>2, <2>3, SameTwo
  <1>8. ASSUME NEW c \in Callers, ModelReturn(c)  PROVE Same
    <2> DEFINE r == frame[c].req
               rec == Plain("optimization.recommended", r.tool, "none")
               e == Plain("model.completed", r.tool, "ok")
               done == [e EXCEPT !.cost = r.cost]
    <2>1. r.tool \in Tools /\ r.cost \in Nat
      BY <1>8, ModelFrame, RequestType DEF ModelReturn
    <2>2. rec \in Silent /\ e \in Event /\ e.type = "model.completed"
      BY <2>1, PlainSilent, PlainType DEF Statuses, EventTypes, Plain
    <2>3. \/ events' = (events \o << rec >>) \o << done >>
          \/ events' = (events \o << >>) \o << done >>
      BY <1>8 DEF ModelReturn
    <2> HIDE DEF rec, e
    <2>4. done \in Event /\ done.type = "model.completed"
      BY <2>1, <2>2 DEF Event
    <2> HIDE DEF done
    <2>5. done \in Silent
      BY <2>4 DEF Silent
    <2>6. QED  BY <1>0, <1>4, <2>2, <2>3, <2>5
  <1>9. CASE StartRun
    <2> DEFINE e == Plain("run.started", NoTool, "none")
    <2>1. e \in Silent
      BY PlainSilent DEF Statuses, EventTypes
    <2>2. events' = Append(events, e)
      BY <1>9 DEF StartRun
    <2> HIDE DEF e
    <2>3. events' = events \o << e >>
      BY <1>0, <2>1, <2>2, AppendConcat
    <2>4. QED  BY <1>0, <2>1, <2>3, SameOne
  <1>10. ASSUME NEW status \in {"ok", "error"}, FinishRun(status)  PROVE Same
    <2> DEFINE d == Plain("run.completed", NoTool, status)
               e == Plain("run.failed", NoTool, status)
    <2>1. d \in Silent /\ e \in Silent
      BY PlainSilent DEF Statuses, EventTypes
    <2>2. \/ events' = (events \o << d >>) \o << e >>
          \/ events' = (events \o << d >>) \o << >>
      BY <1>10 DEF FinishRun
    <2> HIDE DEF d, e
    <2>3. (events \o << d >>) \o << >> = (events \o << >>) \o << d >>
      <3>1. d \in Event
        BY <1>0, <2>1
      <3>2. QED  BY <1>0, <3>1
    <2>4. QED  BY <1>0, <1>4, <2>1, <2>2, <2>3
  <1>11. ASSUME NEW c \in Callers,
                \/ \E r \in ToolRequests : ToolCheck(c, r)
                \/ ToolRaise(c) \/ ToolGetRaises(c) \/ ToolPutRaises(c) \/ ToolRecord(c)
                \/ ModelRaise(c) \/ ModelPutRaises(c)
                \/ \E r \in ModelRequests : ModelGetRaises(c, r)
                \/ \E t \in Tools : RetryRead(c, t)
                \/ RetryStore(c)
         PROVE  UNCHANGED events
    BY <1>11 DEF ToolCheck, ToolRaise, ToolGetRaises, ToolPutRaises, ToolRecord, ModelRaise,
                 ModelPutRaises, ModelGetRaises, RetryRead, RetryStore
  <1>12. ASSUME NEW c \in Callers, ToolStep(c)  PROVE Same
    BY <1>1, <1>2, <1>3, <1>5, <1>11, <1>12 DEF ToolStep
  <1>13. ASSUME NEW c \in Callers, ModelStep(c)  PROVE Same
    BY <1>1, <1>6, <1>7, <1>8, <1>11, <1>13 DEF ModelStep
  <1>14. ASSUME NEW c \in Callers, RetryStep(c)  PROVE Same
    BY <1>1, <1>11, <1>14 DEF RetryStep
  <1>15. CASE UNCHANGED vars \/ (\E k \in CacheKeys : CacheForget(k))
                 \/ \E k \in CacheKeys, r \in Requests : OtherRunStores(k, r)
    BY <1>1, <1>15 DEF vars, CacheForget, OtherRunStores
  <1>16. QED  BY <1>9, <1>10, <1>12, <1>13, <1>14, <1>15 DEF Next

\* As many interruptions and skipped calls as the log tells of.
Audited ==
    /\ interruptions = CountIn(events, Halts)
    /\ CountIn(events, Skipped) = CountIn(events, Judged("duplicate_tool_protection"))

\* The action a guard takes, and that it raises if and only if it records a stop
\* or a pause.
LEMMA GuardAction ==
    ASSUME NEW p \in PolicyIds, NEW exceeded \in BOOLEAN
    PROVE  LET action == IF exceeded THEN Decide(p) ELSE "observe"
           IN  /\ action \in Actions \cup {"observe"}
               /\ Raised(Continue(action, "idle")) =
                      IF action \in {"stop", "pause"} THEN 1 ELSE 0
  <1> DEFINE action == IF exceeded THEN Decide(p) ELSE "observe"
  <1>1. action \in Actions \cup {"observe"}
    BY DecideType
  <1> HIDE DEF action
  <1>2. Raised(Continue(action, "idle")) = IF action \in {"stop", "pause"} THEN 1 ELSE 0
    BY DEF Raised, Continue
  <1>3. QED  BY <1>1, <1>2 DEF action

\* What the events of a blocked call add to the counts.
LEMMA BlockedCounts ==
    ASSUME TypeOK, NEW c \in Callers, ToolBlocked(c)
    PROVE  /\ CountIn(events', Halts) = CountIn(events, Halts)
           /\ \A p \in PolicyIds : CountIn(events', Judged(p)) =
                  CountIn(events, Judged(p))
                      + IF p = "duplicate_tool_protection" THEN 1 ELSE 0
           /\ CountIn(events', Skipped) = CountIn(events, Skipped) + 1
  <1> USE RunAssumption, PolicyAssumption
  <1> DEFINE r == frame[c].req
             d == ToolEvent("tool.requested", r, "none", TRUE, 0)
             e == ToolEvent("tool.completed", r, "blocked", TRUE, 0)
             log == events \o Intervention("duplicate_tool_protection", "block", r.tool)
  <1>0. events \in Seq(Event)
    BY DEF TypeOK
  <1>1. r \in Requests /\ r \in Request /\ r.tool \in Tools
    BY ToolFrame, RequestType DEF ToolBlocked
  <1>2. "duplicate_tool_protection" \in PolicyIds /\ "block" \in Actions
    BY DEF PolicyIds, Actions
  <1>3. /\ log \in Seq(Event)
        /\ CountIn(log, Halts) = CountIn(events, Halts) + 0
        /\ \A p \in PolicyIds : CountIn(log, Judged(p)) =
               CountIn(events, Judged(p))
                   + IF p = "duplicate_tool_protection" THEN 1 ELSE 0
        /\ CountIn(log, Skipped) = CountIn(events, Skipped)
    BY <1>0, <1>1, <1>2, InterventionCounts
  <1>4. d \in Silent
    BY <1>1, CallEvents DEF Statuses
  <1>5. /\ d \in Event /\ d \notin Halts /\ d \notin Skipped
        /\ \A p : d \notin Judged(p)
    BY <1>4, CountedApart DEF Silent
  <1>6. e \in Event /\ e.type = "tool.completed" /\ e.status = "blocked"
    <2>1. e \in Event
      BY <1>1, ToolEventType DEF EventTypes, Statuses
    <2>2. QED  BY <2>1 DEF ToolEvent, Plain
  <1>7. events' = log \o << d, e >>
    BY DEF ToolBlocked
  <1> HIDE DEF d, e, log
  <1>8. e \in Skipped /\ e \notin Halts /\ \A p : e \notin Judged(p)
    BY <1>6 DEF Skipped, Halts, Judged, Applied
  <1>9. \A E : CountIn(log, E) \in Nat /\ CountIn(events, E) \in Nat
    BY <1>0, <1>3, CountType
  <1>10. /\ CountIn(events', Halts) = CountIn(log, Halts) + 0 + 0
         /\ \A p : CountIn(events', Judged(p)) = CountIn(log, Judged(p)) + 0 + 0
         /\ CountIn(events', Skipped) = CountIn(log, Skipped) + 0 + 1
    BY <1>3, <1>5, <1>6, <1>7, <1>8, CountPair
  <1>11. QED  BY <1>3, <1>9, <1>10

\* What the events of the cost guard add to the counts.
LEMMA ToolGuardCounts ==
    ASSUME TypeOK, NEW c \in Callers, ToolGuard(c)
    PROVE  LET action == IF CostExceeded THEN Decide("cost_budget") ELSE "observe"
           IN  /\ CountIn(events', Halts) = CountIn(events, Halts)
                      + IF action \in {"stop", "pause"} THEN 1 ELSE 0
               /\ \A p \in PolicyIds : CountIn(events', Judged(p)) =
                      CountIn(events, Judged(p))
                          + IF p = "cost_budget" /\ action # "observe" THEN 1 ELSE 0
               /\ CountIn(events', Skipped) = CountIn(events, Skipped)
               /\ interruptions' = interruptions
                      + IF action \in {"stop", "pause"} THEN 1 ELSE 0
  <1> DEFINE r == frame[c].req
             action == IF CostExceeded THEN Decide("cost_budget") ELSE "observe"
  <1>0. events \in Seq(Event)
    BY DEF TypeOK
  <1>1. r.tool \in Tools /\ "cost_budget" \in PolicyIds
    BY ToolFrame, RequestType DEF ToolGuard, PolicyIds
  <1>2. /\ action \in Actions \cup {"observe"}
        /\ Raised(Continue(action, "idle")) = IF action \in {"stop", "pause"} THEN 1 ELSE 0
    BY <1>1, GuardAction DEF CostExceeded
  <1>3. /\ events' = events \o Emitted("cost_budget", action, r.tool)
        /\ interruptions' = interruptions + Raised(Continue(action, "idle"))
    BY DEF ToolGuard
  <1> HIDE DEF action, r
  <1>4. /\ CountIn(events', Halts) = CountIn(events, Halts)
               + IF action \in {"stop", "pause"} THEN 1 ELSE 0
        /\ \A p \in PolicyIds : CountIn(events', Judged(p)) =
               CountIn(events, Judged(p))
                   + IF p = "cost_budget" /\ action # "observe" THEN 1 ELSE 0
        /\ CountIn(events', Skipped) = CountIn(events, Skipped)
    BY <1>0, <1>1, <1>2, <1>3, EmittedCounts
  <1>5. QED  BY <1>2, <1>3, <1>4 DEF action

\* What the events of the retry guard add to the counts.
LEMMA RetryGuardCounts ==
    ASSUME TypeOK, NEW c \in Callers, RetryGuard(c)
    PROVE  LET action == IF RetriesExhausted(frame[c].tool)
                         THEN Decide("retry_budget") ELSE "observe"
           IN  /\ CountIn(events', Halts) = CountIn(events, Halts)
                      + IF action \in {"stop", "pause"} THEN 1 ELSE 0
               /\ \A p \in PolicyIds \ {"retry_budget"} :
                      CountIn(events', Judged(p)) = CountIn(events, Judged(p))
               /\ CountIn(events', Skipped) = CountIn(events, Skipped)
               /\ interruptions' = interruptions
                      + IF action \in {"stop", "pause"} THEN 1 ELSE 0
  <1> DEFINE t == frame[c].tool
             action == IF RetriesExhausted(t) THEN Decide("retry_budget") ELSE "observe"
             log == events \o Emitted("retry_budget", action, t)
             d == Plain("retry.scheduled", t, "none")
             e == Plain("retry.completed", t, "none")
  <1>0. events \in Seq(Event)
    BY DEF TypeOK
  <1>1. t \in Tools /\ "retry_budget" \in PolicyIds
    BY DEF RetryGuard, TypeOK, FrameOK, RetryFrame, PolicyIds
  <1>2. /\ action \in Actions \cup {"observe"}
        /\ Raised(Continue(action, "idle")) = IF action \in {"stop", "pause"} THEN 1 ELSE 0
    BY <1>1, GuardAction DEF RetriesExhausted
  <1>3. /\ events' = log \o << d, e >> \/ events' = log \o << >>
        /\ interruptions' = interruptions + Raised(Continue(action, "idle"))
    BY DEF RetryGuard
  <1>4. /\ d \in Event /\ d \notin Halts /\ d \notin Skipped /\ \A p : d \notin Judged(p)
        /\ e \in Event /\ e \notin Halts /\ e \notin Skipped /\ \A p : e \notin Judged(p)
    <2>1. d \in Event /\ e \in Event
      BY <1>1, PlainType DEF EventTypes, Statuses
    <2>2. QED  BY <2>1 DEF Plain, Halts, Judged, Applied, Skipped
  <1>5. /\ log \in Seq(Event)
        /\ CountIn(log, Halts) = CountIn(events, Halts)
               + IF action \in {"stop", "pause"} THEN 1 ELSE 0
        /\ \A p \in PolicyIds : CountIn(log, Judged(p)) = CountIn(events, Judged(p))
               + IF p = "retry_budget" /\ action # "observe" THEN 1 ELSE 0
        /\ CountIn(log, Skipped) = CountIn(events, Skipped)
    <2> HIDE DEF action
    <2>1. QED  BY <1>0, <1>1, <1>2, EmittedCounts
  <1> HIDE DEF action, log, d, e
  <1>6. ASSUME NEW E, d \notin E, e \notin E
        PROVE  CountIn(events', E) = CountIn(log, E)
    <2>1. CASE events' = log \o << >>
      BY <1>5, <2>1, SameNone
    <2>2. CASE events' = log \o << d, e >>
      BY <1>4, <1>5, <1>6, <2>2, SameTwo
    <2>3. QED  BY <1>3, <2>1, <2>2
  <1>7. /\ CountIn(events', Halts) = CountIn(log, Halts)
        /\ \A p \in PolicyIds : CountIn(events', Judged(p)) = CountIn(log, Judged(p))
        /\ CountIn(events', Skipped) = CountIn(log, Skipped)
    BY <1>4, <1>6
  <1>8. \A E : CountIn(events, E) \in Nat
    BY <1>0, CountType
  <1>9. \A p \in PolicyIds \ {"retry_budget"} :
            CountIn(events', Judged(p)) = CountIn(events, Judged(p))
    BY <1>5, <1>7, <1>8
  <1>10. QED  BY <1>2, <1>3, <1>5, <1>7, <1>9 DEF action, t

\* Every other step leaves the interventions and the skipped calls alone.
LEMMA OtherCounts ==
    ASSUME TypeOK, [Next]_vars,
           \A c \in Callers : ~ToolBlocked(c) /\ ~ToolGuard(c) /\ ~RetryGuard(c)
    PROVE  /\ CountIn(events', Halts) = CountIn(events, Halts)
           /\ \A p : CountIn(events', Judged(p)) = CountIn(events, Judged(p))
           /\ CountIn(events', Skipped) = CountIn(events, Skipped)
           /\ interruptions' = interruptions
  BY CountedApart, QuietSteps, OnlyGuardsInterrupt

\* Every step keeps the audit.
LEMMA AuditedStep ==
    ASSUME TypeOK, Audited, [Next]_vars
    PROVE  Audited'
  <1> DEFINE p == "duplicate_tool_protection"
  <1>0. p \in PolicyIds \ {"retry_budget", "cost_budget"}
    BY DEF PolicyIds
  <1>1. \A E : CountIn(events, E) \in Nat
    BY CountType DEF TypeOK
  <1>2. /\ interruptions = CountIn(events, Halts)
        /\ CountIn(events, Skipped) = CountIn(events, Judged(p))
    BY DEF Audited
  <1>3. SUFFICES /\ interruptions' = CountIn(events', Halts)
                 /\ CountIn(events', Skipped) = CountIn(events', Judged(p))
    BY DEF Audited, CountIn, Halts, Judged, Applied, Skipped
  <1>4. ASSUME NEW c \in Callers, ToolBlocked(c)
        PROVE  /\ interruptions' = CountIn(events', Halts)
               /\ CountIn(events', Skipped) = CountIn(events', Judged(p))
    <2>1. interruptions' = interruptions
      BY <1>4 DEF ToolBlocked
    <2>2. QED  BY <1>0, <1>2, <1>4, <2>1, BlockedCounts
  <1>5. ASSUME NEW c \in Callers, ToolGuard(c)
        PROVE  /\ interruptions' = CountIn(events', Halts)
               /\ CountIn(events', Skipped) = CountIn(events', Judged(p))
    <2>1. CountIn(events', Judged(p)) = CountIn(events, Judged(p)) + 0
      BY <1>0, <1>5, ToolGuardCounts
    <2>2. QED  BY <1>1, <1>2, <1>5, <2>1, ToolGuardCounts
  <1>6. ASSUME NEW c \in Callers, RetryGuard(c)
        PROVE  /\ interruptions' = CountIn(events', Halts)
               /\ CountIn(events', Skipped) = CountIn(events', Judged(p))
    BY <1>0, <1>2, <1>6, RetryGuardCounts
  <1>7. CASE \A c \in Callers : ~ToolBlocked(c) /\ ~ToolGuard(c) /\ ~RetryGuard(c)
    BY <1>2, <1>7, OtherCounts
  <1>8. QED  BY <1>4, <1>5, <1>6, <1>7

\* A count of interventions is a count of events.
LEMMA InterventionsCounted ==
    ASSUME TypeOK, NEW p
    PROVE  Cardinality(Interventions(p)) = CountIn(events, Judged(p))
  <1>1. \A i \in DOMAIN events : events[i] \in Event
    BY DEF TypeOK
  <1>2. Interventions(p) = {i \in DOMAIN events : events[i] \in Judged(p)}
    BY <1>1 DEF Interventions, Positions, Judged
  <1>3. QED  BY <1>2 DEF CountIn

\* Every StopRun and PauseForApproval raised, whether or not the application
\* caught it and went on, and every blocked completion has an intervention of its
\* own in the trace, however many callers share the Supervisor.
THEOREM InterventionsAreAudited == Spec => []InterventionsAudited
  <1>1. Init => Audited
    <2> SUFFICES ASSUME Init  PROVE Audited
      OBVIOUS
    <2>1. interruptions = 0 /\ events = << >>
      BY DEF Init
    <2>2. \A E : {i \in DOMAIN events : events[i] \in E} = {}
      BY <2>1
    <2>3. QED  BY <2>1, <2>2, FS_EmptySet DEF Audited, CountIn
  <1>2. TypeOK /\ Audited => InterventionsAudited
    <2> SUFFICES ASSUME TypeOK, Audited  PROVE InterventionsAudited
      OBVIOUS
    <2>1. events \in Seq(Event) /\ \A i \in DOMAIN events : events[i] \in Event
      BY DEF TypeOK
    <2>2. {i \in Positions("intervention.applied") : events[i].action \in {"stop", "pause"}}
              = {i \in DOMAIN events : events[i] \in Halts}
      BY <2>1 DEF Positions, Halts, Applied
    <2>3. {i \in Positions("tool.completed") : events[i].status = "blocked"}
              = {i \in DOMAIN events : events[i] \in Skipped}
      BY <2>1 DEF Positions, Skipped
    <2>4. QED
      BY <2>2, <2>3, InterventionsCounted DEF InterventionsAudited, Audited, CountIn
  <1>3. TypeOK /\ Audited /\ [Next]_vars => Audited'
    BY AuditedStep
  <1>4. QED  BY <1>1, <1>2, <1>3, InitType, TypeStep, PTL DEF Spec

-----------------------------------------------------------------------------
(* What is overspent is bounded.                                           *)

\* The calls charged that the cost guard has judged beyond the limit or is about
\* to judge.
Answered == CountIn(events, Judged("cost_budget")) + Cardinality(AtGuard)

\* A guard that acts, and a limit.
Limited == CostLimit \in Nat /\ Decide("cost_budget") # "observe"

OvershootInv == cost <= CostLimit + MaxCost * Answered

\* Multiplying by a number of calls.
LEMMA CallsCost ==
    ASSUME NEW a \in Nat, NEW m \in Nat
    PROVE  /\ a * m \in Nat
           /\ a * (m + 1) = a * m + a
           /\ \A n \in Nat : m <= n => a * m <= a * n
  OBVIOUS

\* Which calls are at the guard changes in ToolRecord and ToolGuard only.
LEMMA AtGuardSteps ==
    ASSUME TypeOK, [Next]_vars,
           \A c \in Callers : ~ToolRecord(c) /\ ~ToolGuard(c)
    PROVE  AtGuard' = AtGuard /\ cost' = cost
  <1>1. ASSUME NEW c \in Callers, NEW label, label # "guard", pc[c] # "guard",
               pc' = [pc EXCEPT ![c] = label]
        PROVE  AtGuard' = AtGuard
    BY <1>1 DEF AtGuard, TypeOK
  <1>2. ASSUME NEW c \in Callers, ToolStep(c)  PROVE AtGuard' = AtGuard /\ cost' = cost
    <2>1. /\ pc[c] # "guard" /\ cost' = cost
          /\ \E label \in Labels \ {"guard"} : pc' = [pc EXCEPT ![c] = label]
      BY <1>2 DEF ToolStep, ToolCheck, ToolBlocked, ToolLookup, ToolServe, ToolRaise,
                  ToolGetRaises, ToolPutRaises, ToolReturn, Begin, Interrupted, Return,
                  Goto, Labels
    <2>2. QED  BY <1>1, <2>1
  <1>3. ASSUME NEW c \in Callers, ModelStep(c) \/ RetryStep(c)
        PROVE  AtGuard' = AtGuard /\ cost' = cost
    <2>1. /\ pc[c] # "guard" /\ pc'[c] # "guard" /\ cost' = cost
          /\ pc' = [pc EXCEPT ![c] = pc'[c]]
      BY <1>3, OtherCalls
    <2> DEFINE label == pc'[c]
    <2> HIDE DEF label
    <2>2. /\ pc[c] # "guard" /\ label # "guard" /\ cost' = cost
          /\ pc' = [pc EXCEPT ![c] = label]
      BY <2>1 DEF label
    <2>3. QED  BY <1>1, <2>2
  <1>4. ASSUME UNCHANGED <<pc, cost>>  PROVE AtGuard' = AtGuard /\ cost' = cost
    BY <1>4 DEF AtGuard
  <1>5. QED
    BY <1>2, <1>3, <1>4 DEF Next, StartRun, FinishRun, CacheForget, OtherRunStores, vars

\* Every charge beyond the limit finds a call at the guard, and every call that
\* leaves the guard beyond the limit leaves an intervention behind.
LEMMA OvershootStep ==
    ASSUME TypeOK, Limited, OvershootInv, [Next]_vars
    PROVE  OvershootInv'
  <1> USE RunAssumption, PolicyAssumption
  <1> DEFINE n == CountIn(events, Judged("cost_budget"))
             m == CountIn(events', Judged("cost_budget"))
  <1>0. /\ "cost_budget" \in PolicyIds
        /\ "cost_budget" # "duplicate_tool_protection" /\ "cost_budget" # "retry_budget"
    BY DEF PolicyIds
  <1>1. /\ cost \in Nat /\ CostLimit \in Nat /\ MaxCost \in Nat /\ n \in Nat /\ m \in Nat
        /\ AtGuard \in SUBSET Callers /\ AtGuard' \in SUBSET Callers
        /\ IsFiniteSet(AtGuard)
        /\ Cardinality(AtGuard) \in Nat /\ Cardinality(AtGuard') \in Nat
    <2>1. events \in Seq(Event) /\ events' \in Seq(Event)
      BY TypeStep DEF TypeOK
    <2>2. AtGuard \in SUBSET Callers /\ AtGuard' \in SUBSET Callers
      BY DEF AtGuard
    <2>3. QED  BY <2>1, <2>2, CountType, CallerSets DEF TypeOK, Limited
  <1>2. Answered = n + Cardinality(AtGuard) /\ Answered' = m + Cardinality(AtGuard')
    BY DEF Answered, CountIn, Judged
  <1>3. cost <= CostLimit + MaxCost * Answered
    BY DEF OvershootInv
  <1>4. SUFFICES cost' <= CostLimit + MaxCost * Answered'
    BY DEF OvershootInv
  <1> HIDE DEF n, m
  <1>5. Answered \in Nat /\ Answered' \in Nat
    BY <1>1, <1>2
  <1>6. MaxCost * Answered \in Nat /\ MaxCost * Answered' \in Nat
    BY <1>1, <1>5, CallsCost
  <1>7. ASSUME cost' = cost, Answered <= Answered'
        PROVE  cost' <= CostLimit + MaxCost * Answered'
    <2>1. MaxCost * Answered <= MaxCost * Answered'
      BY <1>1, <1>5, <1>7, CallsCost
    <2>2. QED  BY <1>1, <1>3, <1>6, <1>7, <2>1
  <1>8. ASSUME NEW c \in Callers, ToolRecord(c)
        PROVE  cost' <= CostLimit + MaxCost * Answered'
    <2> DEFINE r == frame[c].req
    <2>1. r.cost \in Nat /\ r.cost <= MaxCost
      BY <1>8, ToolFrame, RequestType DEF ToolRecord
    <2>2. /\ pc[c] = "record" /\ pc' = [pc EXCEPT ![c] = "guard"] /\ cost' = cost + r.cost
          /\ events' = events
      BY <1>8 DEF ToolRecord, Goto, Charge
    <2>3. AtGuard' = AtGuard \cup {c} /\ c \notin AtGuard
      BY <2>2 DEF AtGuard, TypeOK
    <2>4. Cardinality(AtGuard') = Cardinality(AtGuard) + 1
      BY <1>1, <2>3, FS_AddElement
    <2>5. Answered' = Answered + 1
      BY <1>1, <1>2, <2>2, <2>4 DEF n, m
    <2>6. MaxCost * Answered' = MaxCost * Answered + MaxCost
      BY <1>1, <1>5, <2>5, CallsCost
    <2> HIDE DEF r
    <2>7. QED  BY <1>1, <1>3, <1>6, <2>1, <2>2, <2>6
  <1>9. ASSUME NEW c \in Callers, ToolGuard(c)
        PROVE  cost' <= CostLimit + MaxCost * Answered'
    <2>1. cost' = cost
      BY <1>9 DEF ToolGuard
    <2>2. CASE ~CostExceeded
      <3>1. cost' <= CostLimit
        BY <1>1, <2>1, <2>2 DEF CostExceeded, Limited
      <3>2. QED  BY <1>1, <1>6, <2>1, <3>1
    <2>3. CASE CostExceeded
      <3>1. m = n + 1
        BY <1>0, <1>9, <2>3, ToolGuardCounts DEF Limited, n, m
      <3>2. pc[c] = "guard" /\ \A d \in Callers \ {c} : pc'[d] = pc[d]
        BY <1>9 DEF ToolGuard, Goto, TypeOK
      <3>3. c \in AtGuard /\ AtGuard \ {c} \subseteq AtGuard'
        BY <3>2 DEF AtGuard
      <3>4. Cardinality(AtGuard \ {c}) = Cardinality(AtGuard) - 1
        BY <1>1, <3>3, FS_RemoveElement
      <3>5. Cardinality(AtGuard \ {c}) <= Cardinality(AtGuard')
        BY <1>1, <3>3, CallerSets
      <3>6. Answered <= Answered'
        BY <1>1, <1>2, <3>1, <3>4, <3>5
      <3>7. QED  BY <1>7, <2>1, <3>6
    <2>4. QED  BY <2>2, <2>3
  <1>10. CASE \A c \in Callers : ~ToolRecord(c) /\ ~ToolGuard(c)
    <2>1. AtGuard' = AtGuard /\ cost' = cost
      BY <1>10, AtGuardSteps
    <2>2. m = n
      <3>1. CASE \E c \in Callers : ToolBlocked(c)
        <4>1. m = n + 0
          BY <1>0, <3>1, BlockedCounts DEF n, m
        <4>2. QED  BY <1>1, <4>1
      <3>2. CASE \E c \in Callers : RetryGuard(c)
        BY <1>0, <3>2, RetryGuardCounts DEF n, m
      <3>3. CASE \A c \in Callers : ~ToolBlocked(c) /\ ~RetryGuard(c)
        BY <1>10, <3>3, OtherCounts DEF n, m
      <3>4. QED  BY <3>1, <3>2, <3>3
    <2>3. QED  BY <1>1, <1>2, <1>7, <2>1, <2>2
  <1>11. QED  BY <1>8, <1>9, <1>10

\* Whenever the enforced cost budget has an action, the charged total exceeds the
\* limit by at most one call for each intervention it recorded and for each call
\* still at the guard, although tool() consults the guard only after the call it
\* charges, and whether or not the application carries on after a StopRun.
THEOREM OvershootIsBounded == Spec => []OvershootBounded
  <1>1. Init => (Limited => OvershootInv)
    <2> SUFFICES ASSUME Init, Limited  PROVE OvershootInv
      OBVIOUS
    <2>1. /\ cost = 0 /\ CountIn(events, Judged("cost_budget")) \in Nat
          /\ Cardinality(AtGuard) \in Nat
      BY InitType, CountType, CallerSets DEF Init, AtGuard, TypeOK
    <2>2. Answered \in Nat
      BY <2>1 DEF Answered
    <2>3. MaxCost * Answered \in Nat
      BY <2>2, RunAssumption, CallsCost
    <2>4. QED  BY <2>1, <2>3 DEF OvershootInv, Limited
  <1>2. TypeOK /\ (Limited => OvershootInv) /\ [Next]_vars => (Limited => OvershootInv)'
    BY OvershootStep DEF Limited, Decide
  <1>3. TypeOK /\ (Limited => OvershootInv) => OvershootBounded
    BY InterventionsCounted, RunAssumption
       DEF Limited, OvershootInv, Answered, OvershootBounded
  <1>4. QED  BY <1>1, <1>2, <1>3, InitType, TypeStep, PTL DEF Spec

-----------------------------------------------------------------------------
(* Retries.                                                                *)

Alone == \A c, d \in Callers : c = d

Interrupts == Decide("retry_budget") \in {"stop", "pause"}

Scheduling(t) == \E c \in Callers : pc[c] = "retry_guard" /\ frame[c].tool = t

\* With one caller the counter of a tool is ahead of the trace by the retry
\* that is at the guard, and what the guard has let through is within the limit.
RetryInv ==
    \A t \in Tools :
        /\ CountIn(events, Scheduled(t)) <= RetryLimit
        /\ CountIn(events, Scheduled(t)) + (IF Scheduling(t) THEN 1 ELSE 0) <= retries[t]
        /\ \A c \in Callers :
               pc[c] = "retry_inc" /\ frame[c].tool = t => frame[c].count = retries[t]

\* RetryInv of the next state, tool by tool.
LEMMA RetryShape ==
    ASSUME \A t \in Tools :
               /\ CountIn(events', Scheduled(t)) <= RetryLimit
               /\ CountIn(events', Scheduled(t))
                      + (IF Scheduling(t)' THEN 1 ELSE 0) <= retries'[t]
               /\ \A c \in Callers :
                      pc'[c] = "retry_inc" /\ frame'[c].tool = t =>
                          frame'[c].count = retries'[t]
    PROVE  RetryInv'
  BY DEF RetryInv, Scheduled

\* A step that schedules nothing, and leaves the counters and every caller in
\* the middle of a retry alone.
LEMMA RetryCounts ==
    ASSUME TypeOK, RetryInv, retries' = retries,
           \A t \in Tools : CountIn(events', Scheduled(t)) = CountIn(events, Scheduled(t)),
           \A c \in Callers :
               \/ pc'[c] \notin {"retry_inc", "retry_guard"}
               \/ pc'[c] = pc[c] /\ frame'[c] = frame[c]
    PROVE  RetryInv'
  <1> SUFFICES ASSUME NEW t \in Tools
               PROVE  /\ CountIn(events', Scheduled(t)) <= RetryLimit
                      /\ CountIn(events', Scheduled(t))
                             + (IF Scheduling(t)' THEN 1 ELSE 0) <= retries'[t]
                      /\ \A c \in Callers :
                             pc'[c] = "retry_inc" /\ frame'[c].tool = t =>
                                 frame'[c].count = retries'[t]
    BY DEF RetryInv, Scheduled
  <1>1. CountIn(events', Scheduled(t)) = CountIn(events, Scheduled(t))
    OBVIOUS
  <1>2. CountIn(events, Scheduled(t)) \in Nat /\ retries[t] \in Nat
    BY CountType DEF TypeOK
  <1>3. Scheduling(t)' => Scheduling(t)
    BY DEF Scheduling
  <1>4. QED  BY <1>1, <1>2, <1>3 DEF RetryInv

\* With one caller no step lets a retry through that the limit forbids.
LEMMA RetryInvStep ==
    ASSUME TypeOK, RetryInv, [Next]_vars, Alone, Interrupts
    PROVE  RetryInv'
  <1> USE RunAssumption, PolicyAssumption
  <1>0. events \in Seq(Event)
    BY DEF TypeOK
  <1>1. ASSUME NEW c \in Callers, NEW label, NEW f, label \notin {"retry_inc", "retry_guard"},
               pc' = [pc EXCEPT ![c] = label], \/ frame' = [frame EXCEPT ![c] = f]
                                               \/ frame' = frame
        PROVE  \A d \in Callers :
                   \/ pc'[d] \notin {"retry_inc", "retry_guard"}
                   \/ pc'[d] = pc[d] /\ frame'[d] = frame[d]
    BY <1>1 DEF TypeOK
  <1>2. ASSUME NEW c \in Callers, ToolBlocked(c)  PROVE RetryInv'
    <2> DEFINE r == frame[c].req
               d == ToolEvent("tool.requested", r, "none", TRUE, 0)
               e == ToolEvent("tool.completed", r, "blocked", TRUE, 0)
               log == events \o Intervention("duplicate_tool_protection", "block", r.tool)
    <2>1. r \in Requests /\ r \in Request /\ r.tool \in Tools
      BY <1>2, ToolFrame, RequestType DEF ToolBlocked
    <2>2. "duplicate_tool_protection" \in PolicyIds /\ "block" \in Actions
      BY DEF PolicyIds, Actions
    <2>3. /\ log \in Seq(Event)
          /\ \A t \in Tools : CountIn(log, Scheduled(t)) = CountIn(events, Scheduled(t))
      BY <1>0, <2>1, <2>2, InterventionCounts
    <2>4. d \in Event /\ d.type = "tool.requested" /\ e \in Event /\ e.type = "tool.completed"
      <3>1. d \in Event /\ e \in Event
        BY <2>1, ToolEventType DEF EventTypes, Statuses
      <3>2. QED  BY <3>1 DEF ToolEvent, Plain
    <2>5. /\ pc' = [pc EXCEPT ![c] = "idle"] /\ frame' = [frame EXCEPT ![c] = NoFrame]
          /\ retries' = retries /\ events' = log \o << d, e >>
      BY <1>2 DEF ToolBlocked, Return, Goto
    <2> HIDE DEF d, e, log
    <2>6. ASSUME NEW t \in Tools
          PROVE  CountIn(log \o << d, e >>, Scheduled(t)) = CountIn(events, Scheduled(t))
      <3>1. d \notin Scheduled(t) /\ e \notin Scheduled(t)
        BY <2>4 DEF Scheduled
      <3>2. CountIn(log \o << d, e >>, Scheduled(t)) = CountIn(log, Scheduled(t)) + 0 + 0
        BY <2>3, <2>4, <3>1, CountPair
      <3>3. CountIn(events, Scheduled(t)) \in Nat
        BY <1>0, CountType
      <3>4. QED  BY <2>3, <3>2, <3>3
    <2>7. \A t \in Tools : CountIn(events', Scheduled(t)) = CountIn(events, Scheduled(t))
      BY <2>5, <2>6
    <2>8. \A b \in Callers : \/ pc'[b] \notin {"retry_inc", "retry_guard"}
                             \/ pc'[b] = pc[b] /\ frame'[b] = frame[b]
      BY <1>1, <2>5
    <2>9. QED  BY <2>5, <2>7, <2>8, RetryCounts
  <1>3. ASSUME NEW c \in Callers, ToolGuard(c)  PROVE RetryInv'
    <2> DEFINE r == frame[c].req
               action == IF CostExceeded THEN Decide("cost_budget") ELSE "observe"
               label == Continue(action, "idle")
    <2>1. r.tool \in Tools /\ "cost_budget" \in PolicyIds
      BY <1>3, ToolFrame, RequestType DEF ToolGuard, PolicyIds
    <2>2. action \in Actions \cup {"observe"}
      BY <2>1, GuardAction DEF CostExceeded
    <2>3. label \notin {"retry_inc", "retry_guard"}
      BY DEF Continue
    <2>4. /\ events' = events \o Emitted("cost_budget", action, r.tool)
          /\ pc' = [pc EXCEPT ![c] = label] /\ frame' = [frame EXCEPT ![c] = NoFrame]
          /\ retries' = retries
      BY <1>3 DEF ToolGuard, Goto
    <2> HIDE DEF action, label
    <2>5. \A t \in Tools : CountIn(events', Scheduled(t)) = CountIn(events, Scheduled(t))
      <3> HIDE DEF r
      <3>1. QED  BY <1>0, <2>1, <2>2, <2>4, EmittedCounts
    <2>6. \A b \in Callers : \/ pc'[b] \notin {"retry_inc", "retry_guard"}
                             \/ pc'[b] = pc[b] /\ frame'[b] = frame[b]
      BY <1>1, <2>3, <2>4
    <2>7. QED  BY <2>4, <2>5, <2>6, RetryCounts
  <1>4. ASSUME NEW c \in Callers, NEW t \in Tools, RetryRead(c, t)  PROVE RetryInv'
    <2>1. /\ pc' = [pc EXCEPT ![c] = "retry_inc"]
          /\ frame' = [frame EXCEPT ![c] = [tool |-> t, count |-> retries[t]]]
          /\ UNCHANGED <<events, retries>>
      BY <1>4 DEF RetryRead, Goto
    <2>2. ASSUME NEW u \in Tools
          PROVE  /\ Scheduling(u)' => Scheduling(u)
                 /\ \A d \in Callers : pc'[d] = "retry_inc" /\ frame'[d].tool = u =>
                        frame'[d].count = retries'[u]
      BY <2>1 DEF Scheduling, TypeOK, Alone
    <2>3. \A u \in Tools : CountIn(events, Scheduled(u)) \in Nat /\ retries[u] \in Nat
      BY <1>0, CountType DEF TypeOK
    <2>4. ASSUME NEW u \in Tools
          PROVE  /\ CountIn(events', Scheduled(u)) <= RetryLimit
                 /\ CountIn(events', Scheduled(u))
                        + (IF Scheduling(u)' THEN 1 ELSE 0) <= retries'[u]
      <3>1. /\ CountIn(events, Scheduled(u)) <= RetryLimit
            /\ CountIn(events, Scheduled(u))
                   + (IF Scheduling(u) THEN 1 ELSE 0) <= retries[u]
        BY DEF RetryInv
      <3>2. CountIn(events', Scheduled(u)) = CountIn(events, Scheduled(u)) /\ retries' = retries
        BY <2>1
      <3>3. QED  BY <2>2, <2>3, <3>1, <3>2
    <2>5. QED  BY <2>2, <2>4, RetryShape
  <1>5. ASSUME NEW c \in Callers, RetryStore(c)  PROVE RetryInv'
    <2> DEFINE t == frame[c].tool
    <2>1. t \in Tools /\ frame[c].count \in Nat /\ pc[c] = "retry_inc"
      BY <1>5 DEF RetryStore, TypeOK, FrameOK, RetryFrame
    <2>2. /\ pc' = [pc EXCEPT ![c] = "retry_guard"]
          /\ retries' = [retries EXCEPT ![t] = frame[c].count + 1]
          /\ UNCHANGED <<events, frame>>
      BY <1>5 DEF RetryStore, Goto, Increment
    <2>3. frame[c].count = retries[t]
      BY <2>1 DEF RetryInv
    <2>4. ASSUME NEW u \in Tools
          PROVE  /\ CountIn(events, Scheduled(u)) <= RetryLimit
                 /\ CountIn(events, Scheduled(u))
                        + (IF Scheduling(u)' THEN 1 ELSE 0) <= retries'[u]
      <3>1. CountIn(events, Scheduled(u)) \in Nat /\ retries[u] \in Nat
        BY <1>0, CountType DEF TypeOK
      <3>2. /\ CountIn(events, Scheduled(u)) <= RetryLimit
            /\ CountIn(events, Scheduled(u)) <= retries[u]
        BY <3>1 DEF RetryInv
      <3>3. CASE u = t
        <4>1. retries'[u] = retries[u] + 1
          BY <2>1, <2>2, <2>3, <3>3 DEF TypeOK
        <4>2. QED  BY <3>1, <3>2, <4>1
      <3>4. CASE u # t
        <4>1. retries'[u] = retries[u]
          BY <2>2, <3>4 DEF TypeOK
        <4>2. ~Scheduling(u)'
          BY <2>2, <3>4 DEF Scheduling, Alone
        <4>3. QED  BY <3>1, <3>2, <4>1, <4>2
      <3>5. QED  BY <3>3, <3>4
    <2>5. \A d \in Callers : pc'[d] # "retry_inc"
      BY <2>2 DEF TypeOK, Alone
    <2>6. QED  BY <2>2, <2>4, <2>5 DEF RetryInv, CountIn, Scheduled
  <1>6. ASSUME NEW c \in Callers, RetryGuard(c)  PROVE RetryInv'
    <2> DEFINE t == frame[c].tool
               action == IF RetriesExhausted(t) THEN Decide("retry_budget") ELSE "observe"
               label == Continue(action, "idle")
               log == events \o Emitted("retry_budget", action, t)
               d == Plain("retry.scheduled", t, "none")
               e == Plain("retry.completed", t, "none")
    <2>1. t \in Tools /\ "retry_budget" \in PolicyIds /\ pc[c] = "retry_guard"
      BY <1>6 DEF RetryGuard, TypeOK, FrameOK, RetryFrame, PolicyIds
    <2>2. action \in Actions \cup {"observe"}
      BY <2>1, GuardAction DEF RetriesExhausted
    <2>3. /\ label \in {"idle", "stopped", "paused"}
          /\ label = "idle" <=> ~RetriesExhausted(t)
      BY DEF Continue, Interrupts
    <2>4. /\ pc' = [pc EXCEPT ![c] = label] /\ retries' = retries
          /\ events' = log \o (IF label = "idle" THEN << d, e >> ELSE << >>)
      BY <1>6 DEF RetryGuard, Goto
    <2>5. /\ d \in Event /\ d.type = "retry.scheduled" /\ d.tool = t
          /\ e \in Event /\ e.type = "retry.completed"
      <3>1. d \in Event /\ e \in Event
        BY <2>1, PlainType DEF EventTypes, Statuses
      <3>2. QED  BY <3>1 DEF Plain
    <2>6. /\ log \in Seq(Event)
          /\ \A u \in Tools : CountIn(log, Scheduled(u)) = CountIn(events, Scheduled(u))
      <3> DEFINE p == "retry_budget"
      <3>1. p \in PolicyIds /\ t \in Tools
        BY <2>1
      <3> HIDE DEF action, t, p, log
      <3>2. LET more == events \o Emitted(p, action, t)
            IN  /\ more \in Seq(Event)
                /\ \A u \in Tools :
                       CountIn(more, Scheduled(u)) = CountIn(events, Scheduled(u))
        BY <1>0, <2>2, <3>1, EmittedCounts
      <3>3. QED  BY <3>2 DEF log, p
    <2> HIDE DEF action, label, log, d, e
    <2>7. \A b \in Callers : pc'[b] \notin {"retry_inc", "retry_guard"}
      BY <2>3, <2>4 DEF TypeOK, Alone
    <2>8. ASSUME NEW u \in Tools
          PROVE  CountIn(events', Scheduled(u)) <= RetryLimit
                   /\ CountIn(events', Scheduled(u)) <= retries[u]
      <3>1. CountIn(events, Scheduled(u)) \in Nat /\ retries[u] \in Nat /\ RetryLimit \in Nat
        BY <1>0, CountType DEF TypeOK
      <3>2. /\ CountIn(events, Scheduled(u)) <= RetryLimit
            /\ CountIn(events, Scheduled(u)) + (IF u = t THEN 1 ELSE 0) <= retries[u]
        BY <2>1, <3>1 DEF RetryInv, Scheduling
      <3>3. CASE label # "idle"
        <4>1. events' = log
          BY <2>4, <2>6, <3>3, SameNone
        <4>2. QED  BY <2>6, <3>1, <3>2, <4>1
      <3>4. CASE label = "idle"
        <4> DEFINE more == log \o << d, e >>
        <4>1. events' = more
          BY <2>4, <3>4
        <4>2. e \notin Scheduled(u) /\ (d \in Scheduled(u) <=> u = t)
          BY <2>5 DEF Scheduled
        <4>3. CountIn(more, Scheduled(u)) =
                  CountIn(log, Scheduled(u)) + (IF u = t THEN 1 ELSE 0) + 0
          BY <2>5, <2>6, <4>2, CountPair
        <4> HIDE DEF more
        <4>4. u = t => retries[u] <= RetryLimit
          BY <2>3, <3>1, <3>4 DEF RetriesExhausted
        <4>5. CountIn(more, Scheduled(u)) =
                  CountIn(events, Scheduled(u)) + IF u = t THEN 1 ELSE 0
          BY <2>6, <3>1, <4>3
        <4>6. /\ CountIn(more, Scheduled(u)) <= RetryLimit
              /\ CountIn(more, Scheduled(u)) <= retries[u]
          BY <3>1, <3>2, <4>4, <4>5
        <4>7. QED  BY <4>1, <4>6
      <3>5. QED  BY <3>3, <3>4
    <2>9. \A u \in Tools : ~Scheduling(u)'
      BY <2>7 DEF Scheduling
    <2>10. events' \in Seq(Event)
      BY TypeStep DEF TypeOK
    <2>11. \A u \in Tools : CountIn(events', Scheduled(u)) \in Nat
      BY <2>10, CountType
    <2>12. ASSUME NEW u \in Tools
           PROVE  /\ CountIn(events', Scheduled(u)) <= RetryLimit
                  /\ CountIn(events', Scheduled(u))
                         + (IF Scheduling(u)' THEN 1 ELSE 0) <= retries'[u]
                  /\ \A b \in Callers : pc'[b] = "retry_inc" /\ frame'[b].tool = u =>
                         frame'[b].count = retries'[u]
      <3>1. retries' = retries
        BY <2>4
      <3>2. CountIn(events', Scheduled(u)) + (IF Scheduling(u)' THEN 1 ELSE 0)
                = CountIn(events', Scheduled(u))
        BY <2>9, <2>11
      <3>3. QED  BY <2>7, <2>8, <3>1, <3>2
    <2>13. QED  BY <2>12, RetryShape
  <1>7. CASE /\ \A c \in Callers : ~ToolBlocked(c) /\ ~ToolGuard(c) /\ ~RetryGuard(c)
             /\ \A c \in Callers : ~RetryStore(c) /\ \A t \in Tools : ~RetryRead(c, t)
    <2>1. \A t \in Tools : Scheduled(t) \cap Silent = {} /\ Scheduled(t) \cap Lasting = {}
      BY CountedApart
    <2>2. retries' = retries
               /\ \A c \in Callers : \/ pc'[c] \notin {"retry_inc", "retry_guard"}
                                     \/ pc'[c] = pc[c] /\ frame'[c] = frame[c]
      <3>1. ASSUME NEW c \in Callers,
                   \/ \E r \in ToolRequests : ToolCheck(c, r)
                   \/ ToolLookup(c) \/ ToolServe(c) \/ ToolRaise(c) \/ ToolGetRaises(c)
                   \/ ToolPutRaises(c) \/ ToolReturn(c) \/ ToolRecord(c)
            PROVE  /\ retries' = retries
                   /\ pc'[c] \notin {"retry_inc", "retry_guard"}
                   /\ \A d \in Callers \ {c} : pc'[d] = pc[d] /\ frame'[d] = frame[d]
        <4>1. retries' = retries
          BY <3>1 DEF ToolCheck, ToolLookup, ToolServe, ToolRaise, ToolGetRaises,
                      ToolPutRaises, ToolReturn, ToolRecord
        <4>2. \E l \in Labels \ {"retry_inc", "retry_guard"} : Goto(c, l)
          BY <3>1 DEF ToolCheck, ToolLookup, ToolServe, ToolRaise, ToolGetRaises,
                      ToolPutRaises, ToolReturn, ToolRecord, Return, Labels
        <4>3. frame' = frame \/ \E f : frame' = [frame EXCEPT ![c] = f]
          <5>1. ToolLookup(c) => \E f : frame' = [frame EXCEPT ![c] = f]
            <6>1. ASSUME NEW a, NEW b, frame' = [frame EXCEPT ![c].hit = a, ![c].match = b]
                  PROVE  frame' = [frame EXCEPT ![c] = frame'[c]]
              BY <6>1 DEF TypeOK
            <6>2. QED  BY <6>1 DEF ToolLookup
          <5>2. QED
            BY <3>1, <5>1 DEF ToolCheck, ToolServe, ToolRaise, ToolGetRaises,
                              ToolPutRaises, ToolReturn, ToolRecord, Return
        <4>4. pc \in [Callers -> Labels] /\ DOMAIN frame = Callers
          BY DEF TypeOK
        <4>5. QED  BY <4>1, <4>2, <4>3, <4>4 DEF Goto
      <3>2. ASSUME NEW c \in Callers, ModelStep(c)
            PROVE  /\ retries' = retries
                   /\ pc'[c] \notin {"retry_inc", "retry_guard"}
                   /\ \A d \in Callers \ {c} : pc'[d] = pc[d] /\ frame'[d] = frame[d]
        BY <3>2 DEF ModelStep, ModelLookup, ModelGetRaises, ModelServe, ModelPutRaises,
                    ModelReturn, ModelRaise, Begin, Interrupted, Return, Goto, TypeOK
      <3>3. QED
        BY <1>7, <3>1, <3>2
           DEF Next, ToolStep, RetryStep, StartRun, FinishRun, CacheForget,
               OtherRunStores, vars
    <2>3. \A t \in Tools : CountIn(events', Scheduled(t)) = CountIn(events, Scheduled(t))
      BY <1>7, <2>1, QuietSteps
    <2>4. QED  BY <2>2, <2>3, RetryCounts
  <1>8. QED  BY <1>2, <1>3, <1>4, <1>5, <1>6, <1>7

\* When one caller has the Supervisor to itself and the retry budget interrupts,
\* no tool is retried more often than the limit says.
THEOREM RetriesAreBounded ==
    ASSUME Alone
    PROVE  Spec => []RetriesBounded
  <1>1. CASE ~Interrupts
    <2>1. RetriesBounded
      BY <1>1 DEF RetriesBounded, Interrupts
    <2>2. QED  BY <2>1, PTL
  <1>2. CASE Interrupts
    <2>1. Init => RetryInv
      <3> SUFFICES ASSUME Init  PROVE RetryInv
        OBVIOUS
      <3>1. events = << >> /\ \A c \in Callers : pc[c] = "idle"
        BY DEF Init
      <3>2. \A E : CountIn(events, E) = 0
        <4>1. \A E : {i \in DOMAIN events : events[i] \in E} = {}
          BY <3>1
        <4>2. QED  BY <4>1, FS_EmptySet DEF CountIn
      <3>3. \A t \in Tools : retries[t] = 0 /\ ~Scheduling(t)
        BY <3>1 DEF Init, Scheduling
      <3>4. \A t \in Tools : CountIn(events, Scheduled(t)) = 0
        BY <3>2
      <3>5. RetryLimit \in Nat
        BY RunAssumption
      <3>6. ASSUME NEW t \in Tools
            PROVE  /\ CountIn(events, Scheduled(t)) <= RetryLimit
                   /\ CountIn(events, Scheduled(t))
                          + (IF Scheduling(t) THEN 1 ELSE 0) <= retries[t]
        <4>1. CountIn(events, Scheduled(t)) = 0 /\ retries[t] = 0
          BY <3>3, <3>4
        <4>2. (IF Scheduling(t) THEN 1 ELSE 0) = 0
          BY <3>3
        <4>3. QED  BY <3>5, <4>1, <4>2
      <3>7. \A c \in Callers : pc[c] # "retry_inc"
        BY <3>1
      <3>8. QED  BY <3>6, <3>7 DEF RetryInv
    <2>2. TypeOK /\ RetryInv => RetriesBounded
      <3> SUFFICES ASSUME TypeOK, RetryInv, NEW t \in Tools
                   PROVE  Cardinality({i \in Positions("retry.scheduled") : events[i].tool = t})
                              <= RetryLimit
        BY DEF RetriesBounded
      <3>1. events \in Seq(Event) /\ \A i \in DOMAIN events : events[i] \in Event
        BY DEF TypeOK
      <3>2. {i \in Positions("retry.scheduled") : events[i].tool = t}
                = {i \in DOMAIN events : events[i] \in Scheduled(t)}
        BY <3>1 DEF Positions, Scheduled
      <3>3. QED  BY <3>2 DEF RetryInv, CountIn
    <2>3. TypeOK /\ RetryInv /\ [Next]_vars => RetryInv'
      BY <1>2, RetryInvStep
    <2>4. QED  BY <2>1, <2>2, <2>3, InitType, TypeStep, PTL DEF Spec
  <1>3. QED  BY <1>1, <1>2

-----------------------------------------------------------------------------
(* Repetitions.                                                            *)

\* A completion in the trace is remembered, or its caller is about to remember
\* it, and no one is past the duplicate check with a key that is remembered.
Recording(k) ==
    \E c \in Callers : /\ pc[c] = "record"
                       /\ Remembers(frame[c].req)
                       /\ Key(frame[c].req) = k

RepeatInv ==
    /\ \A c \in Callers : pc[c] # "serve"
    /\ \A k \in Keys : k \in seenOk \/ Recording(k) \/ CountIn(events, Done(k)) = 0
    /\ \A c \in Callers :
           DedupOn /\ pc[c] = "lookup" /\ Keyed(frame[c].req) => Key(frame[c].req) \notin seenOk

\* The successful completions of a key grow in ToolReturn only, and only for a
\* call that is about to be remembered.
LEMMA DoneGrows ==
    ASSUME TypeOK, [Next]_vars, \A c \in Callers : pc[c] # "serve", NEW k \in Keys
    PROVE  \/ CountIn(events', Done(k)) = CountIn(events, Done(k))
           \/ Recording(k)'
  <1> USE RunAssumption, PolicyAssumption
  <1> DEFINE Same == CountIn(events', Done(k)) = CountIn(events, Done(k))
  <1>0. /\ events \in Seq(Event) /\ events' \in Seq(Event)
        /\ Done(k) \subseteq Event /\ Done(k) \cap Silent = {}
        /\ \A e \in Silent : e \in Event \ Done(k)
    BY TypeStep, CountedApart DEF TypeOK, Done, Silent
  <1>1. ASSUME NEW c \in Callers, ToolBlocked(c)  PROVE Same
    <2> DEFINE r == frame[c].req
               d == ToolEvent("tool.requested", r, "none", TRUE, 0)
               e == ToolEvent("tool.completed", r, "blocked", TRUE, 0)
               log == events \o Intervention("duplicate_tool_protection", "block", r.tool)
    <2>1. r \in Requests /\ r \in Request /\ r.tool \in Tools
      BY <1>1, ToolFrame, RequestType DEF ToolBlocked
    <2>2. "duplicate_tool_protection" \in PolicyIds /\ "block" \in Actions
      BY DEF PolicyIds, Actions
    <2>3. /\ log \in Seq(Event)
          /\ CountIn(log, Done(k)) = CountIn(events, Done(k))
      BY <1>0, <2>1, <2>2, InterventionCounts
    <2>4. d \in Event /\ d.type = "tool.requested" /\ e \in Event /\ e.status = "blocked"
      <3>1. d \in Event /\ e \in Event
        BY <2>1, ToolEventType DEF EventTypes, Statuses
      <3>2. QED  BY <3>1 DEF ToolEvent, Plain
    <2>5. events' = log \o << d, e >>
      BY <1>1 DEF ToolBlocked
    <2> HIDE DEF d, e, log
    <2>6. d \in Event \ Done(k) /\ e \in Event \ Done(k)
      BY <2>4 DEF Done
    <2>7. QED  BY <2>3, <2>5, <2>6, SameTwo
  <1>2. ASSUME NEW c \in Callers, ToolGuard(c)  PROVE Same
    <2> DEFINE r == frame[c].req
               action == IF CostExceeded THEN Decide("cost_budget") ELSE "observe"
    <2>1. r.tool \in Tools /\ "cost_budget" \in PolicyIds
      BY <1>2, ToolFrame, RequestType DEF ToolGuard, PolicyIds
    <2>2. action \in Actions \cup {"observe"}
      BY <2>1, GuardAction DEF CostExceeded
    <2>3. events' = events \o Emitted("cost_budget", action, r.tool)
      BY <1>2 DEF ToolGuard
    <2> HIDE DEF action, r
    <2>4. QED  BY <1>0, <2>1, <2>2, <2>3, EmittedCounts
  <1>3. ASSUME NEW c \in Callers, RetryGuard(c)  PROVE Same
    <2> DEFINE t == frame[c].tool
               action == IF RetriesExhausted(t) THEN Decide("retry_budget") ELSE "observe"
               log == events \o Emitted("retry_budget", action, t)
               d == Plain("retry.scheduled", t, "none")
               e == Plain("retry.completed", t, "none")
    <2>1. t \in Tools /\ "retry_budget" \in PolicyIds
      BY <1>3 DEF RetryGuard, TypeOK, FrameOK, RetryFrame, PolicyIds
    <2>2. action \in Actions \cup {"observe"}
      BY <2>1, GuardAction DEF RetriesExhausted
    <2>3. events' = log \o << d, e >> \/ events' = log \o << >>
      BY <1>3 DEF RetryGuard
    <2>4. d \in Event \ Done(k) /\ e \in Event \ Done(k)
      <3>1. d \in Event /\ e \in Event
        BY <2>1, PlainType DEF EventTypes, Statuses
      <3>2. d.type = "retry.scheduled" /\ e.type = "retry.completed"
        BY <3>1 DEF Plain
      <3> HIDE DEF d, e
      <3>3. QED  BY <3>1, <3>2 DEF Done
    <2>5. log \in Seq(Event) /\ CountIn(log, Done(k)) = CountIn(events, Done(k))
      <3> HIDE DEF action
      <3>1. QED  BY <1>0, <2>1, <2>2, EmittedCounts
    <2> HIDE DEF log, d, e
    <2>6. CountIn(log \o << d, e >>, Done(k)) = CountIn(log, Done(k)) /\ log \o << >> = log
      BY <2>4, <2>5, SameTwo, SameNone
    <2>7. QED  BY <2>3, <2>5, <2>6
  <1>4. ASSUME NEW c \in Callers, ToolReturn(c)  PROVE Same \/ Recording(k)'
    <2> DEFINE r == frame[c].req
               status == IF r.failed THEN "error" ELSE "ok"
               rec == Plain("optimization.recommended", r.tool, "none")
               done == ToolEvent("tool.completed", r, status, frame[c].dup, r.cost)
    <2>1. /\ r \in Requests /\ r \in Request /\ frame[c].dup \in BOOLEAN
          /\ r.tool \in Tools /\ r.cost \in Nat
      BY <1>4, ToolFrame, RequestType DEF ToolReturn
    <2>2. status \in Statuses
      BY DEF Statuses
    <2>3. \/ events' = (events \o << rec >>) \o << done >>
          \/ events' = (events \o << >>) \o << done >>
      BY <1>4 DEF ToolReturn
    <2>4. rec \in Event \ Done(k)
      BY <1>0, <2>1, PlainSilent DEF Statuses, EventTypes
    <2>5. /\ done \in Event /\ done.status = status
          /\ done.tool = r.tool /\ done.hash = r.hash
      <3> HIDE DEF status
      <3>1. QED  BY <2>1, <2>2, CallEvents
    <2>6. CASE Remembers(r) /\ Key(r) = k
      BY <1>4, <2>6 DEF ToolReturn, Goto, Recording, TypeOK
    <2>7. CASE ~(Remembers(r) /\ Key(r) = k)
      <3>1. done.status = "ok" => ~r.failed
        BY <2>5
      <3>2. k \in Tools \X Hashes /\ NoHash \notin Hashes
        BY DEF Keys, PolicyAssumption
      <3>3. <<r.tool, r.hash>> = k => r.hash # NoHash
        BY <3>2
      <3> HIDE DEF done, status, r
      <3>4. done \in Event \ Done(k)
        BY <2>5, <2>7, <3>1, <3>3 DEF Done, Remembers, Keyed, Key
      <3> HIDE DEF rec
      <3>5. /\ (events \o << rec >>) \o << done >> = events \o << rec, done >>
            /\ events \o << >> = events
        BY <1>0, <2>4, <3>4, PairConcat, SameNone
      <3>6. /\ CountIn(events \o << rec, done >>, Done(k)) = CountIn(events, Done(k))
            /\ CountIn(events \o << done >>, Done(k)) = CountIn(events, Done(k))
        BY <1>0, <2>4, <3>4, SameOne, SameTwo
      <3>7. QED  BY <2>3, <3>5, <3>6
    <2>8. QED  BY <2>6, <2>7
  <1>5. CASE \A c \in Callers : ~ToolBlocked(c) /\ ~ToolGuard(c) /\ ~RetryGuard(c)
                                /\ ~ToolReturn(c)
    <2>1. \A c \in Callers : ~ToolServe(c)
      BY DEF ToolServe
    <2>2. QED  BY <1>0, <1>5, <2>1, QuietSteps
  <1>6. QED  BY <1>1, <1>2, <1>3, <1>4, <1>5

\* Who is recording, what is remembered and who is past the check.
LEMMA RepeatControl ==
    ASSUME TypeOK, RepeatInv, [Next]_vars, Alone, Optimize # "active"
    PROVE  /\ \A c \in Callers : pc'[c] # "serve"
           /\ seenOk \subseteq seenOk'
           /\ \A k \in Keys : Recording(k) => Recording(k)' \/ k \in seenOk'
           /\ \A c \in Callers :
                  DedupOn /\ pc'[c] = "lookup" /\ Keyed(frame'[c].req)
                      => Key(frame'[c].req) \notin seenOk'
  <1> DEFINE Goal ==
           /\ \A c \in Callers : pc'[c] # "serve"
           /\ seenOk \subseteq seenOk'
           /\ \A k \in Keys : Recording(k) => Recording(k)' \/ k \in seenOk'
           /\ \A c \in Callers :
                  DedupOn /\ pc'[c] = "lookup" /\ Keyed(frame'[c].req)
                      => Key(frame'[c].req) \notin seenOk'
  <1>1. ASSUME NEW c \in Callers, pc[c] # "record", seenOk' = seenOk,
               pc'[c] \notin {"serve", "lookup"},
               \A d \in Callers \ {c} : pc'[d] = pc[d] /\ frame'[d] = frame[d]
        PROVE  Goal
    <2>1. \A k \in Keys : Recording(k) => Recording(k)'
      BY <1>1 DEF Recording
    <2>2. QED  BY <1>1, <2>1 DEF RepeatInv
  <1>2. ASSUME pc' = pc, frame' = frame, seenOk' = seenOk  PROVE Goal
    BY <1>2 DEF RepeatInv, Recording
  <1>3. ASSUME NEW c \in Callers, NEW r \in ToolRequests, ToolCheck(c, r)  PROVE Goal
    <2>1. /\ pc[c] \in {"idle", "stopped", "paused"} /\ seenOk' = seenOk /\ frame'[c].req = r
          /\ \A d \in Callers : d = c
          /\ pc'[c] \in {"blocked", "lookup"}
          /\ pc'[c] = "lookup" /\ DedupOn => ~PriorOk(r)
      BY <1>3 DEF ToolCheck, Begin, Interrupted, Goto, DedupOn, TypeOK, Alone
    <2>2. \A k \in Keys : ~Recording(k)
      BY <2>1 DEF Recording
    <2>3. QED  BY <2>1, <2>2 DEF PriorOk
  <1>4. ASSUME NEW c \in Callers, ToolRecord(c)  PROVE Goal
    <2>1. /\ pc[c] = "record" /\ pc'[c] = "guard"
          /\ \A d \in Callers : d = c
          /\ seenOk' = IF Remembers(frame[c].req) THEN seenOk \cup {Key(frame[c].req)}
                                                  ELSE seenOk
      BY <1>4 DEF ToolRecord, Goto, TypeOK, Alone
    <2>2. \A k \in Keys : Recording(k) => k \in seenOk'
      BY <2>1 DEF Recording
    <2>3. seenOk \subseteq seenOk' /\ \A d \in Callers : pc'[d] = "guard"
      BY <2>1
    <2>4. QED  BY <2>2, <2>3
  <1>5. ASSUME NEW c \in Callers,
               \/ ToolBlocked(c) \/ ToolLookup(c) \/ ToolServe(c) \/ ToolRaise(c)
               \/ ToolGetRaises(c) \/ ToolPutRaises(c) \/ ToolReturn(c) \/ ToolGuard(c)
        PROVE  Goal
    <2>1. /\ pc[c] # "record" /\ seenOk' = seenOk
          /\ pc'[c] \notin {"serve", "lookup"}
          /\ \A d \in Callers \ {c} : pc'[d] = pc[d] /\ frame'[d] = frame[d]
      BY <1>5 DEF ToolBlocked, ToolLookup, ToolServe, ToolRaise, ToolGetRaises,
                  ToolPutRaises, ToolReturn, ToolGuard, Return, Goto, Continue, TypeOK
    <2>2. QED  BY <1>1, <2>1
  <1>6. ASSUME NEW c \in Callers, ModelStep(c) \/ RetryStep(c)  PROVE Goal
    <2>1. /\ pc[c] # "record" /\ seenOk' = seenOk
          /\ pc'[c] \notin {"serve", "lookup"}
          /\ \A d \in Callers \ {c} : pc'[d] = pc[d] /\ frame'[d] = frame[d]
      BY <1>6 DEF ModelStep, ModelLookup, ModelGetRaises, ModelServe, ModelPutRaises,
                  ModelReturn, ModelRaise, RetryStep, RetryRead, RetryStore, RetryGuard,
                  Begin, Interrupted, Return, Goto, Continue, TypeOK
    <2>2. QED  BY <1>1, <2>1
  <1>7. CASE \/ StartRun \/ \E status \in {"ok", "error"} : FinishRun(status)
             \/ \E k \in CacheKeys : CacheForget(k)
             \/ \E k \in CacheKeys, r \in Requests : OtherRunStores(k, r)
             \/ UNCHANGED vars
    BY <1>2, <1>7 DEF StartRun, FinishRun, CacheForget, OtherRunStores, vars
  <1>8. QED  BY <1>3, <1>4, <1>5, <1>6, <1>7 DEF Next, ToolStep

\* Every step keeps the invariant behind RepeatsNeverRun.
LEMMA RepeatInvStep ==
    ASSUME TypeOK, RepeatInv, [Next]_vars, Alone, Optimize # "active"
    PROVE  RepeatInv'
  <1>1. \A c \in Callers : pc[c] # "serve"
    BY DEF RepeatInv
  <1>2. ASSUME NEW k \in Keys
        PROVE  k \in seenOk' \/ Recording(k)' \/ CountIn(events', Done(k)) = 0
    BY <1>1, DoneGrows, RepeatControl DEF RepeatInv
  <1>3. QED  BY <1>2, RepeatControl DEF RepeatInv, CountIn, Done

\* When one caller has the Supervisor to itself and nothing is served from the
\* optimization cache, a call that succeeded is never started again.
THEOREM RepeatsAreBlocked ==
    ASSUME Alone, Optimize # "active"
    PROVE  Spec => RepeatsNeverRun
  <1>1. Init => RepeatInv
    <2> SUFFICES ASSUME Init  PROVE RepeatInv
      OBVIOUS
    <2>1. events = << >> /\ \A c \in Callers : pc[c] = "idle"
      BY DEF Init
    <2>2. \A E : {i \in DOMAIN events : events[i] \in E} = {}
      BY <2>1
    <2>3. \A E : CountIn(events, E) = 0
      BY <2>2, FS_EmptySet DEF CountIn
    <2>4. \A k \in Keys : CountIn(events, Done(k)) = 0
      BY <2>3
    <2>5. QED  BY <2>1, <2>4 DEF RepeatInv
  <1>2. TypeOK /\ RepeatInv /\ [Next]_vars
            => [DedupOn =>
                   \A c \in Callers :
                       /\ pc[c] = "lookup"
                       /\ pc'[c] = "execute"
                       /\ Keyed(frame[c].req)
                       => ~ \E i \in Positions("tool.completed") :
                               /\ events[i].status = "ok"
                               /\ <<events[i].tool, events[i].hash>> = Key(frame[c].req)]_vars
    <2> SUFFICES ASSUME TypeOK, RepeatInv, DedupOn, NEW c \in Callers,
                        pc[c] = "lookup", Keyed(frame[c].req),
                        NEW i \in Positions("tool.completed"),
                        events[i].status = "ok",
                        <<events[i].tool, events[i].hash>> = Key(frame[c].req)
                 PROVE  FALSE
      OBVIOUS
    <2> DEFINE k == Key(frame[c].req)
               here == {j \in DOMAIN events : events[j] \in Done(k)}
    <2>1. k \in Keys /\ k \notin seenOk
      BY ToolFrame, RequestType DEF RepeatInv
    <2>2. ~Recording(k)
      BY DEF Recording, Alone
    <2>3. events \in Seq(Event) /\ i \in DOMAIN events /\ events[i].type = "tool.completed"
      BY DEF TypeOK, Positions
    <2>4. i \in here
      BY <2>3 DEF Done
    <2>5. CountIn(events, Done(k)) = Cardinality(here) /\ IsFiniteSet(here)
      BY <2>3, CountType DEF CountIn
    <2> HIDE DEF here
    <2>6. Cardinality(here) # 0
      BY <2>4, <2>5, FS_EmptySet
    <2>7. QED  BY <2>1, <2>2, <2>5, <2>6 DEF RepeatInv
  <1>3. TypeOK /\ RepeatInv /\ [Next]_vars => RepeatInv'
    BY RepeatInvStep
  <1>4. QED  BY <1>1, <1>2, <1>3, InitType, TypeStep, PTL DEF Spec, RepeatsNeverRun

-----------------------------------------------------------------------------
(* Counting and adding up a log that grows.                                *)

\* Where the log has an event of E, and what these events cost.
At(log, E) == {i \in DOMAIN log : log[i] \in E}
SumIn(log, E) == CostOf(log, At(log, E))

\* long is log with more events, all of them in E.
Grows(log, long, E) ==
    /\ long \in Seq(Event)
    /\ Len(log) <= Len(long)
    /\ \A i \in 1 .. Len(log) : long[i] = log[i]
    /\ \A i \in Len(log) + 1 .. Len(long) : long[i] \in E

\* The events of a log are finitely many and cost a number.
LEMMA LogCosts ==
    ASSUME NEW log \in Seq(Event), NEW E
    PROVE  /\ Costs(log, DOMAIN log) /\ Costs(log, At(log, E))
           /\ CostOf(log, DOMAIN log) \in Nat /\ SumIn(log, E) \in Nat
  <1>1. DOMAIN log = 1 .. Len(log) /\ Len(log) \in Nat
    OBVIOUS
  <1>2. IsFiniteSet(DOMAIN log)
    BY <1>1, FS_Interval
  <1>3. \A i \in DOMAIN log : log[i].cost \in Nat
    <2>1. \A e \in Event : e.cost \in Nat
      BY DEF Event
    <2>2. \A i \in DOMAIN log : log[i] \in Event
      OBVIOUS
    <2>3. QED  BY <2>1, <2>2
  <1>4. Costs(log, DOMAIN log)
    BY <1>2, <1>3 DEF Costs
  <1>5. At(log, E) \in SUBSET DOMAIN log
    BY DEF At
  <1>6. Costs(log, At(log, E))
    BY <1>4, <1>5, CostsBelow
  <1>7. QED  BY <1>4, <1>6, CostOfType DEF SumIn

\* A log grows by nothing ...
LEMMA GrowsNone ==
    ASSUME NEW log \in Seq(Event), NEW E
    PROVE  Grows(log, log, E)
  <1>1. Len(log) \in Nat
    OBVIOUS
  <1>2. \A i \in Len(log) + 1 .. Len(log) : FALSE
    BY <1>1
  <1>3. QED  BY <1>1, <1>2 DEF Grows

\* ... and by one more event ...
LEMMA GrowsOne ==
    ASSUME NEW log \in Seq(Event), NEW mid, NEW E, Grows(log, mid, E),
           NEW e \in Event, e \in E
    PROVE  Grows(log, mid \o << e >>, E)
  <1> DEFINE long == mid \o << e >>
             n == Len(log)
             m == Len(mid)
  <1>1. mid \in Seq(Event) /\ n \in Nat /\ m \in Nat /\ n <= m
    BY DEF Grows
  <1>2. long \in Seq(Event) /\ Len(long) = m + 1 /\ long[m + 1] = e
        /\ \A i \in 1 .. m : long[i] = mid[i]
    BY <1>1
  <1>3. /\ \A i \in 1 .. n : mid[i] = log[i]
        /\ \A i \in n + 1 .. m : mid[i] \in E
    BY DEF Grows
  <1> HIDE DEF long, n, m
  <1>4. \A i \in 1 .. n : long[i] = log[i]
    BY <1>1, <1>2, <1>3
  <1>5. \A i \in n + 1 .. m + 1 : long[i] \in E
    BY <1>1, <1>2, <1>3
  <1>6. n <= Len(long)
    BY <1>1, <1>2
  <1>7. QED
    <2>1. Grows(log, long, E)
      BY <1>2, <1>4, <1>5, <1>6 DEF Grows, n
    <2>2. QED  BY <2>1 DEF long

\* ... or two.
LEMMA GrowsTwo ==
    ASSUME NEW log \in Seq(Event), NEW mid, NEW E, Grows(log, mid, E),
           NEW d \in Event, d \in E, NEW e \in Event, e \in E
    PROVE  Grows(log, mid \o << d, e >>, E)
  <1>1. mid \in Seq(Event)
    BY DEF Grows
  <1>2. Grows(log, mid \o << d >>, E)
    BY GrowsOne
  <1>3. Grows(log, (mid \o << d >>) \o << e >>, E)
    BY <1>2, GrowsOne
  <1>4. QED  BY <1>1, <1>3, PairConcat

\* What grows by events of a smaller set grows by those of a larger.
LEMMA GrowsMore ==
    ASSUME NEW log \in Seq(Event), NEW long, NEW D, NEW E, Grows(log, long, D), D \subseteq E
    PROVE  Grows(log, long, E)
  BY DEF Grows

\* One growth after another.
LEMMA GrowsTrans ==
    ASSUME NEW log \in Seq(Event), NEW mid \in Seq(Event), NEW long, NEW E,
           Grows(log, mid, E), Grows(mid, long, E)
    PROVE  Grows(log, long, E)
  <1>1. Len(log) \in Nat /\ Len(mid) \in Nat /\ Len(long) \in Nat /\ long \in Seq(Event)
    BY DEF Grows
  <1>2. Len(log) <= Len(mid) /\ Len(mid) <= Len(long)
    BY DEF Grows
  <1>3. \A i \in 1 .. Len(log) : long[i] = log[i]
    BY <1>1, <1>2 DEF Grows
  <1>4. ASSUME NEW i \in Len(log) + 1 .. Len(long)  PROVE long[i] \in E
    <2>1. CASE i \in Len(log) + 1 .. Len(mid)
      <3>1. i \in 1 .. Len(mid)
        BY <1>1, <2>1
      <3>2. QED  BY <2>1, <3>1 DEF Grows
    <2>2. CASE i \in Len(mid) + 1 .. Len(long)
      BY <2>2 DEF Grows
    <2>3. QED  BY <1>1, <2>1, <2>2
  <1>5. QED  BY <1>1, <1>2, <1>3, <1>4 DEF Grows

\* Events that are not asked about leave counts and sums alone.
LEMMA GrowsApart ==
    ASSUME NEW log \in Seq(Event), NEW long, NEW D, NEW E, Grows(log, long, D), D \cap E = {}
    PROVE  /\ long \in Seq(Event)
           /\ At(long, E) = At(log, E)
           /\ CountIn(long, E) = CountIn(log, E)
           /\ SumIn(long, E) = SumIn(log, E)
  <1>1. /\ long \in Seq(Event) /\ Len(log) \in Nat /\ Len(long) \in Nat
        /\ DOMAIN log = 1 .. Len(log) /\ DOMAIN long = 1 .. Len(long)
        /\ Len(log) <= Len(long)
        /\ \A i \in 1 .. Len(log) : long[i] = log[i]
        /\ \A i \in Len(log) + 1 .. Len(long) : long[i] \notin E
    BY DEF Grows
  <1>2. \A i : i \in At(long, E) <=> i \in At(log, E)
    <2> SUFFICES ASSUME NEW i  PROVE i \in At(long, E) <=> i \in At(log, E)
      OBVIOUS
    <2>1. CASE i \in 1 .. Len(log)
      BY <1>1, <2>1 DEF At
    <2>2. CASE i \notin 1 .. Len(log)
      BY <1>1, <2>2 DEF At
    <2>3. QED  BY <2>1, <2>2
  <1>3. At(long, E) = At(log, E)
    BY <1>2
  <1>4. CountIn(long, E) = CountIn(log, E)
    BY <1>3 DEF At, CountIn
  <1>5. IsFiniteSet(At(log, E)) /\ \A i \in At(log, E) : long[i].cost = log[i].cost
    BY <1>1, LogCosts DEF At, Costs
  <1>6. SumIn(long, E) = SumIn(log, E)
    BY <1>3, <1>5, CostOfSame DEF SumIn
  <1>7. QED  BY <1>1, <1>3, <1>4, <1>6

\* One more event adds its cost.
LEMMA SumAppend ==
    ASSUME NEW log \in Seq(Event), NEW e \in Event, NEW E
    PROVE  SumIn(log \o << e >>, E) = SumIn(log, E) + IF e \in E THEN e.cost ELSE 0
  <1> DEFINE n == Len(log)
             long == log \o << e >>
  <1>1. /\ long \in Seq(Event) /\ n \in Nat
        /\ DOMAIN long = 1 .. n + 1 /\ DOMAIN log = 1 .. n
        /\ \A i \in 1 .. n : long[i] = log[i]
        /\ long[n + 1] = e
    OBVIOUS
  <1> HIDE DEF long, n
  <1>2. /\ IsFiniteSet(At(log, E)) /\ Costs(long, At(long, E)) /\ SumIn(log, E) \in Nat
        /\ n + 1 \notin At(log, E)
    <2>1. IsFiniteSet(At(log, E)) /\ Costs(long, At(long, E)) /\ SumIn(log, E) \in Nat
      BY <1>1, LogCosts DEF Costs
    <2>2. n + 1 \notin At(log, E)
      BY <1>1 DEF At
    <2>3. QED  BY <2>1, <2>2
  <1>3. CostOf(long, At(log, E)) = SumIn(log, E)
    <2>1. \A i \in At(log, E) : long[i].cost = log[i].cost
      BY <1>1 DEF At
    <2>2. QED  BY <1>2, <2>1, CostOfSame DEF SumIn
  <1>4. CASE e \in E
    <2>1. At(long, E) = At(log, E) \cup {n + 1}
      BY <1>1, <1>4 DEF At
    <2>2. CostOf(long, At(long, E)) = CostOf(long, At(log, E)) + long[n + 1].cost
      BY <1>2, <2>1, CostOfWith
    <2>3. QED  BY <1>1, <1>3, <1>4, <2>2 DEF SumIn, long
  <1>5. CASE e \notin E
    <2>1. At(long, E) = At(log, E)
      BY <1>1, <1>5 DEF At
    <2>2. SumIn(long, E) = SumIn(log, E)
      BY <1>3, <2>1 DEF SumIn
    <2>3. QED  BY <1>2, <1>5, <2>2 DEF long
  <1>6. QED  BY <1>4, <1>5

-----------------------------------------------------------------------------
(* What the events of a run say.                                           *)

ToolDone   == {e \in Event : e.type = "tool.completed"}
Triggers   == {e \in Event : e.type = "policy.triggered"}
Applications == {e \in Event : e.type = "intervention.applied"}
AppliedBy(p) == {e \in Applications : e.policy = p}

\* The application calls k with duplicate=True.
MarkedCall(k) == \E r \in ToolRequests : r.marked /\ Key(r) = k

\* With deduplication enforced, why a completion of the call k counts as a
\* duplicate: it was blocked, or else the application marked the call.
Explained(dup, status, k) ==
    /\ status = "blocked" => dup
    /\ dup => status = "blocked" \/ MarkedCall(k)

\* What holds of each event: completions name a tool and alone cost anything,
\* with deduplication enforced the duplicates are explained, and an applied
\* intervention carries the action of its policy.
Entry ==
    {e \in Event :
        /\ e.type \in {"tool.completed", "model.completed"} => e.tool \in Tools
        /\ e.type \notin {"tool.completed", "model.completed"} => e.cost = 0
        /\ e.type = "tool.completed" /\ DedupOn =>
               Explained(e.dup, e.status, <<e.tool, e.hash>>)
        /\ e.type = "intervention.applied" =>
               e.policy \in PolicyIds /\ e.action = Decide(e.policy) /\ e.action # "observe"}

\* The entries that are neither completions of tools nor about a policy.
Passing == Entry \ (ToolDone \cup Triggers \cup Applications)

\* Most plain events pass ...
LEMMA PlainPasses ==
    ASSUME NEW type \in EventTypes \ {"tool.completed", "model.completed",
                                      "policy.triggered", "intervention.applied"},
           NEW tool \in Tools \cup {NoTool}, NEW status \in Statuses
    PROVE  Plain(type, tool, status) \in Passing
  <1>1. Plain(type, tool, status) \in Event
    BY PlainType
  <1>2. Plain(type, tool, status).type = type /\ Plain(type, tool, status).cost = 0
    BY DEF Plain
  <1>3. QED  BY <1>1, <1>2 DEF Passing, Entry, ToolDone, Triggers, Applications

\* ... and so do the completion of a model and the request of a tool.
LEMMA ModelPasses ==
    ASSUME NEW tool \in Tools, NEW amount \in Nat
    PROVE  /\ Plain("model.completed", tool, "ok") \in Passing
           /\ [Plain("model.completed", tool, "ok") EXCEPT !.cost = amount] \in Passing
  <1> DEFINE d == Plain("model.completed", tool, "ok")
             e == [d EXCEPT !.cost = amount]
  <1>1. d \in Event /\ d.type = "model.completed" /\ d.tool = tool
    BY PlainType DEF EventTypes, Statuses, Plain
  <1> HIDE DEF d
  <1>2. e \in Event /\ e.type = "model.completed" /\ e.tool = tool
    BY <1>1 DEF Event
  <1> HIDE DEF e
  <1>3. d \in Passing /\ e \in Passing
    BY <1>1, <1>2 DEF Passing, Entry, ToolDone, Triggers, Applications
  <1>4. QED  BY <1>3 DEF d, e

\* ... and the request of a tool.
LEMMA RequestPasses ==
    ASSUME NEW r \in Requests, NEW dup \in BOOLEAN
    PROVE  ToolEvent("tool.requested", r, "none", dup, 0) \in Passing
  <1>1. ToolEvent("tool.requested", r, "none", dup, 0) \in Event
    BY RequestType, ToolEventType DEF EventTypes, Statuses
  <1>2. /\ ToolEvent("tool.requested", r, "none", dup, 0).type = "tool.requested"
        /\ ToolEvent("tool.requested", r, "none", dup, 0).cost = 0
    BY DEF ToolEvent, Plain
  <1>3. QED  BY <1>1, <1>2 DEF Passing, Entry, ToolDone, Triggers, Applications

\* The completion of a tool.
LEMMA CompletionEntry ==
    ASSUME NEW r \in Requests, NEW status \in Statuses, NEW dup \in BOOLEAN,
           NEW amount \in Nat, DedupOn => Explained(dup, status, Key(r))
    PROVE  LET e == ToolEvent("tool.completed", r, status, dup, amount)
           IN  /\ e \in Entry /\ e \in ToolDone /\ e.status = status /\ e.cost = amount
               /\ e.tool = r.tool /\ e.hash = r.hash
  <1> DEFINE e == ToolEvent("tool.completed", r, status, dup, amount)
  <1>1. e \in Event /\ r.tool \in Tools
    BY RequestType, ToolEventType DEF EventTypes
  <1>2. /\ e.type = "tool.completed" /\ e.status = status /\ e.cost = amount
        /\ e.tool = r.tool /\ e.hash = r.hash /\ e.dup = dup
    BY DEF ToolEvent, Plain
  <1> HIDE DEF e
  <1>3. DedupOn => Explained(e.dup, e.status, <<e.tool, e.hash>>)
    BY <1>2 DEF Key
  <1>4. e \in Entry /\ e \in ToolDone
    BY <1>1, <1>2, <1>3 DEF Entry, ToolDone
  <1>5. QED  BY <1>2, <1>4 DEF e

\* The two records of an intervention.
LEMMA InterventionEntries ==
    ASSUME NEW p \in PolicyIds, Decide(p) # "observe", NEW tool \in Tools
    PROVE  \E t \in Entry, a \in Entry :
               /\ Intervention(p, Decide(p), tool) = << t, a >>
               /\ t \in Triggers /\ a \in AppliedBy(p) /\ a.action = Decide(p)
  <1> DEFINE action == Decide(p)
             t == [Plain("policy.triggered", tool, "none")
                     EXCEPT !.policy = p, !.action = action]
             a == [Plain("intervention.applied", tool, "none")
                     EXCEPT !.policy = p, !.action = action]
  <1>1. action \in Actions /\ action # "observe"
    BY DecideType
  <1> HIDE DEF action
  <1>2. /\ t \in Event /\ t.type = "policy.triggered" /\ t.cost = 0
        /\ a \in Event /\ a.type = "intervention.applied" /\ a.cost = 0
        /\ a.policy = p /\ a.action = action
    BY <1>1 DEF Plain, Event, EventTypes, Statuses
  <1>3. Intervention(p, action, tool) = << t, a >>
    BY DEF Intervention
  <1> HIDE DEF t, a
  <1>4. t \in Entry /\ t \in Triggers
    BY <1>2 DEF Entry, Triggers
  <1>5. a \in Entry /\ a \in AppliedBy(p)
    BY <1>1, <1>2 DEF Entry, AppliedBy, Applications, action
  <1>6. QED  BY <1>2, <1>3, <1>4, <1>5 DEF action

\* What a guard adds: nothing, or the two records of its policy.
LEMMA GuardEntries ==
    ASSUME NEW log \in Seq(Event), NEW p \in PolicyIds, NEW tool \in Tools,
           NEW exceeded \in BOOLEAN
    PROVE  LET action == IF exceeded THEN Decide(p) ELSE "observe"
               more == log \o Emitted(p, action, tool)
           IN  \/ more = log
               \/ exceeded /\ \E t \in Entry, a \in Entry :
                      /\ more = log \o << t, a >>
                      /\ t \in Triggers /\ a \in AppliedBy(p)
  <1> DEFINE action == IF exceeded THEN Decide(p) ELSE "observe"
             more == log \o Emitted(p, action, tool)
  <1>1. CASE action = "observe"
    <2>1. more = log
      BY <1>1, SameNone DEF Emitted
    <2>2. QED  BY <2>1
  <1>2. CASE action # "observe"
    <2>1. exceeded /\ action = Decide(p) /\ Decide(p) # "observe"
      BY <1>2
    <2>2. PICK t \in Entry, a \in Entry :
               /\ Intervention(p, Decide(p), tool) = << t, a >>
               /\ t \in Triggers /\ a \in AppliedBy(p)
      BY <2>1, InterventionEntries
    <2>3. more = log \o << t, a >>
      BY <2>1, <2>2 DEF Emitted
    <2>4. QED  BY <2>1, <2>2, <2>3
  <1>3. QED  BY <1>1, <1>2

-----------------------------------------------------------------------------
(* What each step adds to the log.                                         *)

\* A caller past the duplicate check is no duplicate while the check blocks
\* them, unless the application marked the call, and a blocked caller repeats a
\* remembered success.
CheckedCallers ==
    \A c \in Callers :
        /\ DedupOn /\ pc[c] \in {"lookup", "serve", "execute"} /\ frame[c].dup =>
               frame[c].req.marked
        /\ pc[c] = "blocked" => DedupOn /\ Key(frame[c].req) \in seenOk

\* log with passing events and then the completion e.
Completes(log, long, e) ==
    \E mid \in Seq(Event) : Grows(log, mid, Passing) /\ long = mid \o << e >>

\* A completion after one event that passes, or none.
LEMMA CompletesOne ==
    ASSUME NEW log \in Seq(Event), NEW d \in Passing, NEW e \in Entry, NEW long,
           \/ long = (log \o << d >>) \o << e >>
           \/ long = (log \o << >>) \o << e >>
    PROVE  Completes(log, long, e)
  <1>1. d \in Event /\ Grows(log, log, Passing)
    BY GrowsNone DEF Passing, Entry
  <1>2. log \o << >> = log
    BY SameNone
  <1>3. Grows(log, log \o << d >>, Passing)
    BY <1>1, GrowsOne
  <1>4. log \o << d >> \in Seq(Event)
    BY <1>3 DEF Grows
  <1>5. QED  BY <1>1, <1>2, <1>3, <1>4 DEF Completes

\* A result served from the optimization cache completes at no cost.
LEMMA ServeAdds ==
    ASSUME TypeOK, CheckedCallers, NEW c \in Callers, ToolServe(c)
    PROVE  \E e \in Entry : /\ e \in ToolDone /\ e.cost = 0 /\ e.status # "blocked"
                            /\ Completes(events, events', e)
  <1> DEFINE r == frame[c].req
             d == Plain("optimization.applied", r.tool, "none")
             e == ToolEvent("tool.completed", r, "ok", frame[c].dup, ServedCost(r))
  <1>1. r \in Requests /\ frame[c].dup \in BOOLEAN /\ r.tool \in Tools
    BY ToolFrame, RequestType DEF ToolServe
  <1>2. d \in Passing
    BY <1>1, PlainPasses DEF Statuses, EventTypes
  <1>3. DedupOn => Explained(frame[c].dup, "ok", Key(r))
    BY <1>1, ToolFrame DEF CheckedCallers, ToolServe, Explained, MarkedCall
  <1>4. e \in Entry /\ e \in ToolDone /\ e.cost = 0 /\ e.status # "blocked"
    <2>1. "ok" \in Statuses /\ 0 \in Nat
      BY DEF Statuses
    <2> HIDE DEF r
    <2>2. QED  BY <1>1, <1>3, <2>1, CompletionEntry DEF ServedCost
  <1>5. events' = events \o << d, e >> /\ events \in Seq(Event)
    BY DEF ToolServe, TypeOK
  <1> HIDE DEF d, e
  <1>6. d \in Event /\ e \in Event
    BY <1>2, <1>4 DEF Passing, Entry
  <1>7. events' = (events \o << d >>) \o << e >>
    BY <1>5, <1>6, PairConcat
  <1>8. QED  BY <1>2, <1>4, <1>5, <1>7, CompletesOne

\* A call that ran completes at its own cost, and a success that is going to be
\* remembered is in the trace first.
LEMMA ReturnAdds ==
    ASSUME TypeOK, CheckedCallers, NEW c \in Callers, ToolReturn(c)
    PROVE  \E e \in Entry : /\ e \in ToolDone /\ e.cost = frame[c].req.cost
                            /\ e.status # "blocked"
                            /\ Remembers(frame[c].req) => e \in Done(Key(frame[c].req))
                            /\ Completes(events, events', e)
  <1> DEFINE r == frame[c].req
             status == IF r.failed THEN "error" ELSE "ok"
             d == Plain("optimization.recommended", r.tool, "none")
             e == ToolEvent("tool.completed", r, status, frame[c].dup, r.cost)
  <1>1. r \in Requests /\ frame[c].dup \in BOOLEAN /\ r.tool \in Tools /\ r.cost \in Nat
    BY ToolFrame, RequestType DEF ToolReturn
  <1>2. d \in Passing
    BY <1>1, PlainPasses DEF Statuses, EventTypes
  <1>3. status \in Statuses /\ status # "blocked" /\ (~r.failed => status = "ok")
    BY DEF Statuses
  <1>4. DedupOn => Explained(frame[c].dup, status, Key(r))
    BY <1>3, ToolFrame DEF CheckedCallers, ToolReturn, Explained, MarkedCall
  <1>5. \/ events' = (events \o << d >>) \o << e >>
        \/ events' = (events \o << >>) \o << e >>
    BY DEF ToolReturn
  <1> HIDE DEF status
  <1>6. /\ e \in Entry /\ e \in ToolDone /\ e.status = status /\ e.cost = r.cost
        /\ e.tool = r.tool /\ e.hash = r.hash
    <2> HIDE DEF r
    <2>1. QED  BY <1>1, <1>3, <1>4, CompletionEntry
  <1> HIDE DEF d, e
  <1>7. Remembers(r) => e \in Done(Key(r))
    BY <1>3, <1>6 DEF Remembers, Done, Key, ToolDone
  <1>8. events \in Seq(Event)
    BY DEF TypeOK
  <1>9. Completes(events, events', e)
    BY <1>2, <1>5, <1>6, <1>8, CompletesOne
  <1>10. QED  BY <1>3, <1>6, <1>7, <1>9

\* A deduplicated call is recorded as an intervention, a request and a blocked
\* completion.
LEMMA BlockedAdds ==
    ASSUME TypeOK, CheckedCallers, NEW c \in Callers, ToolBlocked(c)
    PROVE  \E t \in Entry, a \in Entry, q \in Passing, d \in Entry :
               /\ events' = (events \o << t, a >>) \o << q, d >>
               /\ t \in Triggers /\ a \in AppliedBy("duplicate_tool_protection")
               /\ d \in ToolDone /\ d.cost = 0 /\ d.status = "blocked"
               /\ <<d.tool, d.hash>> = Key(frame[c].req)
  <1> DEFINE r == frame[c].req
             p == "duplicate_tool_protection"
             q == ToolEvent("tool.requested", r, "none", TRUE, 0)
             d == ToolEvent("tool.completed", r, "blocked", TRUE, 0)
  <1>1. r \in Requests /\ r.tool \in Tools /\ p \in PolicyIds
    BY ToolFrame, RequestType DEF ToolBlocked, PolicyIds
  <1>2. Decide(p) = "block"
    BY DEF CheckedCallers, ToolBlocked, DedupOn
  <1>3. PICK t \in Entry, a \in Entry : /\ Intervention(p, "block", r.tool) = << t, a >>
                                        /\ t \in Triggers /\ a \in AppliedBy(p)
    <2> HIDE DEF p, r
    <2>1. Decide(p) # "observe"
      BY <1>2
    <2>2. QED  BY <1>1, <1>2, <2>1, InterventionEntries
  <1>4. q \in Passing
    <2> HIDE DEF r
    <2>1. QED  BY <1>1, RequestPasses
  <1>5. /\ d \in Entry /\ d \in ToolDone /\ d.status = "blocked" /\ d.cost = 0
        /\ d.tool = r.tool /\ d.hash = r.hash
    <2>1. "blocked" \in Statuses /\ TRUE \in BOOLEAN /\ 0 \in Nat
      BY DEF Statuses
    <2>2. ASSUME NEW dup \in BOOLEAN, dup
          PROVE  LET e == ToolEvent("tool.completed", r, "blocked", dup, 0)
                 IN  /\ e \in Entry /\ e \in ToolDone /\ e.status = "blocked"
                     /\ e.cost = 0 /\ e.tool = r.tool /\ e.hash = r.hash
      <3> HIDE DEF r
      <3>1. DedupOn => Explained(dup, "blocked", Key(r))
        BY <2>2 DEF Explained
      <3>2. QED  BY <1>1, <2>1, <3>1, CompletionEntry
    <2>3. QED  BY <2>1, <2>2
  <1>6. events' = (events \o << t, a >>) \o << q, d >>
    BY <1>3 DEF ToolBlocked
  <1> HIDE DEF q, d
  <1>7. <<d.tool, d.hash>> = Key(r)
    BY <1>5 DEF Key
  <1>8. QED  BY <1>3, <1>4, <1>5, <1>6, <1>7

\* The cost guard adds nothing, or its two records once the limit is exceeded.
LEMMA CostGuardAdds ==
    ASSUME TypeOK, NEW c \in Callers, ToolGuard(c)
    PROVE  \/ events' = events
           \/ CostExceeded /\ \E t \in Entry, a \in Entry :
                  /\ events' = events \o << t, a >>
                  /\ t \in Triggers /\ a \in AppliedBy("cost_budget")
  <1> DEFINE tool == frame[c].req.tool
             action == IF CostExceeded THEN Decide("cost_budget") ELSE "observe"
  <1>1. tool \in Tools /\ "cost_budget" \in PolicyIds /\ events \in Seq(Event)
    BY ToolFrame, RequestType DEF ToolGuard, PolicyIds, TypeOK
  <1>2. events' = events \o Emitted("cost_budget", action, tool)
    BY DEF ToolGuard
  <1>3. CostExceeded \in BOOLEAN
    BY DEF CostExceeded
  <1> HIDE DEF tool
  <1>4. QED  BY <1>1, <1>2, <1>3, GuardEntries

\* The retry guard adds nothing or its two records, and then what passes.
LEMMA RetryGuardAdds ==
    ASSUME TypeOK, NEW c \in Callers, RetryGuard(c)
    PROVE  \E mid \in Seq(Event) :
               /\ \/ mid = events
                  \/ \E t \in Entry, a \in Entry :
                        /\ mid = events \o << t, a >>
                        /\ t \in Triggers /\ a \in AppliedBy("retry_budget")
               /\ Grows(mid, events', Passing)
  <1> DEFINE tool == frame[c].tool
             action == IF RetriesExhausted(tool) THEN Decide("retry_budget") ELSE "observe"
             mid == events \o Emitted("retry_budget", action, tool)
             d == Plain("retry.scheduled", tool, "none")
             e == Plain("retry.completed", tool, "none")
  <1>1. tool \in Tools /\ "retry_budget" \in PolicyIds /\ events \in Seq(Event)
    BY DEF RetryGuard, TypeOK, FrameOK, RetryFrame, PolicyIds
  <1>2. events' = mid \o << d, e >> \/ events' = mid \o << >>
    BY DEF RetryGuard
  <1>3. d \in Passing /\ e \in Passing
    BY <1>1, PlainPasses DEF Statuses, EventTypes
  <1>4. RetriesExhausted(tool) \in BOOLEAN
    BY DEF RetriesExhausted
  <1>5. \/ mid = events
        \/ \E t \in Entry, a \in Entry : /\ mid = events \o << t, a >>
                                         /\ t \in Triggers /\ a \in AppliedBy("retry_budget")
    <2> DEFINE exceeded == RetriesExhausted(tool)
               p == "retry_budget"
    <2>1. exceeded \in BOOLEAN /\ p \in PolicyIds
      BY <1>1, <1>4
    <2>2. mid = events \o Emitted(p, IF exceeded THEN Decide(p) ELSE "observe", tool)
      OBVIOUS
    <2> HIDE DEF tool, exceeded, p, mid
    <2>3. LET more == events \o Emitted(p, IF exceeded THEN Decide(p) ELSE "observe", tool)
          IN  \/ more = events
              \/ exceeded /\ \E t \in Entry, a \in Entry :
                     /\ more = events \o << t, a >>
                     /\ t \in Triggers /\ a \in AppliedBy(p)
      BY <1>1, <2>1, GuardEntries, ZenonT(60)
    <2>4. QED  BY <2>2, <2>3 DEF p
  <1>6. mid \in Seq(Event)
    <2> HIDE DEF mid
    <2>1. ASSUME NEW t \in Entry, NEW a \in Entry  PROVE events \o << t, a >> \in Seq(Event)
      BY <1>1 DEF Entry
    <2>2. QED  BY <1>1, <1>5, <2>1
  <1> HIDE DEF mid, d, e
  <1>7. d \in Event /\ e \in Event
    BY <1>3 DEF Passing, Entry
  <1>8. Grows(mid, mid, Passing) /\ mid \o << >> = mid
    BY <1>6, GrowsNone, SameNone
  <1>9. Grows(mid, mid \o << d, e >>, Passing)
    BY <1>3, <1>6, <1>7, <1>8, GrowsTwo
  <1>10. Grows(mid, events', Passing)
    BY <1>2, <1>8, <1>9
  <1>11. QED  BY <1>5, <1>6, <1>10

\* Every other step adds only events that pass.
Special(c) ==
    ToolBlocked(c) \/ ToolServe(c) \/ ToolReturn(c) \/ ToolGuard(c) \/ RetryGuard(c)

LEMMA OtherStepsPass ==
    ASSUME TypeOK, [Next]_vars, \A c \in Callers : ~Special(c)
    PROVE  Grows(events, events', Passing)
  <1> DEFINE Passes == Grows(events, events', Passing)
  <1> USE RunAssumption, PolicyAssumption
  <1>0. events \in Seq(Event) /\ Grows(events, events, Passing)
        /\ Passing \subseteq Event /\ events \o << >> = events
    BY GrowsNone, SameNone DEF TypeOK, Passing, Entry
  <1>1. CASE UNCHANGED events
    BY <1>0, <1>1
  <1>2. ASSUME NEW e \in Passing, events' = Append(events, e)  PROVE Passes
    <2>1. e \in Event
      BY <1>0
    <2>2. events' = events \o << e >>
      BY <1>0, <1>2, <2>1, AppendConcat
    <2>3. QED  BY <1>0, <2>1, <2>2, GrowsOne
  <1>3. ASSUME NEW d \in Passing, NEW e \in Passing,
               \/ events' = events \o << d, e >>
               \/ events' = (events \o << d >>) \o << e >>
               \/ events' = (events \o << >>) \o << e >>
               \/ events' = (events \o << d >>) \o << >>
        PROVE  Passes
    <2>1. d \in Event /\ e \in Event
      BY <1>0
    <2>2. /\ Grows(events, events \o << d >>, Passing) /\ Grows(events, events \o << e >>, Passing)
          /\ Grows(events, events \o << d, e >>, Passing)
      BY <1>0, <2>1, GrowsOne, GrowsTwo
    <2>3. /\ (events \o << d >>) \o << e >> = events \o << d, e >>
          /\ (events \o << d >>) \o << >> = events \o << d >>
      <3>1. (events \o << d >>) \o << e >> = events \o << d, e >>
        BY <1>0, <2>1, PairConcat
      <3>2. events \o << d >> \in Seq(Event)
        BY <1>0, <2>1
      <3>3. (events \o << d >>) \o << >> = events \o << d >>
        BY <3>2, SameNone
      <3>4. QED  BY <3>1, <3>3
    <2>4. \/ events' = events \o << d, e >>
          \/ events' = events \o << e >>
          \/ events' = events \o << d >>
      BY <1>0, <1>3, <2>3
    <2>5. QED  BY <2>2, <2>4
  <1>4. ASSUME NEW c \in Callers, ToolLookup(c)  PROVE Passes
    <2> DEFINE e == ToolEvent("tool.requested", frame[c].req, "none", frame[c].dup, 0)
    <2>1. frame[c].req \in Requests /\ frame[c].dup \in BOOLEAN
      BY <1>4, ToolFrame DEF ToolLookup
    <2>2. e \in Passing
      BY <2>1, RequestPasses
    <2>3. events' = Append(events, e)
      BY <1>4 DEF ToolLookup
    <2> HIDE DEF e
    <2>4. QED  BY <1>2, <2>2, <2>3
  <1>5. ASSUME NEW c \in Callers, NEW r \in ModelRequests, ModelLookup(c, r)  PROVE Passes
    <2> DEFINE e == Plain("model.requested", r.tool, "none")
    <2>1. r.tool \in Tools
      BY RequestType DEF Requests
    <2>2. e \in Passing
      BY <2>1, PlainPasses DEF Statuses, EventTypes
    <2>3. events' = Append(events, e)
      BY <1>5 DEF ModelLookup
    <2> HIDE DEF e
    <2>4. QED  BY <1>2, <2>2, <2>3
  <1>6. ASSUME NEW c \in Callers, ModelServe(c)  PROVE Passes
    <2> DEFINE d == Plain("optimization.applied", frame[c].req.tool, "none")
               e == Plain("model.completed", frame[c].req.tool, "ok")
    <2>1. frame[c].req.tool \in Tools /\ 0 \in Nat
      BY <1>6, ModelFrame, RequestType DEF ModelServe
    <2>2. d \in Passing /\ e \in Passing
      BY <2>1, PlainPasses, ModelPasses DEF Statuses, EventTypes
    <2>3. events' = events \o << d, e >>
      BY <1>6 DEF ModelServe
    <2> HIDE DEF d, e
    <2>4. QED  BY <1>3, <2>2, <2>3
  <1>7. ASSUME NEW c \in Callers, ModelReturn(c)  PROVE Passes
    <2> DEFINE r == frame[c].req
               d == Plain("optimization.recommended", r.tool, "none")
               e == [Plain("model.completed", r.tool, "ok") EXCEPT !.cost = r.cost]
    <2>1. r.tool \in Tools /\ r.cost \in Nat
      BY <1>7, ModelFrame, RequestType DEF ModelReturn
    <2>2. d \in Passing /\ e \in Passing
      <3> HIDE DEF r
      <3>1. d \in Passing
        BY <2>1, PlainPasses DEF Statuses, EventTypes
      <3>2. e \in Passing
        BY <2>1, ModelPasses
      <3>3. QED  BY <3>1, <3>2
    <2>3. \/ events' = (events \o << d >>) \o << e >>
          \/ events' = (events \o << >>) \o << e >>
      BY <1>7 DEF ModelReturn
    <2> HIDE DEF d, e
    <2>4. QED  BY <1>3, <2>2, <2>3
  <1>8. CASE StartRun
    <2> DEFINE e == Plain("run.started", NoTool, "none")
    <2>1. e \in Passing
      BY PlainPasses DEF Statuses, EventTypes
    <2>2. events' = Append(events, e)
      BY <1>8 DEF StartRun
    <2> HIDE DEF e
    <2>3. QED  BY <1>2, <2>1, <2>2
  <1>9. ASSUME NEW status \in {"ok", "error"}, FinishRun(status)  PROVE Passes
    <2> DEFINE d == Plain("run.completed", NoTool, status)
               e == Plain("run.failed", NoTool, status)
    <2>1. d \in Passing /\ e \in Passing
      BY PlainPasses DEF Statuses, EventTypes
    <2>2. \/ events' = (events \o << d >>) \o << e >>
          \/ events' = (events \o << d >>) \o << >>
      BY <1>9 DEF FinishRun
    <2> HIDE DEF d, e
    <2>3. QED  BY <1>3, <2>1, <2>2
  <1>10. ASSUME NEW c \in Callers,
                \/ \E r \in ToolRequests : ToolCheck(c, r)
                \/ ToolRaise(c) \/ ToolGetRaises(c) \/ ToolPutRaises(c) \/ ToolRecord(c)
                \/ \E r \in ModelRequests : ModelGetRaises(c, r)
                \/ ModelPutRaises(c) \/ ModelRaise(c)
                \/ \E t \in Tools : RetryRead(c, t)
                \/ RetryStore(c)
         PROVE  UNCHANGED events
    BY <1>10 DEF ToolCheck, ToolRaise, ToolGetRaises, ToolPutRaises, ToolRecord,
                 ModelGetRaises, ModelPutRaises, ModelRaise, RetryRead, RetryStore
  <1>11. ASSUME NEW c \in Callers, ToolStep(c)  PROVE Passes
    BY <1>1, <1>4, <1>10, <1>11 DEF ToolStep, Special
  <1>12. ASSUME NEW c \in Callers, ModelStep(c)  PROVE Passes
    BY <1>1, <1>5, <1>6, <1>7, <1>10, <1>12 DEF ModelStep
  <1>13. ASSUME NEW c \in Callers, RetryStep(c)  PROVE Passes
    BY <1>1, <1>10, <1>13 DEF RetryStep, Special
  <1>14. CASE UNCHANGED vars \/ (\E k \in CacheKeys : CacheForget(k))
                 \/ \E k \in CacheKeys, r \in Requests : OtherRunStores(k, r)
    BY <1>1, <1>14 DEF vars, CacheForget, OtherRunStores
  <1>15. QED  BY <1>8, <1>9, <1>11, <1>12, <1>13, <1>14 DEF Next

\* Whatever the step, the log keeps what it has and the new events are entries;
\* only a deduplicated call adds an intervention against duplicates, and only
\* the cost guard one for cost.
LEMMA EntriesAdded ==
    ASSUME TypeOK, CheckedCallers, [Next]_vars, NEW p, p # "retry_budget",
           p = "duplicate_tool_protection" => \A c \in Callers : ~ToolBlocked(c),
           p = "cost_budget" => \A c \in Callers : ToolGuard(c) => events' = events
    PROVE  Grows(events, events', Entry \ AppliedBy(p))
  <1> DEFINE New == Entry \ AppliedBy(p)
             Good == Grows(events, events', New)
  <1>0. /\ events \in Seq(Event) /\ New \subseteq Event /\ Passing \subseteq New
        /\ Entry \cap ToolDone \subseteq New /\ Entry \cap Triggers \subseteq New
        /\ \A q : q # p => Entry \cap AppliedBy(q) \subseteq New
    BY DEF TypeOK, Entry, Passing, ToolDone, Triggers, AppliedBy, Applications
  <1> HIDE DEF New
  <1>1. Grows(events, events, New)
    BY <1>0, GrowsNone
  <1>2. ASSUME NEW e \in New, Completes(events, events', e)  PROVE Good
    <2>1. PICK mid \in Seq(Event) : Grows(events, mid, Passing) /\ events' = mid \o << e >>
      BY <1>2 DEF Completes
    <2>2. Grows(events, mid, New)
      BY <1>0, <2>1, GrowsMore
    <2>3. e \in Event
      BY <1>0
    <2>4. QED  BY <1>0, <2>1, <2>2, <2>3, GrowsOne
  <1>3. ASSUME NEW c \in Callers, ToolServe(c) \/ ToolReturn(c)  PROVE Good
    <2>1. \E e \in Entry : e \in ToolDone /\ Completes(events, events', e)
      BY <1>3, ServeAdds, ReturnAdds
    <2>2. QED  BY <1>0, <1>2, <2>1
  <1>4. ASSUME NEW log \in Seq(Event), NEW d \in New, NEW e \in New, Grows(events, log, New)
        PROVE  Grows(events, log \o << d, e >>, New)
    <2>1. d \in Event /\ e \in Event
      BY <1>0
    <2>2. QED  BY <1>0, <1>4, <2>1, GrowsTwo
  <1>5. ASSUME NEW c \in Callers, ToolBlocked(c)  PROVE Good
    <2>1. PICK t \in Entry, a \in Entry, q \in Passing, d \in Entry :
               /\ events' = (events \o << t, a >>) \o << q, d >>
               /\ t \in Triggers /\ a \in AppliedBy("duplicate_tool_protection")
               /\ d \in ToolDone /\ d.cost = 0 /\ d.status = "blocked"
               /\ <<d.tool, d.hash>> = Key(frame[c].req)
      BY <1>5, BlockedAdds
    <2>2. t \in New /\ a \in New /\ q \in New /\ d \in New
      BY <1>0, <1>5, <2>1
    <2> DEFINE log == events \o << t, a >>
    <2>3. Grows(events, log, New)
      BY <1>0, <1>1, <1>4, <2>2
    <2>4. log \in Seq(Event)
      BY <2>3 DEF Grows
    <2> HIDE DEF log
    <2>5. Grows(events, log \o << q, d >>, New)
      BY <1>4, <2>2, <2>3, <2>4
    <2>6. QED  BY <2>1, <2>5 DEF log
  <1>6. ASSUME NEW c \in Callers, ToolGuard(c)  PROVE Good
    <2>1. CASE events' = events
      BY <1>1, <2>1
    <2>2. CASE events' # events
      <3>1. PICK t \in Entry, a \in Entry :
                /\ events' = events \o << t, a >>
                /\ t \in Triggers /\ a \in AppliedBy("cost_budget")
        BY <1>6, <2>2, CostGuardAdds
      <3>2. t \in New /\ a \in New
        BY <1>0, <1>6, <2>2, <3>1
      <3>3. QED  BY <1>0, <1>1, <1>4, <3>1, <3>2
    <2>3. QED  BY <2>1, <2>2
  <1>7. ASSUME NEW c \in Callers, RetryGuard(c)  PROVE Good
    <2>1. PICK mid \in Seq(Event) :
               /\ \/ mid = events
                  \/ \E t \in Entry, a \in Entry :
                        /\ mid = events \o << t, a >>
                        /\ t \in Triggers /\ a \in AppliedBy("retry_budget")
               /\ Grows(mid, events', Passing)
      BY <1>7, RetryGuardAdds
    <2>2. Grows(events, mid, New)
      BY <1>0, <1>1, <1>4, <2>1
    <2>3. Grows(mid, events', New)
      BY <1>0, <2>1, GrowsMore
    <2>4. QED  BY <1>0, <2>2, <2>3, GrowsTrans
  <1>8. CASE \A c \in Callers : ~Special(c)
    <2>1. Grows(events, events', Passing)
      BY <1>8, OtherStepsPass
    <2>2. Good
      BY <1>0, <2>1, GrowsMore
    <2>3. QED  BY <2>2 DEF New
  <1>9. QED  BY <1>3, <1>5, <1>6, <1>7, <1>8 DEF Special, New

-----------------------------------------------------------------------------
(* What is charged is what the trace says.                                 *)

\* The cost of the calls of some callers.
Bill(f, S) == CostOf([c \in S |-> f[c].req], S)

\* A bill depends on the costs of the calls only ...
LEMMA BillSame ==
    ASSUME NEW f, NEW g, NEW S, IsFiniteSet(S), \A c \in S : f[c] = g[c]
    PROVE  Bill(f, S) = Bill(g, S)
  <1> DEFINE G == [c \in S |-> f[c].req]
             H == [c \in S |-> g[c].req]
  <1>1. \A c \in S : G[c].cost = H[c].cost
    OBVIOUS
  <1> HIDE DEF G, H
  <1>2. CostOf(G, S) = CostOf(H, S)
    BY <1>1, CostOfSame
  <1>3. QED  BY <1>2 DEF Bill, G, H

\* ... and one more caller adds the cost of its call.
LEMMA BillWith ==
    ASSUME NEW f, NEW S, IsFiniteSet(S), NEW c, c \notin S,
           \A d \in S \cup {c} : f[d].req.cost \in Nat
    PROVE  /\ Bill(f, S \cup {c}) = Bill(f, S) + f[c].req.cost
           /\ Bill(f, S) \in Nat
  <1> DEFINE T == S \cup {c}
             G == [d \in T |-> f[d].req]
             H == [d \in S |-> f[d].req]
  <1>1. IsFiniteSet(T)
    BY FS_AddElement
  <1>2. /\ \A d \in T : G[d].cost \in Nat
        /\ G[c].cost = f[c].req.cost
        /\ \A d \in S : G[d].cost = H[d].cost /\ H[d].cost \in Nat
    OBVIOUS
  <1> HIDE DEF G, H
  <1>3. Costs(G, S \cup {c}) /\ Costs(H, S)
    BY <1>1, <1>2 DEF Costs
  <1>4. CostOf(G, S \cup {c}) = CostOf(G, S) + G[c].cost
    BY <1>3, CostOfWith
  <1>5. CostOf(G, S) = CostOf(H, S)
    BY <1>2, CostOfSame
  <1>6. CostOf(H, S) \in Nat
    BY <1>3, CostOfType
  <1>7. QED  BY <1>2, <1>4, <1>5, <1>6 DEF Bill, G, H

\* A call that is not charged yet costs a number.
LEMMA UnchargedCost ==
    ASSUME TypeOK
    PROVE  /\ IsFiniteSet(Uncharged)
           /\ \A c \in Uncharged : frame[c].req.cost \in Nat
           /\ Owed = Bill(frame, Uncharged)
  <1>1. IsFiniteSet(Uncharged)
    BY CallerSets DEF Uncharged
  <1>2. \A c \in Uncharged : frame[c].req.cost \in Nat
    BY ToolFrame, RequestType DEF Uncharged
  <1>3. QED  BY <1>1, <1>2 DEF Owed, Bill

\* The budget has been charged, or is about to be, what the trace says the
\* tools cost.
Charged == SumIn(events, ToolDone) = cost + Owed

\* A step that completes no call at a cost and charges none.
LEMMA ChargedQuiet ==
    ASSUME TypeOK, Charged, SumIn(events', ToolDone) = SumIn(events, ToolDone),
           cost' = cost, Uncharged' = Uncharged,
           \A c \in Uncharged : frame'[c] = frame[c]
    PROVE  Charged'
  <1>1. IsFiniteSet(Uncharged) /\ Owed = Bill(frame, Uncharged)
    BY UnchargedCost
  <1>2. Owed' = Bill(frame', Uncharged)
    BY DEF Owed, Bill
  <1>3. Bill(frame', Uncharged) = Bill(frame, Uncharged)
    BY <1>1, BillSame
  <1>4. SumIn(events, ToolDone)' = SumIn(events', ToolDone)
    BY DEF SumIn, At, ToolDone, Event
  <1>5. QED  BY <1>1, <1>2, <1>3, <1>4 DEF Charged

\* One more completion adds its cost to the trace.
LEMMA CompletionSum ==
    ASSUME NEW log \in Seq(Event), NEW long, NEW e \in ToolDone, Completes(log, long, e)
    PROVE  SumIn(long, ToolDone) = SumIn(log, ToolDone) + e.cost
  <1>1. PICK mid \in Seq(Event) : Grows(log, mid, Passing) /\ long = mid \o << e >>
    BY DEF Completes
  <1>2. Passing \cap ToolDone = {} /\ e \in Event
    BY DEF Passing, ToolDone
  <1>3. SumIn(mid, ToolDone) = SumIn(log, ToolDone)
    <2>1. ASSUME NEW D, NEW E, Grows(log, mid, D), D \cap E = {}
          PROVE  SumIn(mid, E) = SumIn(log, E)
      BY <2>1, GrowsApart, ZenonT(60)
    <2>2. QED  BY <1>1, <1>2, <2>1
  <1>4. SumIn(mid \o << e >>, ToolDone) = SumIn(mid, ToolDone) + e.cost
    BY <1>1, <1>2, SumAppend
  <1>5. QED  BY <1>1, <1>3, <1>4

\* The records of an intervention cost nothing.
LEMMA PairSum ==
    ASSUME NEW log \in Seq(Event), NEW d \in Event, NEW e \in Event,
           d \in ToolDone => d.cost = 0, e \in ToolDone => e.cost = 0
    PROVE  /\ log \o << d, e >> \in Seq(Event)
           /\ SumIn(log \o << d, e >>, ToolDone) = SumIn(log, ToolDone)
  <1> DEFINE one == log \o << d >>
  <1>1. one \in Seq(Event)
    OBVIOUS
  <1>2. SumIn(one, ToolDone) = SumIn(log, ToolDone) + IF d \in ToolDone THEN d.cost ELSE 0
    BY SumAppend
  <1> HIDE DEF one
  <1>3. SumIn(one \o << e >>, ToolDone)
            = SumIn(one, ToolDone) + IF e \in ToolDone THEN e.cost ELSE 0
    BY <1>1, SumAppend
  <1>4. SumIn(log, ToolDone) \in Nat /\ SumIn(one, ToolDone) \in Nat
    BY <1>1, LogCosts
  <1>5. SumIn(one \o << e >>, ToolDone) = SumIn(log, ToolDone)
    BY <1>2, <1>3, <1>4
  <1>6. one \o << e >> = log \o << d, e >>
    BY PairConcat DEF one
  <1>7. one \o << e >> \in Seq(Event)
    BY <1>1
  <1>8. QED  BY <1>5, <1>6, <1>7

\* Who is recording, apart from ToolReturn and ToolRecord.
LEMMA UnchargedSame ==
    ASSUME TypeOK, [Next]_vars, \A c \in Callers : ~ToolReturn(c) /\ ~ToolRecord(c)
    PROVE  /\ cost' = cost /\ Uncharged' = Uncharged
           /\ \A c \in Uncharged : frame'[c] = frame[c]
  <1> DEFINE Goal == /\ cost' = cost /\ Uncharged' = Uncharged
                     /\ \A c \in Uncharged : frame'[c] = frame[c]
  <1>1. ASSUME NEW c \in Callers, cost' = cost, pc[c] # "record", pc'[c] # "record",
               \A d \in Callers \ {c} : pc'[d] = pc[d] /\ frame'[d] = frame[d]
        PROVE  Goal
    BY <1>1 DEF Uncharged
  <1>2. ASSUME NEW c \in Callers,
               \/ \E r \in ToolRequests : ToolCheck(c, r)
               \/ ToolBlocked(c) \/ ToolLookup(c) \/ ToolServe(c) \/ ToolRaise(c)
               \/ ToolGetRaises(c) \/ ToolPutRaises(c) \/ ToolGuard(c)
        PROVE  Goal
    <2>1. /\ cost' = cost /\ pc[c] # "record" /\ pc'[c] # "record"
          /\ \A d \in Callers \ {c} : pc'[d] = pc[d] /\ frame'[d] = frame[d]
      BY <1>2 DEF ToolCheck, ToolBlocked, ToolLookup, ToolServe, ToolRaise, ToolGetRaises,
                  ToolPutRaises, ToolGuard, Begin, Interrupted, Return, Goto, Continue, TypeOK
    <2>2. QED  BY <1>1, <2>1
  <1>3. ASSUME NEW c \in Callers, ModelStep(c) \/ RetryStep(c)  PROVE Goal
    <2>1. /\ cost' = cost /\ pc[c] # "record" /\ pc'[c] # "record"
          /\ \A d \in Callers \ {c} : pc'[d] = pc[d] /\ frame'[d] = frame[d]
      BY <1>3, OtherCalls
    <2>2. QED  BY <1>1, <2>1
  <1>4. CASE \/ StartRun \/ \E status \in {"ok", "error"} : FinishRun(status)
             \/ \E k \in CacheKeys : CacheForget(k)
             \/ \E k \in CacheKeys, r \in Requests : OtherRunStores(k, r)
             \/ UNCHANGED vars
    BY <1>4 DEF StartRun, FinishRun, CacheForget, OtherRunStores, vars, Uncharged
  <1>5. QED  BY <1>2, <1>3, <1>4 DEF Next, ToolStep

\* Every step keeps the books: ToolReturn adds its call to the trace and to what
\* is owed, ToolRecord charges what its call owed, and no other step costs.
LEMMA ChargedStep ==
    ASSUME TypeOK, CheckedCallers, Charged, [Next]_vars
    PROVE  Charged'
  <1>0. events \in Seq(Event) /\ Entry \subseteq Event /\ Passing \subseteq Entry
        /\ SumIn(events, ToolDone) \in Nat /\ cost \in Nat
    BY LogCosts DEF TypeOK, Entry, Passing
  <1>1. ASSUME SumIn(events', ToolDone) = SumIn(events, ToolDone),
               \A c \in Callers : ~ToolReturn(c) /\ ~ToolRecord(c)
        PROVE  Charged'
    BY <1>1, UnchargedSame, ChargedQuiet
  <1>2. ASSUME NEW c \in Callers, ToolReturn(c)  PROVE Charged'
    <2>1. /\ pc[c] = "execute" /\ pc' = [pc EXCEPT ![c] = "record"]
          /\ cost' = cost /\ frame' = frame
      BY <1>2 DEF ToolReturn, Goto
    <2>2. Uncharged' = Uncharged \cup {c} /\ c \notin Uncharged
      BY <2>1 DEF Uncharged, TypeOK
    <2>3. PICK e \in Entry : /\ e \in ToolDone /\ e.cost = frame[c].req.cost
                             /\ e.status # "blocked"
                             /\ Remembers(frame[c].req) => e \in Done(Key(frame[c].req))
                             /\ Completes(events, events', e)
      BY <1>2, ReturnAdds
    <2>4. SumIn(events', ToolDone) = SumIn(events, ToolDone) + frame[c].req.cost
      BY <1>0, <2>3, CompletionSum
    <2>5. /\ IsFiniteSet(Uncharged) /\ Owed = Bill(frame, Uncharged)
          /\ \A d \in Uncharged \cup {c} : frame[d].req.cost \in Nat
      BY <2>1, UnchargedCost, ToolFrame, RequestType
    <2>6. /\ Bill(frame, Uncharged \cup {c}) = Bill(frame, Uncharged) + frame[c].req.cost
          /\ Bill(frame, Uncharged) \in Nat
      BY <2>2, <2>5, BillWith
    <2>7. Owed' = Bill(frame, Uncharged \cup {c})
      BY <2>1, <2>2 DEF Owed, Bill
    <2>8. SumIn(events, ToolDone)' = SumIn(events', ToolDone)
      BY DEF SumIn, At, ToolDone, Event
    <2>9. frame[c].req.cost \in Nat /\ SumIn(events, ToolDone) = cost + Bill(frame, Uncharged)
      BY <2>5 DEF Charged
    <2>10. SumIn(events', ToolDone) = cost' + Owed'
      BY <1>0, <2>1, <2>4, <2>6, <2>7, <2>9
    <2>11. QED  BY <2>8, <2>10 DEF Charged
  <1>3. ASSUME NEW c \in Callers, ToolRecord(c)  PROVE Charged'
    <2>1. /\ pc[c] = "record" /\ pc' = [pc EXCEPT ![c] = "guard"]
          /\ cost' = cost + frame[c].req.cost /\ frame' = frame /\ events' = events
      BY <1>3 DEF ToolRecord, Goto, Charge
    <2> DEFINE rest == Uncharged \ {c}
    <2>2. Uncharged' = rest /\ Uncharged = rest \cup {c} /\ c \notin rest
      BY <2>1 DEF Uncharged, TypeOK
    <2>3. /\ IsFiniteSet(rest) /\ Owed = Bill(frame, Uncharged)
          /\ \A d \in rest \cup {c} : frame[d].req.cost \in Nat
      BY <2>2, UnchargedCost, FS_RemoveElement
    <2> HIDE DEF rest
    <2>4. /\ Bill(frame, rest \cup {c}) = Bill(frame, rest) + frame[c].req.cost
          /\ Bill(frame, rest) \in Nat
      BY <2>2, <2>3, BillWith
    <2>5. Owed' = Bill(frame, rest)
      BY <2>1, <2>2 DEF Owed, Bill
    <2>6. SumIn(events, ToolDone)' = SumIn(events, ToolDone)
      BY <2>1 DEF SumIn, At, ToolDone, Event
    <2>7. frame[c].req.cost \in Nat
          /\ SumIn(events, ToolDone) = cost + Bill(frame, rest \cup {c})
      BY <2>2, <2>3 DEF Charged
    <2>8. SumIn(events, ToolDone) = cost' + Owed'
      BY <1>0, <2>1, <2>4, <2>5, <2>7
    <2>9. QED  BY <2>6, <2>8 DEF Charged
  <1>4. CASE \A c \in Callers : ~ToolReturn(c) /\ ~ToolRecord(c)
    <2>1. ASSUME NEW c \in Callers, ToolServe(c)
          PROVE  SumIn(events', ToolDone) = SumIn(events, ToolDone)
      <3>1. PICK e \in Entry : /\ e \in ToolDone /\ e.cost = 0 /\ e.status # "blocked"
                               /\ Completes(events, events', e)
        BY <2>1, ServeAdds
      <3>2. SumIn(events', ToolDone) = SumIn(events, ToolDone) + 0
        BY <1>0, <3>1, CompletionSum
      <3>3. QED  BY <1>0, <3>2
    <2>2. ASSUME NEW log \in Seq(Event), NEW t \in Entry, NEW a \in Entry, NEW p,
                 t \in Triggers, a \in AppliedBy(p)
          PROVE  /\ log \o << t, a >> \in Seq(Event)
                 /\ SumIn(log \o << t, a >>, ToolDone) = SumIn(log, ToolDone)
      <3>1. t \in Event /\ a \in Event /\ t \notin ToolDone /\ a \notin ToolDone
        BY <1>0, <2>2 DEF Triggers, AppliedBy, Applications, ToolDone
      <3>2. QED  BY <3>1, PairSum
    <2>3. ASSUME NEW c \in Callers, ToolBlocked(c)
          PROVE  SumIn(events', ToolDone) = SumIn(events, ToolDone)
      <3>1. PICK t \in Entry, a \in Entry, q \in Passing, d \in Entry :
                 /\ events' = (events \o << t, a >>) \o << q, d >>
                 /\ t \in Triggers /\ a \in AppliedBy("duplicate_tool_protection")
                 /\ d \in ToolDone /\ d.cost = 0 /\ d.status = "blocked"
                 /\ <<d.tool, d.hash>> = Key(frame[c].req)
        BY <2>3, BlockedAdds
      <3>2. q \in Event /\ d \in Event /\ q \notin ToolDone
        BY <1>0 DEF Passing
      <3> DEFINE log == events \o << t, a >>
      <3>3. log \in Seq(Event) /\ SumIn(log, ToolDone) = SumIn(events, ToolDone)
        BY <1>0, <2>2, <3>1
      <3> HIDE DEF log
      <3>4. SumIn(log \o << q, d >>, ToolDone) = SumIn(log, ToolDone)
        BY <3>1, <3>2, <3>3, PairSum
      <3>5. QED  BY <3>1, <3>3, <3>4 DEF log
    <2>4. ASSUME NEW c \in Callers, ToolGuard(c)
          PROVE  SumIn(events', ToolDone) = SumIn(events, ToolDone)
      BY <1>0, <2>2, <2>4, CostGuardAdds
    <2>5. ASSUME NEW c \in Callers, RetryGuard(c)
          PROVE  SumIn(events', ToolDone) = SumIn(events, ToolDone)
      <3>1. PICK mid \in Seq(Event) :
               /\ \/ mid = events
                  \/ \E t \in Entry, a \in Entry :
                        /\ mid = events \o << t, a >>
                        /\ t \in Triggers /\ a \in AppliedBy("retry_budget")
               /\ Grows(mid, events', Passing)
        BY <2>5, RetryGuardAdds
      <3>2. SumIn(mid, ToolDone) = SumIn(events, ToolDone)
        BY <1>0, <2>2, <3>1
      <3>3. Passing \cap ToolDone = {} /\ Grows(mid, events', Passing)
        BY <3>1 DEF Passing
      <3>4. SumIn(events', ToolDone) = SumIn(mid, ToolDone)
        BY <3>3, GrowsApart
      <3>5. QED  BY <3>2, <3>4
    <2>6. CASE \A c \in Callers : ~Special(c)
      <3>1. Grows(events, events', Passing)
        BY <2>6, OtherStepsPass
      <3>2. SumIn(events', ToolDone) = SumIn(events, ToolDone)
        BY <1>0, <3>1, GrowsApart DEF Passing
      <3>3. QED  BY <1>1, <1>4, <3>2
    <2>7. QED  BY <1>1, <1>4, <2>1, <2>3, <2>4, <2>5, <2>6 DEF Special
  <1>5. QED  BY <1>2, <1>3, <1>4

-----------------------------------------------------------------------------
(* Triggers, interventions and blocked completions go together.            *)

Duplicate == AppliedBy("duplicate_tool_protection")

\* As many triggers as interventions, and as many blocked completions as
\* interventions against duplicates.
Balanced(log) ==
    /\ CountIn(log, Triggers) = CountIn(log, Applications)
    /\ CountIn(log, Skipped) = CountIn(log, Duplicate)

\* What passes is counted nowhere, and neither is a completion that ran.
LEMMA BalancedPassing ==
    ASSUME NEW log \in Seq(Event), NEW long, Grows(log, long, Passing), Balanced(log)
    PROVE  long \in Seq(Event) /\ Balanced(long)
  <1>1. \A E \in {Triggers, Applications, Skipped, Duplicate} : Passing \cap E = {}
    BY DEF Passing, Triggers, Applications, AppliedBy, Skipped, ToolDone, Duplicate
  <1>2. ASSUME NEW E, Passing \cap E = {}  PROVE CountIn(long, E) = CountIn(log, E)
    BY <1>2, GrowsApart
  <1>3. long \in Seq(Event)
    BY DEF Grows
  <1>4. QED  BY <1>1, <1>2, <1>3 DEF Balanced

\* A completion that is not a blocked one keeps the balance.
LEMMA BalancedCompletion ==
    ASSUME NEW log \in Seq(Event), NEW long, NEW e \in ToolDone, e.status # "blocked",
           Completes(log, long, e), Balanced(log)
    PROVE  Balanced(long)
  <1>1. PICK mid \in Seq(Event) : Grows(log, mid, Passing) /\ long = mid \o << e >>
    BY DEF Completes
  <1>2. Balanced(mid)
    BY <1>1, BalancedPassing
  <1>3. \A E \in {Triggers, Applications, Skipped, Duplicate} : e \in Event \ E
    BY DEF ToolDone, Triggers, Applications, AppliedBy, Skipped, Duplicate
  <1>4. \A E \in {Triggers, Applications, Skipped, Duplicate} :
            CountIn(mid \o << e >>, E) = CountIn(mid, E)
    BY <1>3, SameOne
  <1>5. QED  BY <1>1, <1>2, <1>4 DEF Balanced

\* An intervention that is not about duplicates keeps the balance; one that is
\* leaves a blocked completion to come.
LEMMA BalancedIntervention ==
    ASSUME NEW log \in Seq(Event), NEW t \in Triggers, NEW p, NEW a \in AppliedBy(p),
           Balanced(log)
    PROVE  /\ log \o << t, a >> \in Seq(Event)
           /\ CountIn(log \o << t, a >>, Triggers) = CountIn(log \o << t, a >>, Applications)
           /\ CountIn(log \o << t, a >>, Duplicate) =
                  CountIn(log \o << t, a >>, Skipped)
                      + IF p = "duplicate_tool_protection" THEN 1 ELSE 0
  <1>1. /\ t \in Event /\ t \notin Applications /\ t \notin Skipped /\ t \notin Duplicate
        /\ a \in Event /\ a \in Applications /\ a \notin Triggers /\ a \notin Skipped
        /\ a \in Duplicate <=> p = "duplicate_tool_protection"
    BY DEF Triggers, Applications, AppliedBy, Skipped, Duplicate
  <1>2. \A E : CountIn(log, E) \in Nat
    BY CountType
  <1> DEFINE more == log \o << t, a >>
  <1>3. more \in Seq(Event)
    BY <1>1, CountPair
  <1>4. \A E : CountIn(more, E) = CountIn(log, E) + (IF t \in E THEN 1 ELSE 0)
                                                  + (IF a \in E THEN 1 ELSE 0)
    BY <1>1, CountPair
  <1> HIDE DEF more
  <1>5. /\ CountIn(more, Triggers) = CountIn(log, Triggers) + 1
        /\ CountIn(more, Applications) = CountIn(log, Applications) + 1
        /\ CountIn(more, Skipped) = CountIn(log, Skipped)
        /\ CountIn(more, Duplicate) = CountIn(log, Duplicate)
               + IF p = "duplicate_tool_protection" THEN 1 ELSE 0
    BY <1>1, <1>2, <1>4
  <1>6. /\ CountIn(more, Triggers) = CountIn(more, Applications)
        /\ CountIn(more, Duplicate) = CountIn(more, Skipped)
               + IF p = "duplicate_tool_protection" THEN 1 ELSE 0
    BY <1>2, <1>5 DEF Balanced
  <1>7. QED  BY <1>3, <1>6 DEF more

\* Every step keeps the balance.
LEMMA BalancedStep ==
    ASSUME TypeOK, CheckedCallers, Balanced(events), [Next]_vars
    PROVE  Balanced(events')
  <1>0. events \in Seq(Event) /\ Entry \subseteq Event /\ Passing \subseteq Entry
    BY DEF TypeOK, Entry, Passing
  <1>1. ASSUME NEW c \in Callers, ToolServe(c) \/ ToolReturn(c)  PROVE Balanced(events')
    <2>1. \E e \in Entry : e \in ToolDone /\ e.status # "blocked" /\ Completes(events, events', e)
      BY <1>1, ServeAdds, ReturnAdds
    <2>2. QED  BY <1>0, <2>1, BalancedCompletion
  <1>2. ASSUME NEW c \in Callers, ToolBlocked(c)  PROVE Balanced(events')
    <2>1. PICK t \in Entry, a \in Entry, q \in Passing, d \in Entry :
               /\ events' = (events \o << t, a >>) \o << q, d >>
               /\ t \in Triggers /\ a \in AppliedBy("duplicate_tool_protection")
               /\ d \in ToolDone /\ d.cost = 0 /\ d.status = "blocked"
               /\ <<d.tool, d.hash>> = Key(frame[c].req)
      BY <1>2, BlockedAdds
    <2> DEFINE log == events \o << t, a >>
               more == log \o << q, d >>
    <2>2. /\ log \in Seq(Event)
          /\ CountIn(log, Triggers) = CountIn(log, Applications)
          /\ CountIn(log, Duplicate) = CountIn(log, Skipped) + 1
      BY <1>0, <2>1, BalancedIntervention
    <2>3. /\ q \in Event /\ d \in Event
          /\ \A E \in {Triggers, Applications, Duplicate} : q \notin E /\ d \notin E
          /\ q \notin Skipped /\ d \in Skipped
      BY <1>0, <2>1 DEF Passing, ToolDone, Triggers, Applications, AppliedBy, Skipped, Duplicate
    <2> HIDE DEF log
    <2>4. \A E : CountIn(log, E) \in Nat
      BY <2>2, CountType
    <2>5. \A E : CountIn(more, E) = CountIn(log, E) + (IF q \in E THEN 1 ELSE 0)
                                                    + (IF d \in E THEN 1 ELSE 0)
      BY <2>2, <2>3, CountPair
    <2> HIDE DEF more
    <2>6. /\ CountIn(more, Triggers) = CountIn(log, Triggers)
          /\ CountIn(more, Applications) = CountIn(log, Applications)
          /\ CountIn(more, Duplicate) = CountIn(log, Duplicate)
          /\ CountIn(more, Skipped) = CountIn(log, Skipped) + 1
      BY <2>3, <2>4, <2>5
    <2>7. Balanced(more)
      BY <2>2, <2>4, <2>6 DEF Balanced
    <2>8. QED  BY <2>1, <2>7 DEF more, log
  <1>3. ASSUME NEW p \in {"cost_budget", "retry_budget"}, NEW t \in Entry, NEW a \in Entry,
               t \in Triggers, a \in AppliedBy(p)
        PROVE  events \o << t, a >> \in Seq(Event) /\ Balanced(events \o << t, a >>)
    <2> DEFINE more == events \o << t, a >>
    <2>1. /\ more \in Seq(Event)
          /\ CountIn(more, Triggers) = CountIn(more, Applications)
          /\ CountIn(more, Duplicate) = CountIn(more, Skipped) + 0
      BY <1>0, <1>3, BalancedIntervention
    <2> HIDE DEF more
    <2>2. CountIn(more, Skipped) \in Nat
      BY <2>1, CountType
    <2>3. Balanced(more)
      BY <2>1, <2>2 DEF Balanced
    <2>4. QED  BY <2>1, <2>3 DEF more
  <1>4. ASSUME NEW c \in Callers, ToolGuard(c)  PROVE Balanced(events')
    BY <1>3, <1>4, CostGuardAdds
  <1>5. ASSUME NEW c \in Callers, RetryGuard(c)  PROVE Balanced(events')
    <2>1. PICK mid \in Seq(Event) :
               /\ \/ mid = events
                  \/ \E t \in Entry, a \in Entry :
                        /\ mid = events \o << t, a >>
                        /\ t \in Triggers /\ a \in AppliedBy("retry_budget")
               /\ Grows(mid, events', Passing)
      BY <1>5, RetryGuardAdds
    <2>2. Balanced(mid)
      BY <1>3, <2>1
    <2>3. QED  BY <2>1, <2>2, BalancedPassing
  <1>6. CASE \A c \in Callers : ~Special(c)
    BY <1>0, <1>6, OtherStepsPass, BalancedPassing
  <1>7. QED  BY <1>1, <1>2, <1>4, <1>5, <1>6 DEF Special

-----------------------------------------------------------------------------
(* What an intervention in the trace means.                                *)

\* An event of E is in the log.
Has(log, E) == \E i \in DOMAIN log : log[i] \in E

\* A completion of a call after a success of the same call.
Repeated(log) ==
    \E k \in Keys : \E m, n \in DOMAIN log :
        /\ m < n /\ log[m] \in Done(k) /\ log[n] \in ToolDone
        /\ <<log[n].tool, log[n].hash>> = k

\* What a log has it keeps as it grows, and what it gets is among the new.
LEMMA HasGrows ==
    ASSUME NEW log \in Seq(Event), NEW long, NEW D, Grows(log, long, D)
    PROVE  /\ \A E : Has(log, E) => Has(long, E)
           /\ \A E : Has(long, E) => Has(log, E) \/ D \cap E # {}
           /\ Repeated(log) => Repeated(long)
           /\ (\A i \in DOMAIN log : log[i] \in D) => \A i \in DOMAIN long : long[i] \in D
  <1>1. /\ long \in Seq(Event) /\ Len(log) \in Nat /\ Len(long) \in Nat
        /\ DOMAIN log = 1 .. Len(log) /\ DOMAIN long = 1 .. Len(long)
        /\ Len(log) <= Len(long)
        /\ \A i \in 1 .. Len(log) : long[i] = log[i]
        /\ \A i \in Len(log) + 1 .. Len(long) : long[i] \in D
    BY DEF Grows
  <1>2. /\ \A i \in DOMAIN log : i \in DOMAIN long /\ long[i] = log[i]
        /\ \A i \in DOMAIN long : i \in DOMAIN log \/ long[i] \in D
    BY <1>1
  <1>3. \A E : Has(log, E) => Has(long, E)
    BY <1>2 DEF Has
  <1>4. \A E : Has(long, E) => Has(log, E) \/ D \cap E # {}
    BY <1>2 DEF Has
  <1>5. Repeated(log) => Repeated(long)
    BY <1>2 DEF Repeated
  <1>6. QED  BY <1>2, <1>3, <1>4, <1>5

\* The key a caller is on keeps its place in the duplicate check.
LEMMA CheckedStep ==
    ASSUME TypeOK, CheckedCallers, [Next]_vars
    PROVE  CheckedCallers'
  <1> DEFINE Sane(c) == /\ DedupOn /\ pc'[c] \in {"lookup", "serve", "execute"}
                              /\ frame'[c].dup => frame'[c].req.marked
                        /\ pc'[c] = "blocked" => DedupOn /\ Key(frame'[c].req) \in seenOk'
  <1>1. ASSUME NEW c \in Callers, seenOk \subseteq seenOk', Sane(c),
               \A d \in Callers \ {c} : pc'[d] = pc[d] /\ frame'[d] = frame[d]
        PROVE  CheckedCallers'
    <2>1. \A d \in Callers : Sane(d)
      BY <1>1 DEF CheckedCallers
    <2>2. QED  BY <2>1 DEF CheckedCallers, DedupOn, Decide, Key
  <1>2. ASSUME NEW c \in Callers, NEW r \in ToolRequests, ToolCheck(c, r)
        PROVE  CheckedCallers'
    <2>1. /\ seenOk' = seenOk /\ frame'[c].dup = (PriorOk(r) \/ r.marked) /\ frame'[c].req = r
          /\ pc'[c] = IF PriorOk(r) /\ DedupOn THEN "blocked" ELSE "lookup"
          /\ \A d \in Callers \ {c} : pc'[d] = pc[d] /\ frame'[d] = frame[d]
      BY <1>2 DEF ToolCheck, Begin, Interrupted, Goto, DedupOn, TypeOK
    <2>2. Sane(c)
      BY <2>1 DEF PriorOk
    <2> HIDE DEF Sane
    <2>3. QED  BY <1>1, <2>1, <2>2
  <1>3. ASSUME NEW c \in Callers, ToolLookup(c)  PROVE CheckedCallers'
    <2>1. /\ seenOk' = seenOk /\ pc[c] = "lookup" /\ pc'[c] \in {"serve", "execute"}
          /\ \A d \in Callers \ {c} : pc'[d] = pc[d] /\ frame'[d] = frame[d]
      BY <1>3 DEF ToolLookup, Goto, TypeOK
    <2>2. frame'[c].dup = frame[c].dup /\ frame'[c].req = frame[c].req
      BY <1>3, ToolFrame DEF ToolLookup, CallFrame, TypeOK
    <2>3. Sane(c)
      BY <2>1, <2>2 DEF CheckedCallers
    <2> HIDE DEF Sane
    <2>4. QED  BY <1>1, <2>1, <2>3
  <1>4. ASSUME NEW c \in Callers, seenOk \subseteq seenOk',
               pc'[c] \notin {"lookup", "serve", "execute", "blocked"},
               \A d \in Callers \ {c} : pc'[d] = pc[d] /\ frame'[d] = frame[d]
        PROVE  CheckedCallers'
    BY <1>1, <1>4
  <1> HIDE DEF Sane
  <1>5. ASSUME NEW c \in Callers,
               \/ ToolBlocked(c) \/ ToolServe(c) \/ ToolRaise(c) \/ ToolGetRaises(c)
               \/ ToolPutRaises(c) \/ ToolReturn(c) \/ ToolRecord(c) \/ ToolGuard(c)
        PROVE  CheckedCallers'
    <2>1. /\ seenOk \subseteq seenOk'
          /\ pc'[c] \notin {"lookup", "serve", "execute", "blocked"}
          /\ \A d \in Callers \ {c} : pc'[d] = pc[d] /\ frame'[d] = frame[d]
      BY <1>5 DEF ToolBlocked, ToolServe, ToolRaise, ToolGetRaises, ToolPutRaises,
                  ToolReturn, ToolRecord, ToolGuard, Return, Goto, Continue, TypeOK
    <2>2. QED  BY <1>4, <2>1
  <1>6. ASSUME NEW c \in Callers, ModelStep(c) \/ RetryStep(c)  PROVE CheckedCallers'
    <2>1. /\ seenOk \subseteq seenOk'
          /\ pc'[c] \notin {"lookup", "serve", "execute", "blocked"}
          /\ \A d \in Callers \ {c} : pc'[d] = pc[d] /\ frame'[d] = frame[d]
      BY <1>6, OtherCalls
    <2>2. QED  BY <1>4, <2>1
  <1>7. CASE \/ StartRun \/ \E status \in {"ok", "error"} : FinishRun(status)
             \/ \E k \in CacheKeys : CacheForget(k)
             \/ \E k \in CacheKeys, r \in Requests : OtherRunStores(k, r)
             \/ UNCHANGED vars
    BY <1>7 DEF StartRun, FinishRun, CacheForget, OtherRunStores, vars, CheckedCallers,
                DedupOn, Decide, Key
  <1>8. QED  BY <1>2, <1>3, <1>5, <1>6, <1>7 DEF Next, ToolStep

\* A success that is remembered, or about to be, is in the trace.
Traced ==
    /\ \A k \in seenOk : Has(events, Done(k))
    /\ \A c \in Callers : pc[c] = "record" /\ Remembers(frame[c].req) =>
           Has(events, Done(Key(frame[c].req)))

\* Every step keeps that: ToolReturn completes before ToolRecord remembers.
LEMMA TracedStep ==
    ASSUME TypeOK, CheckedCallers, Traced, [Next]_vars
    PROVE  Traced'
  <1>1. /\ events \in Seq(Event) /\ Grows(events, events', Entry)
        /\ \A E : Has(events, E) => Has(events', E)
    <2>1. Entry \ AppliedBy("none") \subseteq Entry
      OBVIOUS
    <2>2. Grows(events, events', Entry)
      BY <2>1, EntriesAdded, GrowsMore DEF TypeOK
    <2>3. QED  BY <2>2, HasGrows DEF TypeOK
  <1>2. Traced' <=>
          /\ \A k \in seenOk' : Has(events', Done(k))
          /\ \A c \in Callers : pc'[c] = "record" /\ Remembers(frame'[c].req) =>
                 Has(events', Done(Key(frame'[c].req)))
    BY DEF Traced, Has, Done, Event, Remembers, Keyed, Key
  <1>3. ASSUME NEW c \in Callers, ToolReturn(c)  PROVE Traced'
    <2>1. /\ seenOk' = seenOk /\ frame' = frame /\ pc'[c] = "record"
          /\ \A d \in Callers \ {c} : pc'[d] = pc[d]
      BY <1>3 DEF ToolReturn, Goto, TypeOK
    <2>2. Remembers(frame[c].req) => Has(events', Done(Key(frame[c].req)))
      <3>1. PICK e \in Entry : /\ e \in ToolDone /\ e.cost = frame[c].req.cost
                               /\ e.status # "blocked"
                               /\ Remembers(frame[c].req) => e \in Done(Key(frame[c].req))
                               /\ Completes(events, events', e)
        BY <1>3, ReturnAdds
      <3>2. PICK mid \in Seq(Event) : Grows(events, mid, Passing) /\ events' = mid \o << e >>
        BY <3>1 DEF Completes
      <3>3. Len(events') \in DOMAIN events' /\ events'[Len(events')] = e
        BY <3>2
      <3>4. QED  BY <3>1, <3>3 DEF Has
    <2>3. QED  BY <1>1, <1>2, <2>1, <2>2 DEF Traced
  <1>4. ASSUME NEW c \in Callers, ToolRecord(c)  PROVE Traced'
    <2>1. /\ frame' = frame /\ pc[c] = "record" /\ pc'[c] = "guard"
          /\ \A d \in Callers \ {c} : pc'[d] = pc[d]
          /\ seenOk' = IF Remembers(frame[c].req) THEN seenOk \cup {Key(frame[c].req)}
                                                  ELSE seenOk
      BY <1>4 DEF ToolRecord, Goto, TypeOK
    <2>2. QED  BY <1>1, <1>2, <2>1 DEF Traced
  <1>5. CASE \A c \in Callers : ~ToolReturn(c) /\ ~ToolRecord(c)
    <2>1. Uncharged' = Uncharged /\ \A c \in Uncharged : frame'[c] = frame[c]
      BY <1>5, UnchargedSame
    <2>2. \A c \in Callers : pc'[c] = "record" => pc[c] = "record" /\ frame'[c] = frame[c]
      BY <2>1 DEF Uncharged
    <2>3. seenOk' = seenOk
      <3>1. ASSUME NEW c \in Callers, ToolStep(c)  PROVE seenOk' = seenOk
        BY <1>5, <3>1 DEF ToolStep, ToolCheck, ToolBlocked, ToolLookup, ToolServe, ToolRaise,
                          ToolGetRaises, ToolPutRaises, ToolGuard
      <3>2. ASSUME NEW c \in Callers, ModelStep(c) \/ RetryStep(c)  PROVE seenOk' = seenOk
        BY <3>2, OtherCalls
      <3>3. QED
        BY <3>1, <3>2 DEF Next, StartRun, FinishRun, CacheForget, OtherRunStores, vars
    <2>4. QED  BY <1>1, <1>2, <2>2, <2>3 DEF Traced
  <1>6. QED  BY <1>3, <1>4, <1>5

\* An intervention against duplicates points at a repetition in the trace, and
\* one for cost at a budget that is exceeded, for good.
Grounded ==
    /\ Has(events, Duplicate) => Repeated(events)
    /\ Has(events, AppliedBy("cost_budget")) => CostExceeded

\* Every step keeps that too: the log and the cost only grow.
LEMMA GroundedStep ==
    ASSUME TypeOK, CheckedCallers, Traced, Grounded, [Next]_vars
    PROVE  Grounded'
  <1>0. /\ events \in Seq(Event) /\ Entry \subseteq Event /\ Passing \subseteq Entry
        /\ cost \in Nat
    BY DEF TypeOK, Entry, Passing
  <1>1. Grounded' <=>
            /\ Has(events', Duplicate) => Repeated(events')
            /\ Has(events', AppliedBy("cost_budget")) => CostExceeded'
    BY DEF Grounded, Has, Repeated, Duplicate, AppliedBy, Applications, Done, ToolDone,
           Event, Keys
  <1>2. CostExceeded => CostExceeded'
    <2>1. cost' \in Nat /\ cost <= cost'
      <3>1. ASSUME NEW c \in Callers, ToolRecord(c)  PROVE cost' \in Nat /\ cost <= cost'
        <4>1. frame[c].req.cost \in Nat
          BY <3>1, ToolFrame, RequestType DEF ToolRecord
        <4>2. cost' = cost + frame[c].req.cost
          BY <3>1 DEF ToolRecord, Charge
        <4>3. QED  BY <1>0, <4>1, <4>2
      <3>2. ASSUME NEW c \in Callers, ToolReturn(c)  PROVE cost' = cost
        BY <3>2 DEF ToolReturn
      <3>3. CASE \A c \in Callers : ~ToolReturn(c) /\ ~ToolRecord(c)
        BY <1>0, <3>3, UnchargedSame
      <3>4. QED  BY <1>0, <3>1, <3>2, <3>3
    <2>2. QED  BY <1>0, <2>1, RunAssumption DEF CostExceeded
  <1>3. Has(events', AppliedBy("cost_budget")) => CostExceeded'
    <2>1. CASE \A c \in Callers : ToolGuard(c) => events' = events
      <3> DEFINE New == Entry \ AppliedBy("cost_budget")
      <3>1. Grows(events, events', New)
        BY <2>1, EntriesAdded
      <3>2. New \cap AppliedBy("cost_budget") = {}
        OBVIOUS
      <3> HIDE DEF New
      <3>3. Has(events', AppliedBy("cost_budget")) => Has(events, AppliedBy("cost_budget"))
        BY <1>0, <3>1, <3>2, HasGrows
      <3>4. QED  BY <1>2, <3>3 DEF Grounded
    <2>2. ASSUME NEW c \in Callers, ToolGuard(c), events' # events
          PROVE  CostExceeded'
      BY <1>2, <2>2, CostGuardAdds
    <2>3. QED  BY <2>1, <2>2
  <1>4. Has(events', Duplicate) => Repeated(events')
    <2>1. CASE \A c \in Callers : ~ToolBlocked(c)
      <3> DEFINE New == Entry \ Duplicate
      <3>1. Grows(events, events', New)
        BY <2>1, EntriesAdded DEF Duplicate
      <3>2. New \cap Duplicate = {}
        OBVIOUS
      <3> HIDE DEF New
      <3>3. /\ Has(events', Duplicate) => Has(events, Duplicate)
            /\ Repeated(events) => Repeated(events')
        BY <1>0, <3>1, <3>2, HasGrows
      <3>4. QED  BY <3>3 DEF Grounded
    <2>2. ASSUME NEW c \in Callers, ToolBlocked(c)  PROVE Repeated(events')
      <3> DEFINE k == Key(frame[c].req)
      <3>1. PICK t \in Entry, a \in Entry, q \in Passing, d \in Entry :
                 /\ events' = (events \o << t, a >>) \o << q, d >>
                 /\ t \in Triggers /\ a \in AppliedBy("duplicate_tool_protection")
                 /\ d \in ToolDone /\ d.cost = 0 /\ d.status = "blocked"
                 /\ <<d.tool, d.hash>> = Key(frame[c].req)
        BY <2>2, BlockedAdds
      <3>2. k \in seenOk /\ k \in Keys
        BY <2>2 DEF CheckedCallers, ToolBlocked, TypeOK
      <3>3. PICK m \in DOMAIN events : events[m] \in Done(k)
        BY <3>2 DEF Traced, Has
      <3>4. t \in Event /\ a \in Event /\ q \in Event /\ d \in Event
        BY <1>0
      <3> DEFINE log == events \o << t, a >>
                 n == Len(events)
      <3>5. /\ log \in Seq(Event) /\ Len(log) = n + 2 /\ n \in Nat
            /\ \A i \in 1 .. n : log[i] = events[i]
        BY <1>0, <3>4
      <3> HIDE DEF log
      <3>6. /\ Len(events') = n + 4 /\ DOMAIN events' = 1 .. n + 4
            /\ events'[n + 4] = d
            /\ \A i \in 1 .. n + 2 : events'[i] = log[i]
        <4>1. events' = log \o << q, d >>
          BY <3>1 DEF log
        <4>2. QED  BY <3>4, <3>5, <4>1
      <3>7. m \in 1 .. n
        BY <1>0, <3>3
      <3>8. /\ m \in DOMAIN events' /\ n + 4 \in DOMAIN events' /\ m < n + 4
            /\ events'[m] = events[m]
        BY <3>5, <3>6, <3>7
      <3> HIDE DEF k, n
      <3>9. QED  BY <3>1, <3>2, <3>3, <3>6, <3>8 DEF Repeated, k
    <2>3. QED  BY <2>1, <2>2
  <1>5. QED  BY <1>1, <1>3, <1>4

-----------------------------------------------------------------------------
(* The two properties.                                                     *)

\* The inductive invariant.
AuditInv ==
    /\ CheckedCallers
    /\ \A i \in DOMAIN events : events[i] \in Entry
    /\ Charged
    /\ Balanced(events)
    /\ Traced
    /\ Grounded

\* It holds of an empty log (Supervisor.__init__) ...
LEMMA AuditInit == Init => AuditInv
  <1> SUFFICES ASSUME Init  PROVE AuditInv
    OBVIOUS
  <1>1. /\ events = << >> /\ cost = 0 /\ seenOk = {} /\ \A c \in Callers : pc[c] = "idle"
        /\ events \in Seq(Event) /\ DOMAIN events = {}
    BY DEF Init
  <1>2. \A E : At(events, E) = {} /\ CountIn(events, E) = 0 /\ SumIn(events, E) = 0
    <2>1. \A E : At(events, E) = {}
      BY <1>1 DEF At
    <2>2. \A E : CountIn(events, E) = 0
      <3>1. \A E : CountIn(events, E) = Cardinality(At(events, E))
        BY DEF CountIn, At
      <3>2. QED  BY <2>1, <3>1, FS_EmptySet
    <2>3. \A E : SumIn(events, E) = CostOf(events, {})
      BY <2>1 DEF SumIn
    <2>4. CostOf(events, {}) = 0
      BY FS_EmptySet, CostOfPicked
    <2>5. QED  BY <2>1, <2>2, <2>3, <2>4
  <1>3. Owed = 0
    <2>1. Uncharged = {}
      BY <1>1 DEF Uncharged
    <2>2. CostOf([c \in {} |-> frame[c].req], {}) = 0
      BY FS_EmptySet, CostOfPicked
    <2>3. QED  BY <2>1, <2>2 DEF Owed
  <1>4. \A E : ~Has(events, E)
    BY <1>1 DEF Has
  <1>5. Charged /\ Balanced(events)
    BY <1>1, <1>2, <1>3 DEF Charged, Balanced
  <1>6. CheckedCallers /\ Traced /\ Grounded
    BY <1>1, <1>4 DEF CheckedCallers, Traced, Grounded
  <1>7. QED  BY <1>1, <1>5, <1>6 DEF AuditInv

\* ... and every step keeps it.
LEMMA AuditStep == TypeOK /\ AuditInv /\ [Next]_vars => AuditInv'
  <1> SUFFICES ASSUME TypeOK, AuditInv, [Next]_vars  PROVE AuditInv'
    OBVIOUS
  <1>1. /\ CheckedCallers /\ Charged /\ Balanced(events) /\ Traced /\ Grounded
        /\ \A i \in DOMAIN events : events[i] \in Entry
    BY DEF AuditInv
  <1>2. \A i \in DOMAIN events' : events'[i] \in Entry
    <2>1. Grows(events, events', Entry \ AppliedBy("none"))
      BY <1>1, EntriesAdded
    <2>2. Grows(events, events', Entry) /\ events \in Seq(Event)
      BY <2>1, GrowsMore DEF TypeOK
    <2>3. QED  BY <1>1, <2>2, HasGrows
  <1>3. (\A i \in DOMAIN events : events[i] \in Entry)'
    BY <1>2 DEF Entry, Event, DedupOn, Decide, Explained, MarkedCall, Key
  <1>4. Balanced(events)'
    <2>1. Balanced(events')
      BY <1>1, BalancedStep
    <2>2. QED
      BY <2>1 DEF Balanced, CountIn, Triggers, Applications, AppliedBy, Skipped, Duplicate,
                  Event
  <1>5. CheckedCallers' /\ Charged' /\ Traced' /\ Grounded'
    BY <1>1, CheckedStep, ChargedStep, TracedStep, GroundedStep
  <1>6. QED  BY <1>3, <1>4, <1>5 DEF AuditInv

\* The rows of the summary add up to what they are the rows of.
LEMMA RowsAddUp ==
    ASSUME TypeOK, AuditInv, NEW type \in {"tool.completed", "model.completed"}
    PROVE  CostOf([n \in Tools |-> Row(events, type, n)], Tools)
               = CostOf(events, Of(events, type))
  <1> DEFINE S == Of(events, type)
             G == [n \in Tools |-> Row(events, type, n)]
  <1>1. events \in Seq(Event) /\ S \in SUBSET DOMAIN events
    BY DEF TypeOK, Of
  <1>2. Costs(events, S)
    <2> HIDE DEF S
    <2>1. QED  BY <1>1, LogCosts, CostsBelow
  <1>3. \A i \in S : events[i].tool \in Tools
    BY DEF AuditInv, Entry, Of
  <1>4. \A n \in Tools : G[n].cost = RowsOf(events, S, Tools)[n].cost
    BY DEF Row, RowsOf
  <1> HIDE DEF S, G
  <1>5. CostOf(events, S) = CostOf(RowsOf(events, S, Tools), Tools)
    BY <1>2, <1>3, AuditAssumption, CostOfRows
  <1>6. CostOf(G, Tools) = CostOf(RowsOf(events, S, Tools), Tools)
    BY <1>4, AuditAssumption, CostOfSame
  <1>7. CostOf(G, Tools) = CostOf(events, S)
    BY <1>5, <1>6
  <1>8. QED  BY <1>7 DEF G, S

\* What the trace costs is what the completions of tools and models cost.
LEMMA TraceSplits ==
    ASSUME TypeOK, AuditInv
    PROVE  /\ CostOf(events, DOMAIN events) =
                  CostOf(events, Of(events, "tool.completed"))
                      + CostOf(events, Of(events, "model.completed"))
           /\ CostOf(events, Of(events, "tool.completed")) = SumIn(events, ToolDone)
           /\ CostOf(events, Of(events, "tool.completed")) \in Nat
           /\ CostOf(events, Of(events, "model.completed")) \in Nat
  <1> DEFINE D == DOMAIN events
             T == Of(events, "tool.completed")
             M == Of(events, "model.completed")
             R == D \ T
  <1>1. events \in Seq(Event) /\ \A i \in D : events[i] \in Entry /\ events[i] \in Event
    BY DEF TypeOK, AuditInv
  <1>2. /\ T \in SUBSET D /\ M \in SUBSET D /\ R \in SUBSET D /\ R \ M \in SUBSET D
        /\ D \cap T = T /\ R \cap M = M
        /\ \A i \in R \ M : events[i].cost = 0
    BY <1>1 DEF Of, Entry
  <1>3. At(events, ToolDone) = T
    BY <1>1 DEF At, ToolDone, Of
  <1> HIDE DEF D, T, M, R
  <1>4. Costs(events, D)
    BY <1>1, LogCosts DEF D
  <1>5. Costs(events, T) /\ Costs(events, M) /\ Costs(events, R) /\ Costs(events, R \ M)
    BY <1>2, <1>4, CostsBelow
  <1>6. CostOf(events, D) = CostOf(events, D \cap T) + CostOf(events, D \ T)
    BY <1>4, CostOfSplit
  <1>7. CostOf(events, R) = CostOf(events, R \cap M) + CostOf(events, R \ M)
    BY <1>5, CostOfSplit
  <1>8. CostOf(events, R \ M) = 0
    BY <1>2, <1>5, CostOfNothing DEF Costs
  <1>9. CostOf(events, T) \in Nat /\ CostOf(events, M) \in Nat
    BY <1>5, CostOfType
  <1>10. CostOf(events, D) = CostOf(events, T) + CostOf(events, M)
    <2>1. /\ CostOf(events, D) = CostOf(events, T) + CostOf(events, R)
          /\ CostOf(events, R) = CostOf(events, M) + CostOf(events, R \ M)
      BY <1>2, <1>6, <1>7 DEF R
    <2>2. QED  BY <1>8, <1>9, <2>1
  <1>11. CostOf(events, T) = SumIn(events, ToolDone)
    BY <1>3 DEF SumIn
  <1>12. QED  BY <1>9, <1>10, <1>11 DEF D, T, M

\* The summary of a log of which it holds adds up.
LEMMA SummaryFollows == TypeOK /\ AuditInv => SummaryAddsUp
  <1> SUFFICES ASSUME TypeOK, AuditInv  PROVE SummaryAddsUp
    OBVIOUS
  <1> DEFINE s == Summarize(events, Tools)
  <1>1. /\ s.cost = CostOf(events, DOMAIN events)
        /\ s.per_tool = [n \in Tools |-> Row(events, "tool.completed", n)]
        /\ s.per_model = [n \in Tools |-> Row(events, "model.completed", n)]
        /\ s.policy = Count(events, "policy.triggered")
        /\ s.interventions = Count(events, "intervention.applied")
        /\ s.duplicates = Duplicates(events, Of(events, "tool.completed"))
    BY DEF Summarize
  <1>2. \A i \in DOMAIN events : events[i] \in Entry /\ events[i] \in Event
    BY DEF AuditInv, Entry
  <1>3. s.cost = CostOf(s.per_tool, Tools) + CostOf(s.per_model, Tools)
    BY <1>1, RowsAddUp, TraceSplits
  <1>4. CostOf(s.per_tool, Tools) = cost + Owed
    <2>1. CostOf(s.per_tool, Tools) = SumIn(events, ToolDone)
      BY <1>1, RowsAddUp, TraceSplits
    <2>2. QED  BY <2>1 DEF AuditInv, Charged
  <1>5. s.policy = s.interventions
    <2>1. /\ Of(events, "policy.triggered") = {i \in DOMAIN events : events[i] \in Triggers}
          /\ Of(events, "intervention.applied")
                 = {i \in DOMAIN events : events[i] \in Applications}
      BY <1>2 DEF Of, Triggers, Applications
    <2>2. QED  BY <1>1, <2>1 DEF Count, AuditInv, Balanced, CountIn
  <1>6. ASSUME DedupOn
        PROVE  /\ s.duplicates = Cardinality(Interventions("duplicate_tool_protection"))
                                 + Cardinality(LetThrough)
               /\ \A i \in LetThrough :
                     \E r \in ToolRequests :
                         r.marked /\ Key(r) = <<events[i].tool, events[i].hash>>
    <2> DEFINE Ended == Of(events, "tool.completed")
               Blocked == {i \in DOMAIN events : events[i] \in Skipped}
    <2>1. \A i \in Ended : Explained(events[i].dup, events[i].status,
                                      <<events[i].tool, events[i].hash>>)
      BY <1>2, <1>6 DEF Of, Entry
    <2>2. /\ {i \in Ended : events[i].dup} = Blocked \cup LetThrough
          /\ Blocked \cap LetThrough = {}
      BY <1>2, <2>1 DEF Of, Skipped, LetThrough, Positions, Explained
    <2>3. IsFiniteSet(Blocked) /\ IsFiniteSet(LetThrough)
      <3>1. events \in Seq(Event)
        BY DEF TypeOK
      <3>2. DOMAIN events = 1 .. Len(events) /\ Len(events) \in Nat
        BY <3>1
      <3>3. IsFiniteSet(DOMAIN events)
        BY <3>2, FS_Interval
      <3>4. Blocked \subseteq DOMAIN events /\ LetThrough \subseteq DOMAIN events
        BY DEF LetThrough, Positions
      <3>5. QED  BY <3>3, <3>4, FS_Subset
    <2>4. Cardinality(Blocked \cup LetThrough) = Cardinality(Blocked) + Cardinality(LetThrough)
      <3> HIDE DEF Blocked
      <3>1. Cardinality(Blocked \cup LetThrough)
                = Cardinality(Blocked) + Cardinality(LetThrough)
                  - Cardinality(Blocked \cap LetThrough)
        BY <2>3, FS_Union
      <3>2. Cardinality(Blocked \cap LetThrough) = 0
        BY <2>2, FS_EmptySet
      <3>3. Cardinality(Blocked) \in Nat /\ Cardinality(LetThrough) \in Nat
        BY <2>3, FS_CardinalityType
      <3>4. QED  BY <3>1, <3>2, <3>3
    <2>5. Interventions("duplicate_tool_protection")
              = {i \in DOMAIN events : events[i] \in Duplicate}
      BY <1>2 DEF Interventions, Positions, Duplicate, AppliedBy, Applications
    <2>6. Cardinality(Blocked) = Cardinality(Interventions("duplicate_tool_protection"))
      BY <2>5 DEF AuditInv, Balanced, CountIn
    <2>7. s.duplicates = Cardinality({i \in Ended : events[i].dup})
      BY <1>1 DEF Duplicates
    <2>8. \A i \in LetThrough : MarkedCall(<<events[i].tool, events[i].hash>>)
      BY <2>1 DEF LetThrough, Positions, Of, Explained
    <2> HIDE DEF Blocked, Ended
    <2>9. QED  BY <2>2, <2>4, <2>6, <2>7, <2>8 DEF MarkedCall
  <1> HIDE DEF s
  <1>7. QED  BY <1>3, <1>4, <1>5, <1>6 DEF SummaryAddsUp, s

-----------------------------------------------------------------------------
(* The offline engine over the trace.                                      *)

\* Finitely many numbers have a smallest.
LEMMA SmallestOf ==
    ASSUME NEW n \in Nat, NEW S \in SUBSET (1 .. n), S # {}
    PROVE  \E j \in S : \A i \in S : j <= i
  <1> DEFINE F == {1 .. j : j \in S}
             D == 1 .. n
  <1>1. F \in SUBSET SUBSET D /\ F # {}
    <2>1. \A j \in S : 1 .. j \in SUBSET (1 .. n)
      OBVIOUS
    <2>2. QED  BY <2>1
  <1>2. PICK T \in F : /\ IsFiniteSet(T)
                       /\ \A U \in F : U \subseteq T => U = T
    <2>1. IsFiniteSet(D)
      BY FS_Interval
    <2> HIDE DEF F, D
    <2>2. QED  BY <1>1, <2>1, SmallestMember
  <1>3. PICK j \in S : T = 1 .. j
    BY <1>2
  <1>4. ASSUME NEW i \in S, i < j  PROVE FALSE
    <2>1. 1 .. i \in F /\ 1 .. i \subseteq 1 .. j /\ j \notin 1 .. i /\ j \in 1 .. j
      BY <1>4
    <2>2. QED  BY <1>2, <1>3, <2>1
  <1>5. \A i \in S : i \in Nat /\ j \in Nat
    OBVIOUS
  <1>6. QED  BY <1>4, <1>5

\* The largest of a set of numbers that has a largest.
LEMMA LargestIs ==
    ASSUME NEW S \in SUBSET Nat, NEW m \in S, \A j \in S : j <= m
    PROVE  Engine!Max(S) = m
  <1> DEFINE Top(x) == x \in S /\ \A y \in S : x >= y
  <1>1. Top(m)
    OBVIOUS
  <1>2. \A x : Top(x) => x = m
    OBVIOUS
  <1>3. (CHOOSE x : Top(x)) = m
    <2> HIDE DEF Top
    <2>1. Top(CHOOSE x : Top(x))
      BY <1>1, Zenon
    <2>2. QED  BY <1>2, <2>1
  <1>4. Engine!Max(S) = CHOOSE x : Top(x)
    BY Zenon DEF Engine!Max
  <1>5. QED  BY <1>3, <1>4

\* The engine keeps the status of the latest completion of a call only, so the
\* success of a call may be hidden from a later repetition; the first
\* repetition sees it.
LEMMA RepetitionFound ==
    ASSUME NEW log \in Seq(Event), Repeated(log)
    PROVE  Engine!DuplicateHits(log) # {}
  <1>1. PICK k \in Keys, m \in DOMAIN log, l \in DOMAIN log :
             /\ m < l /\ log[m] \in Done(k) /\ log[l] \in ToolDone
             /\ <<log[l].tool, log[l].hash>> = k
    BY DEF Repeated
  <1> DEFINE Again == {i \in DOMAIN log : /\ m < i /\ log[i] \in ToolDone
                                          /\ <<log[i].tool, log[i].hash>> = k}
  <1>2. /\ Again \in SUBSET Nat /\ Again # {} /\ DOMAIN log \subseteq Nat
        /\ k[2] # NoHash
        /\ \A i \in DOMAIN log : log[i] \in Event
    <2>1. DOMAIN log \subseteq Nat /\ \A i \in DOMAIN log : log[i] \in Event
      OBVIOUS
    <2>2. k[2] # NoHash
      BY PolicyAssumption DEF Keys
    <2>3. QED  BY <1>1, <2>1, <2>2
  <1>3. PICK n \in Again : \A i \in Again : n <= i
    <2>1. Again \in SUBSET (1 .. Len(log)) /\ Len(log) \in Nat
      OBVIOUS
    <2> HIDE DEF Again
    <2>2. QED  BY <1>2, <2>1, SmallestOf
  <1>4. /\ n \in Nat /\ m \in Nat /\ m < n
        /\ log[m].tool = k[1] /\ log[m].hash = k[2] /\ log[m].type = "tool.completed"
        /\ log[n].tool = k[1] /\ log[n].hash = k[2] /\ log[n].type = "tool.completed"
        /\ log[m].status = "ok"
    BY <1>1, <1>2, <1>3 DEF Done, ToolDone
  <1> DEFINE S == Engine!Earlier(log, n)
  <1>5. m \in S /\ S \in SUBSET Nat
    BY <1>1, <1>2, <1>3, <1>4 DEF Engine!Earlier, Engine!HashedCompletions, Engine!SameCall
  <1>6. ASSUME NEW j \in S  PROVE j <= m
    <2>1. /\ j \in DOMAIN log /\ j \in Nat /\ j < n /\ log[j].type = "tool.completed"
          /\ log[j].tool = k[1] /\ log[j].hash = k[2] /\ log[j] \in Event
      BY <1>2, <1>4, <1>6 DEF Engine!Earlier, Engine!HashedCompletions, Engine!SameCall
    <2>2. <<log[j].tool, log[j].hash>> = k
      BY <2>1 DEF Keys
    <2>3. m < j => j \in Again
      BY <2>1, <2>2 DEF ToolDone
    <2> HIDE DEF Again
    <2>4. QED  BY <1>3, <1>4, <2>1, <2>3
  <1>7. Engine!Max(S) = m
    <2> HIDE DEF S
    <2>1. QED  BY <1>5, <1>6, LargestIs
  <1>8. Engine!SeenStatus(log, n) = "ok"
    BY <1>4, <1>5, <1>7 DEF Engine!SeenStatus
  <1>9. n \in Engine!HashedCompletions(log)
    BY <1>2, <1>3, <1>4 DEF Engine!HashedCompletions
  <1>10. QED  BY <1>8, <1>9 DEF Engine!DuplicateHits

\* What the engine adds up is what the summary adds up.
LEMMA TraceCostIs == ASSUME NEW log PROVE Engine!TraceCost(log) = CostOf(log, DOMAIN log)
  BY Zenon DEF Engine!TraceCost, Engine!MapThenSumSet, Engine!MapThenFoldSet, CostOf,
               MapThenSumSet, MapThenFoldSet

\* A budget that the live guard found exceeded is exceeded in the trace, which
\* has at least the costs the budget was charged.
LEMMA ExcessFound ==
    ASSUME TypeOK, AuditInv, CostExceeded
    PROVE  CostLimit # NoLimit /\ Engine!TraceCost(events) > CostLimit
  <1> DEFINE Whole == CostOf(events, DOMAIN events)
             Tool == CostOf(events, Of(events, "tool.completed"))
             Model == CostOf(events, Of(events, "model.completed"))
  <1>1. Whole = Tool + Model /\ Tool \in Nat /\ Model \in Nat /\ Tool = cost + Owed
    BY TraceSplits DEF AuditInv, Charged
  <1>2. cost \in Nat /\ Owed \in Nat
    <2>1. /\ IsFiniteSet(Uncharged)
          /\ \A c \in Uncharged : frame[c].req.cost \in Nat
      BY UnchargedCost
    <2>2. Costs([c \in Uncharged |-> frame[c].req], Uncharged)
      BY <2>1 DEF Costs
    <2>3. Owed \in Nat
      BY <2>2, CostOfType DEF Owed
    <2>4. QED  BY <2>3 DEF TypeOK
  <1>3. CostLimit # NoLimit /\ CostLimit \in Nat /\ cost > CostLimit
    BY RunAssumption DEF CostExceeded
  <1>4. Engine!TraceCost(events) = Whole
    BY TraceCostIs
  <1> HIDE DEF Whole, Tool, Model
  <1>5. QED  BY <1>1, <1>2, <1>3, <1>4

\* An entry that applies a policy was decided, so the policy is configured.
LEMMA AppliedDecided ==
    ASSUME TypeOK, AuditInv, NEW p, NEW i \in Interventions(p)
    PROVE  /\ events[i] \in AppliedBy(p) /\ Has(events, AppliedBy(p))
           /\ p \in PolicyIds /\ events[i].action = Decide(p)
           /\ PolicyOf[p].mode # "absent"
  <1>1. /\ i \in DOMAIN events /\ events[i] \in Entry
        /\ events[i].type = "intervention.applied" /\ events[i].policy = p
    BY DEF Interventions, Positions, AuditInv
  <1>2. events[i] \in AppliedBy(p)
    BY <1>1 DEF AppliedBy, Applications, Entry
  <1>3. p \in PolicyIds /\ events[i].action = Decide(p) /\ Decide(p) # "observe"
    BY <1>1 DEF Entry
  <1>4. PolicyOf[p].mode # "absent"
    BY <1>3 DEF Decide
  <1>5. QED  BY <1>1, <1>2, <1>3, <1>4 DEF Has

\* A policy with a hit is in the evaluation, with the action it decides.
LEMMA HitReported ==
    ASSUME NEW log, NEW max, NEW p \in PolicyIds, NEW h \in Engine!Hits(p, log, max)
    PROVE  \E d \in Engine!Evaluate(log, max) : d.policy = p /\ d.action = Decide(p)
  <1> DEFINE d == [policy |-> p, action |-> Engine!Decide(p), at |-> h]
  <1>1. d \in Engine!Evaluate(log, max)
    BY DEF Engine!Evaluate, PolicyIds, Engine!PolicyIds
  <1>2. d.policy = p /\ d.action = Decide(p)
    BY DEF Decide, Engine!Decide
  <1>3. QED  BY <1>1, <1>2

\* What the live guards did in a run of which it holds, the engine finds.
LEMMA ConfirmedFollows == TypeOK /\ AuditInv => LiveInterventionsConfirmed
  <1> SUFFICES ASSUME TypeOK, AuditInv,
                      NEW p \in {"duplicate_tool_protection", "cost_budget"},
                      NEW i \in Interventions(p)
               PROVE  \E d \in Engine!Evaluate(events, CostLimit) :
                          d.policy = p /\ d.action = events[i].action
    BY DEF LiveInterventionsConfirmed
  <1>1. /\ events[i] \in AppliedBy(p) /\ Has(events, AppliedBy(p))
        /\ p \in PolicyIds /\ events[i].action = Decide(p)
        /\ PolicyOf[p].mode # "absent"
    BY AppliedDecided
  <1>2. PICK h : h \in Engine!Hits(p, events, CostLimit)
    <2>1. CASE p = "duplicate_tool_protection"
      <3>1. Repeated(events)
        BY <1>1, <2>1 DEF AuditInv, Grounded, Duplicate
      <3>2. Engine!DuplicateHits(events) # {}
        BY <3>1, RepetitionFound DEF TypeOK
      <3>3. Engine!Hits(p, events, CostLimit) = Engine!DuplicateHits(events)
        BY <1>1, <2>1 DEF Engine!Hits
      <3>4. QED  BY <3>2, <3>3
    <2>2. CASE p = "cost_budget"
      <3>1. CostLimit # NoLimit /\ Engine!TraceCost(events) > CostLimit
        BY <1>1, <2>2, ExcessFound DEF AuditInv, Grounded
      <3>2. 0 \in Engine!Hits(p, events, CostLimit)
        BY <1>1, <2>2, <3>1 DEF Engine!Hits
      <3>3. QED  BY <3>2
    <2>3. QED  BY <2>1, <2>2
  <1>3. QED  BY <1>1, <1>2, HitReported

-----------------------------------------------------------------------------
(* The properties hold in every state.                                     *)

\* The inductive invariant holds in every state.
LEMMA AuditInvariant == Spec => [](TypeOK /\ AuditInv)
  <1>1. Init => TypeOK /\ AuditInv
    BY InitType, AuditInit
  <1>2. TypeOK /\ AuditInv /\ [Next]_vars => (TypeOK /\ AuditInv)'
    BY TypeStep, AuditStep
  <1>3. QED  BY <1>1, <1>2, PTL DEF Spec

\* At any moment of any run, whatever the callers, requests, limits and policies,
\* the summary is what the run did: its cost is what the budget was charged or
\* is about to be plus what the models took, its rows add up to it, every
\* trigger has its intervention, and with deduplication on the duplicates counted
\* are the calls blocked and others that the application marked duplicate=True
\* (summarize() of analytics/run_summary.py over the collector's events).
THEOREM SummariesAddUp == Spec => []SummaryAddsUp
  BY AuditInvariant, SummaryFollows, PTL

\* Whatever the live guards blocked as a duplicate or interrupted for its cost,
\* the offline evaluation of the same trace reports, with the same action: the
\* engine forgets a success behind a later failure, but not before its first
\* repetition, and the trace holds at least what the budget was charged
\* (policy/engine.py against the guards of sdk/supervisor.py).
THEOREM InterventionsConfirmed == Spec => []LiveInterventionsConfirmed
  BY AuditInvariant, ConfirmedFollows, PTL
=============================================================================
