------------------------- MODULE SupervisedWorkflow -------------------------
(***************************************************************************)
(* The applications (Workflows) running on the supervisor (SupervisorRun): *)
(* one caller executes a program call by call, an exception unwinds its    *)
(* node and is caught or escapes, the trace is evaluated offline, and the  *)
(* finished runs are what the explorer, the scorecard and the packets of   *)
(* the design-partner demo are made from.  A run's settings come from the  *)
(* environment its process has at that moment.                             *)
(*                                                                         *)
(* X_Variant before X is X with a plausible bug, used by no specification. *)
(***************************************************************************)
EXTENDS Workflows, DesignPartner

CONSTANTS
    Apps,           \* applications that are run
    Environments,   \* what SUPERVISOR_* variables a process may start with
    PacketHomes,    \* bound: those of them the design-partner demo starts with
    PolicyOf,       \* DEFAULT_ENFORCE_POLICIES
    NoTool, NoResult, NoFrame, NoLimit,
    NoJob, NoNode,
    MaxRuns         \* bound: runs compared with each other

ASSUME WorkflowAssumption ==
    /\ Apps \subseteq {"cited", "langgraph", "openai", "real_world", "generic"}
    /\ MaxRuns \in Nat \ {0}
    /\ \A p \in DOMAIN PolicyOf : PolicyOf[p].action # "pause"
    /\ NoNode \notin [step : Steps, agent : Agents]

RetryLimit == 5     \* Supervisor's BudgetTracker and RETRY_BUDGET
LoopLimit  == 3     \* LOOP_LIMIT

Flags == [plan : BOOLEAN, memory : BOOLEAN, session : BOOLEAN]

Kinds == UNION {{<<a, s, f>> : s \in Scenarios(a), f \in Flags} : a \in Apps}

ProgramOf == [k \in Kinds |-> Program(k[1], k[2], k[3])]

\* What os.environ holds, what a run is started with and what it makes of it.
Words == UNION {{e[v] : v \in Variables} :
                   e \in Environments \cup {FlagPresets[p] : p \in DOMAIN FlagPresets}}

Settings == [enforce : BOOLEAN, optimize : Words \cup {"off", "dry_run"}, approved : BOOLEAN,
             file : BOOLEAN, plan : BOOLEAN, memory : BOOLEAN, keeps : BOOLEAN,
             limit : Nat \cup {NoLimit}]

Jobs == [app : Apps, scenario : UNION {Scenarios(a) : a \in Apps}, session : BOOLEAN,
         preset : {"none"} \cup DOMAIN FlagPresets, shared : BOOLEAN, set : Settings,
         before : [Variables -> Words]]

ASSUME JobsAssumption == Environments \subseteq [Variables -> Words] /\ NoJob \notin Jobs

Asked(ops) ==
    UNION {LET main == ProgramOf[k].main
           IN  {main[i].req : i \in {j \in DOMAIN main : main[j].op \in ops}} : k \in Kinds}

Every == Asked({"tool", "model", "retry"})

VARIABLES
    phase, pc, frame, seenOk, toolCache, cache, checked, cost, retries,
    events, answer, completions, interruptions, calls,   \* the Supervisor's (SupervisorRun)
    job,      \* the run in progress: application, scenario and settings
    at,       \* the instruction it has come to,
    part,     \* of "main" or of the exception "handler"
    node,     \* the node that is open
    exc,      \* the exception under way: "none", "error" or "StopRun"
    notes,    \* what events leaves out of each event
    disk,     \* the files of the cache directory that runs may share
    env,      \* os.environ
    home,     \* os.environ when the process started
    past      \* the finished runs, with their traces

app == <<job, at, part, node, exc, notes, disk, env, home, past>>
vars == <<phase, pc, frame, seenOk, toolCache, cache, checked, cost, retries,
          events, answer, completions, interruptions, calls, app>>

S(enforce, optimize, approved, limit) == INSTANCE SupervisorRun WITH
    Enforce <- enforce, Optimize <- optimize, Approved <- approved, CostLimit <- limit,
    Callers <- {"app"}, Durable <- FALSE, MaxCost <- 3000, MaxCalls <- 99,
    ToolRequests <- Asked({"tool", "retry"}), ModelRequests <- Asked({"model"}),
    Tools <- {r.tool : r \in Every}, Hashes <- {r.hash : r \in Every} \ {NoHash},
    Inputs <- {r.input : r \in Every}, Scopes <- {r.scope : r \in Every},
    Similar <- {{p[1].input, p[2].input} :
                   p \in {q \in Every \X Every : Alike(q[1].input, q[2].input)}}

\* policy/engine.py as the applications call it: evaluate(enforce=True) or
\* evaluate_observe().
Report == INSTANCE PolicyReport WITH
    Enforce <- TRUE, NoMax <- NoLimit, RetryBudget <- RetryLimit,
    Tools <- {r.tool : r \in Every}, Hashes <- {r.hash : r \in Every} \ {NoHash}

Key(r) == <<r.tool, r.hash>>
CacheKey(r) == <<r.tool, r.input, r.scope>>

-----------------------------------------------------------------------------
(* What a process reads from its environment.                              *)

\* The applications take "1" and "true"; Supervisor's own defaults only "1".
\* "3" stands for as many confirmations as the cache policy requires.
\* real_openai_agent and a callable have no variables of their own: what their
\* caller passes to Supervisor() is given in the same form.
SettingsOf(a, e) ==
    LET on(v) == e[v] \in {"1", "true"}
        mode == IF e["OPTIMIZE_MODE"] = "unset" THEN "dry_run" ELSE e["OPTIMIZE_MODE"]
        asks == IF a = "real_world" THEN on("OPTIMIZE") ELSE e["OPTIMIZE"] = "1"
    IN  [enforce  |-> a # "langgraph" /\ on("ENFORCE"),
         optimize |-> IF a = "langgraph" THEN "dry_run" ELSE IF asks THEN mode ELSE "off",
         approved |-> e["CACHE_APPROVED"] = "1" \/ e["CACHE_CONFIRMATIONS"] = "3",
         file     |-> e["CACHE_BACKEND"] = "file",
         plan     |-> a \in {"cited", "real_world"} /\ on("PLAN"),
         memory   |-> a \in {"cited", "real_world"} /\ on("MEMORY"),
         keeps    |-> IF a = "real_world" THEN on("MEMORY") ELSE e["MEMORY"] = "1",
         limit    |-> IF LimitOf(a) = 0 THEN NoLimit ELSE LimitOf(a)]

ProgramFor(j) ==
    ProgramOf[<<j.app, j.scenario,
                [plan |-> j.set.plan, memory |-> j.set.memory, session |-> j.session]>>]

Code == IF part = "main" THEN ProgramFor(job).main ELSE ProgramFor(job).handler

Blank == [step |-> "", agent |-> "", match |-> "none", saved |-> 0, label |-> "none",
          context |-> Slices(<< >>, 0, 0), counts |-> <<0, 0>>]

Init ==
    /\ phase = "new"
    /\ pc = [c \in {"app"} |-> "idle"]
    /\ frame = [c \in {"app"} |-> NoFrame]
    /\ seenOk = {} /\ checked = {}
    /\ toolCache = << >> /\ cache = << >> /\ retries = << >> /\ completions = << >>
    /\ cost = 0 /\ interruptions = 0 /\ calls = 0
    /\ events = << >> /\ notes = << >>
    /\ answer = [c \in {"app"} |-> S(FALSE, "off", FALSE, NoLimit)!NoAnswer]
    /\ job = NoJob /\ at = 1 /\ part = "main" /\ node = NoNode /\ exc = "none"
    /\ home \in Environments
    /\ env = home
    /\ disk = << >>
    /\ past = << >>

-----------------------------------------------------------------------------
(* Runs and processes                                                      *)

\* A new Supervisor; the maps hold only the keys its program can ask for.
\* shared: its cache is a directory of files, with what earlier runs left there.
NewSupervisor(requests, shared) ==
    /\ phase' = "new"
    /\ pc' = [c \in {"app"} |-> "idle"]
    /\ frame' = [c \in {"app"} |-> NoFrame]
    /\ seenOk' = {} /\ checked' = {}
    /\ toolCache' = [k \in {Key(r) : r \in requests} |-> NoResult]
    /\ completions' = [k \in {Key(r) : r \in requests} |-> 0]
    /\ cache' = [k \in {CacheKey(r) : r \in requests} |->
                     IF shared /\ k \in DOMAIN disk THEN disk[k] ELSE NoResult]
    /\ retries' = [t \in {r.tool : r \in requests} |-> 0]
    /\ cost' = 0 /\ interruptions' = 0 /\ calls' = 0
    /\ events' = << >> /\ notes' = << >>
    /\ answer' = [c \in {"app"} |-> S(FALSE, "off", FALSE, NoLimit)!NoAnswer]

Restarted == past # << >> /\ home # past[1].home

\* Bound: the pairs of runs worth comparing.  The second run is of the same
\* application and scenario, in a new process, after a packet, or sharing the
\* cache of the first.
Comparable(a, s, preset, shared) ==
    past # << >> =>
        /\ Len(past) < MaxRuns
        /\ a = past[1].app /\ s = past[1].scenario
        /\ IF Restarted THEN preset = "none" /\ ~shared
           ELSE \/ past[1].preset # "none"
                \/ past[1].shared /\ past[1].how = "returned" /\ shared

\* run_scenario() or InstrumentedAgent.run(); with a preset it is called by
\* _run_with_flags().  The cache is shared through its files in real_world_demo
\* --cross-run and where the environment asks for the file backend (bound: not
\* both, since they use different directories).
StartJob(a, s, session, preset, cross) ==
    LET around == IF preset = "none" THEN env ELSE Flagged(env, FlagPresets[preset])
        set == SettingsOf(a, around)
        shared == cross \/ set.file
        j == [app |-> a, scenario |-> s, session |-> session, preset |-> preset,
              shared |-> shared, set |-> set, before |-> env]
    IN  /\ job = NoJob
        /\ session => a = "cited" /\ preset = "none"
        /\ preset # "none" => a = "cited" /\ home \in PacketHomes
        /\ cross => a = "real_world" /\ ~set.file
        /\ Comparable(a, s, preset, shared)
        /\ job' = j /\ env' = around
        /\ at' = 1 /\ part' = "main" /\ node' = NoNode /\ exc' = "none"
        /\ NewSupervisor(Requests(ProgramFor(j)), shared)
        /\ UNCHANGED <<disk, home, past>>

\* An event with what was noted of it.
Noted(event, note) ==
    [f \in DOMAIN event \cup DOMAIN note |-> IF f \in DOMAIN event THEN event[f] ELSE note[f]]

Trace == [i \in DOMAIN events |-> Noted(events[i], notes[i])]

\* A return or an exception that nothing catches; the finally clause of
\* _run_with_flags() runs either way.
EndJob ==
    LET escaped == exc # "none" /\ ~(part = "main" /\ exc \in ProgramFor(job).catches)
        raised == escaped \/ (part = "handler" /\ ProgramFor(job).reraises)
    IN  /\ job # NoJob
        /\ node = NoNode
        /\ escaped \/ (exc = "none" /\ at > Len(Code))
        /\ past' = Append(past,
               [app |-> job.app, scenario |-> job.scenario, session |-> job.session,
                preset |-> job.preset, shared |-> job.shared, set |-> job.set,
                home |-> home, part |-> part, how |-> IF raised THEN "raised" ELSE "returned",
                trace |-> Trace])
        /\ env' = IF job.preset = "none" THEN env ELSE Restored(env, job.before)
        /\ disk' = IF job.shared THEN cache @@ disk ELSE disk
        /\ job' = NoJob
        /\ UNCHANGED <<phase, pc, frame, seenOk, toolCache, cache, checked, cost, retries,
                       events, answer, completions, interruptions, calls, at, part, node, exc, notes, home>>

\* Another process, with another environment; a comparison starts from a run
\* with no flag set.
Restart(h) ==
    /\ job = NoJob
    /\ Len(past) = 1 /\ ~Restarted
    /\ past[1].preset = "none" /\ ~past[1].session /\ ~past[1].shared
    /\ home = FlagPresets["baseline"] /\ h # home
    /\ home' = h /\ env' = h
    /\ UNCHANGED <<phase, pc, frame, seenOk, toolCache, cache, checked, cost, retries,
                   events, answer, completions, interruptions, calls, job, at, part, node, exc, notes, disk, past>>

-----------------------------------------------------------------------------
(* The calls that only emit.                                               *)

Said(type, status, note) ==
    << [event |-> Report!Plain(type, NoTool, status), note |-> note] >>

Emit(said) ==
    /\ events' = events \o [k \in DOMAIN said |-> said[k].event]
    /\ notes' = notes \o [k \in DOMAIN said |-> said[k].note]

Outside == job # NoJob /\ exc = "none" /\ pc["app"] \in {"idle", "stopped"}

Here == [Blank EXCEPT !.step = Code[at].step, !.agent = Code[at].agent]

Performs(op) ==
    /\ Outside
    /\ at <= Len(Code)
    /\ Code[at].op = op
    /\ at' = at + 1
    /\ UNCHANGED <<pc, frame, seenOk, toolCache, cache, checked, cost, retries, answer,
                   completions, interruptions, calls, job, part, exc, disk, env, home, past>>

Start ==
    LET tier == IF job.set.plan \/ job.session THEN TierOf(job.app) ELSE "none"
    IN  /\ Performs("start")
        /\ Emit(Said("run.started", "none", [Blank EXCEPT !.label = tier])
                \o (IF job.session THEN Said("preflight.approved", "none", Blank) ELSE << >>))
        /\ phase' = "running"
        /\ UNCHANGED node

Enter ==
    /\ Performs("enter")
    /\ Emit(Said("agent.started", "none", Here))
    /\ node' = [step |-> Here.step, agent |-> Here.agent]
    /\ UNCHANGED phase

Leave ==
    /\ Performs("leave")
    /\ Emit(Said("agent.finished", "ok", Here))
    /\ node' = NoNode
    /\ UNCHANGED phase

AttachContext ==
    /\ Performs("context")
    /\ Emit(Said("context.attached", "none", [Here EXCEPT !.context = Code[at].arg]))
    /\ UNCHANGED <<phase, node>>

ApplyRoute ==
    /\ Performs("route")
    /\ Emit(Said("route.applied", "none", Here))
    /\ UNCHANGED <<phase, node>>

\* remember() then retrieve_memory(): nothing is retrieved when only the
\* application's flag is on.
Recall ==
    /\ Performs("recall")
    /\ Emit(Said("memory.retrieved", "none",
                 [Here EXCEPT !.counts = <<IF job.set.keeps THEN 1 ELSE 0, 0>>]))
    /\ UNCHANGED <<phase, node>>

EmitValidation ==
    /\ Performs("validate")
    /\ Emit(Said("validation.completed", Code[at].arg, Blank))
    /\ UNCHANGED <<phase, node>>

\* finish_run(): nothing keeps it from being called twice.
FinishRun ==
    LET status == Code[at].arg
        note == [Blank EXCEPT !.counts =
                    <<Duplicates(events, Of(events, "tool.completed")),
                      Count(events, "retry.scheduled")>>]
    IN  /\ Performs("finish")
        /\ Emit(Said("run.completed", status, note)
                \o (IF status \in {"error", "fail"} THEN Said("run.failed", status, note)
                                                    ELSE << >>))
        /\ phase' = "finished"
        /\ UNCHANGED node

\* evaluate() or evaluate_observe() over the trace, appended to it.
EvaluateTrace ==
    LET found == IF job.set.enforce THEN Report!Evaluated(events, job.set.limit)
                                    ELSE Report!Observed(events)
        place(i) == IF i = 0 THEN Blank
                    ELSE [Blank EXCEPT !.step = notes[i].step, !.agent = notes[i].agent]
    IN  /\ Performs("evaluate")
        /\ Emit([k \in DOMAIN found |-> [event |-> found[k].event, note |-> place(found[k].at)]])
        /\ UNCHANGED <<phase, node>>

-----------------------------------------------------------------------------
(* tool(), model() and retry(), by the steps SupervisorRun gives them.     *)

\* The parts of each new event that SupervisorRun leaves out.  The savings of
\* a tool are the cost it was called with, if the cache had its result.
NoteOf(e) ==
    LET f == IF pc["app"] \in {"idle", "lookup"} THEN frame'["app"] ELSE frame["app"]
        reuse == e.type \in {"optimization.applied", "optimization.recommended"}
        asked == e.type \in {"tool.requested", "model.requested"}
        match == IF e.type = "optimization.applied" /\ f.match = "none" THEN "exact" ELSE f.match
    IN  [Here EXCEPT !.match = IF reuse \/ asked THEN match ELSE "none",
                     !.saved = IF reuse /\ f.hit # NoResult THEN f.req.cost ELSE 0,
                     !.label = IF e.type = "model.requested" THEN Code[at].arg ELSE "none"]

Annotate ==
    notes' = notes \o [k \in 1 .. Len(events') - Len(events) |-> NoteOf(events'[Len(events) + k])]

\* The call at the current instruction begins ...
Begins(enforce, optimize, approved, limit) ==
    /\ at <= Len(Code)
    /\ \/ /\ Code[at].op = "tool"
          /\ S(enforce, optimize, approved, limit)!ToolCheck("app", Code[at].req)
       \/ /\ Code[at].op = "model"
          /\ S(enforce, optimize, approved, limit)!ModelLookup("app", Code[at].req)
       \/ /\ Code[at].op = "retry"
          /\ S(enforce, optimize, approved, limit)!RetryRead("app", Code[at].req.tool)

\* ... and goes on.  Only what is marked so in the program raises; no model is
\* cacheable by default and no result here is beyond the file backend.
Proceeds(enforce, optimize, approved, limit) ==
    \/ S(enforce, optimize, approved, limit)!ToolBlocked("app")
    \/ S(enforce, optimize, approved, limit)!ToolLookup("app")
    \/ S(enforce, optimize, approved, limit)!ToolServe("app")
    \/ S(enforce, optimize, approved, limit)!ToolReturn("app")
    \/ S(enforce, optimize, approved, limit)!ToolRecord("app")
    \/ S(enforce, optimize, approved, limit)!ToolGuard("app")
    \/ S(enforce, optimize, approved, limit)!ModelReturn("app")
    \/ S(enforce, optimize, approved, limit)!RetryStore("app")
    \/ S(enforce, optimize, approved, limit)!RetryGuard("app")
    \/ Code[at].may /\ S(enforce, optimize, approved, limit)!ToolRaise("app")
    \/ Code[at].may /\ S(enforce, optimize, approved, limit)!ModelRaise("app")

Call ==
    /\ job # NoJob /\ exc = "none"
    /\ \E enforce, approved \in BOOLEAN, optimize \in {"off", "dry_run", "active"},
          limit \in {NoLimit, 1000000, 10000, 3000} :
          /\ job.set.enforce = enforce /\ job.set.optimize = optimize
          /\ job.set.approved = approved /\ job.set.limit = limit
          /\ \/ Begins(enforce, optimize, approved, limit)
             \/ pc["app"] \notin {"idle", "stopped"} /\ Proceeds(enforce, optimize, approved, limit)
    /\ Annotate
    /\ exc' = IF pc'["app"] = "stopped" THEN "StopRun"
              ELSE IF pc'["app"] = "idle" /\ answer'["app"].how = "raised" THEN "error"
              ELSE "none"
    /\ at' = IF pc'["app"] = "idle" /\ exc' = "none" THEN at + 1 ELSE at
    /\ UNCHANGED <<job, part, node, disk, env, home, past>>

-----------------------------------------------------------------------------
(* An exception on its way up.                                             *)

\* node() is left by its finally clause.
Unwind_NoFinally ==
    /\ job # NoJob /\ exc # "none" /\ node # NoNode
    /\ node' = NoNode
    /\ UNCHANGED <<phase, pc, frame, seenOk, toolCache, cache, checked, cost, retries, events,
                   answer, completions, interruptions, calls, job, at, part, exc, notes,
                   disk, env, home, past>>

Unwind ==
    /\ job # NoJob /\ exc # "none" /\ node # NoNode
    /\ Emit(Said("agent.finished", "ok",
                 [Blank EXCEPT !.step = node.step, !.agent = node.agent]))
    /\ node' = NoNode
    /\ UNCHANGED <<phase, pc, frame, seenOk, toolCache, cache, checked, cost, retries,
                   answer, completions, interruptions, calls, job, at, part, exc,
                   disk, env, home, past>>

Handle_InNode ==
    /\ job # NoJob /\ exc # "none"
    /\ part = "main" /\ exc \in ProgramFor(job).catches
    /\ part' = "handler" /\ at' = 1 /\ exc' = "none"
    /\ UNCHANGED <<phase, pc, frame, seenOk, toolCache, cache, checked, cost, retries, events,
                   answer, completions, interruptions, calls, job, node, notes,
                   disk, env, home, past>>

Handle ==
    /\ job # NoJob /\ exc # "none" /\ node = NoNode
    /\ part = "main" /\ exc \in ProgramFor(job).catches
    /\ part' = "handler" /\ at' = 1 /\ exc' = "none"
    /\ UNCHANGED <<phase, pc, frame, seenOk, toolCache, cache, checked, cost, retries, events,
                   answer, completions, interruptions, calls, job, node, notes,
                   disk, env, home, past>>

Next ==
    \/ \E a \in Apps : \E s \in Scenarios(a), session, cross \in BOOLEAN,
           preset \in {"none"} \cup DOMAIN FlagPresets :
           StartJob(a, s, session, preset, cross)
    \/ EndJob
    \/ \E h \in Environments : Restart(h)
    \/ Start \/ Enter \/ Leave \/ AttachContext \/ ApplyRoute \/ Recall
    \/ EmitValidation \/ FinishRun \/ EvaluateTrace
    \/ Call \/ Unwind \/ Handle

Spec == Init /\ [][Next]_vars

-----------------------------------------------------------------------------
(* Properties.  Those of whole runs are stated where a run has just ended. *)

\* Types, and what an exception leaves behind on its way: the call it left is
\* over, and the handler of an application runs outside its nodes (node(),
\* InstrumentedGraph.invoke and the try blocks of the applications).
TypeOK ==
    /\ phase \in {"new", "running", "finished"}
    /\ part \in {"main", "handler"} /\ at \in Nat \ {0}
    /\ exc \in {"none", "error", "StopRun"}
    /\ Len(notes) = Len(events)
    /\ DOMAIN env = Variables /\ DOMAIN home = Variables
    /\ Len(past) \in 0 .. MaxRuns
    /\ exc # "none" => pc["app"] \in {"idle", "stopped"}
    /\ exc = "StopRun" => pc["app"] = "stopped"
    /\ part = "handler" => node = NoNode

Ended == job = NoJob /\ past # << >>
Latest == past[Len(past)]

CallEvents == {"tool.requested", "tool.completed", "model.requested", "model.completed",
               "retry.scheduled", "retry.completed", "optimization.applied",
               "optimization.recommended"}

\* However a run ends, each node it entered was left once, no two overlap, and
\* every call was made in the node it names, by its agent (the finally clause
\* of node() under StopRun and under an exception of a tool or a model).
NodesClosed ==
    Ended =>
        LET t == Latest.trace
            marks == {i \in DOMAIN t : t[i].type \in {"agent.started", "agent.finished"}}
            upto(i) == {j \in marks : j < i}
            opened(i) == upto(i) # {} /\ t[Max(upto(i))].type = "agent.started"
            same(i) == LET m == Max(upto(i))
                       IN  t[m].step = t[i].step /\ t[m].agent = t[i].agent
        IN  /\ ~opened(Len(t) + 1)
            /\ \A i \in marks : IF t[i].type = "agent.started" THEN ~opened(i)
                                ELSE opened(i) /\ same(i)
            /\ Latest.app # "generic" =>
                   \A i \in DOMAIN t : t[i].type \in CallEvents => opened(i) /\ same(i)

\* A verdict is the last word on the calls, a run that was interrupted gets no
\* other than "error", and where the verdict is taken from a validation "pass" comes
\* after one that passed: real_openai_agent validates and passes anyway (run_scenario
\* of the demos, finish_run, InstrumentedGraph.invoke and InstrumentedAgent.run).
VerdictsEarned ==
    Ended =>
        LET t == Latest.trace
            verdicts == Of(t, "run.completed")
        IN  /\ Latest.part = "handler" \/ Latest.how = "raised" =>
                   \A i \in verdicts : t[i].status = "error"
            /\ Latest.how = "returned" => verdicts # {}
            /\ \A i \in verdicts : \A j \in i .. Len(t) : t[j].type \notin CallEvents
            /\ \A i \in verdicts :
                   t[i].status = "pass" /\ Latest.app \in {"cited", "langgraph", "real_world"} =>
                       ValidationPassed(SubSeq(t, 1, i))

Pair == Ended /\ Len(past) = 2 /\ Restarted

\* Interventions of the live guards come before the verdict, those of the
\* offline evaluation after it.
Interventions(t, live) ==
    {i \in Of(t, "intervention.applied") : live <=> i < FirstOf(t, "run.completed")}

ToolsOf(t, among, policy) == {t[i].tool : i \in {j \in among : t[j].policy = policy}}

\* Observing foretells enforcing.  What evaluate_observe() reports of a run of
\* the research graph without flags is what the live guards do to the same
\* scenario once they are on: the same tools are deduplicated, the retries are
\* stopped if and only if their budget was reported exceeded, and where nothing
\* was reported nothing is done to the calls.  The offline evaluation of any run
\* of the graph finds the duplicates that were counted live.
EnforcementForeseen ==
    Ended /\ Latest.app = "cited" =>
        LET b == past[1].trace
            t == Latest.trace
            told == Interventions(b, FALSE)
            done == Interventions(t, TRUE)
            calls_of(x) == SelectSeq([i \in DOMAIN x |-> <<x[i].type, x[i].tool, x[i].status>>],
                                     LAMBDA c : c[1] \in {"tool.requested", "tool.completed",
                                                          "retry.scheduled"})
        IN  /\ Latest.how = "returned" =>
                   Duplicates(t, Of(t, "tool.completed")) =
                       Cardinality({i \in Interventions(t, FALSE) :
                                        t[i].policy = "duplicate_tool_protection"})
            /\ Pair /\ Latest.set.enforce =>
                   /\ ToolsOf(b, told, "duplicate_tool_protection") =
                          ToolsOf(t, done, "duplicate_tool_protection")
                   /\ (ToolsOf(b, told, "retry_budget") # {}) <=>
                          (ToolsOf(t, done, "retry_budget") # {})
                   /\ told = {} => done = {} /\ calls_of(t) = calls_of(b)

\* What the calls that were deduplicated cost where they ran.
Avoided(baseline, t) ==
    LET blocked == {i \in Of(t, "tool.completed") : t[i].status = "blocked"}
        price(i) == baseline[Min({j \in Of(baseline, "tool.completed") :
                                     /\ baseline[j].tool = t[i].tool
                                     /\ baseline[j].hash = t[i].hash})].cost
    IN  MapThenSumSet(price, blocked)

Scored == Ended /\ Len(past) = 2 /\ (Restarted \/ Latest.shared)
Card == Scorecard(past[1].trace, Latest.trace)
Complete(r) == r.how = "returned" /\ r.part = "main"
Served(r) == MapThenSumSet(LAMBDA i : r.trace[i].saved, Of(r.trace, "optimization.applied"))

\* A scorecard claims a saving only of two runs that went through and passed,
\* and what it reports as saved is what reuse and deduplication avoided, to the
\* micro-dollar; an interrupted run, though cheaper, never counts (scorecard()
\* over a run without flags and a supervised one, or over two runs that share a
\* file cache).
SavingsClaimed ==
    Scored => (Card.claimed_savings > 0 => Complete(past[1]) /\ Complete(Latest))

ScorecardHonest ==
    /\ SavingsClaimed
    /\ Scored /\ Complete(past[1]) /\ Complete(Latest) =>
           Card.cost_delta = Served(Latest) - Served(past[1]) + Avoided(past[1].trace, Latest.trace)

\* The process finds its environment as it left it, once a packet is made, but
\* for CACHE_APPROVED, which stays as a preset has set it (_run_with_flags pops
\* and restores only its env_keys).
KeysRestored == Ended => \A v \in Variables \ {"CACHE_APPROVED"} : env[v] = home[v]

\* A packet is made under the settings its preset stands for, whatever variables
\* its process was started with and whatever packets it made before, with two
\* exceptions.  The approval of the cache may be left over, and matters to no
\* preset that did not give it itself; the backend of the cache is the one that
\* the process was started with.
AsMeant(r) ==
    r.preset # "none" =>
        LET meant == SettingsOf(r.app, FlagPresets[r.preset])
        IN  /\ \A f \in DOMAIN meant \ {"approved", "file"} : r.set[f] = meant[f]
            /\ meant.optimize = "active" => r.set.approved
            /\ r.set.file <=> r.home["CACHE_BACKEND"] = "file"

SettingsMeant == Ended => AsMeant(Latest)


Total(rows, field) == MapThenSumSet(LAMBDA x : rows[x][field], DOMAIN rows)

\* The views of one run agree with each other and with the run: the rows of
\* its steps and those of its tools and models add up to its totals, its agents
\* and its steps have the same events, the edges of the execution graph form one
\* path through all its steps, each trigger has its intervention, the counts on
\* run.completed are those of the summary, and no more calls are served than were
\* matched unless another run left its results (summarize(), explore() and
\* finish_run()).
ViewsAgree ==
    Ended =>
        LET t == Latest.trace
            view == Explore(t, {r.tool : r \in Every}, TRUE)
            sum == view.summary
            rows == view.details.per_step
            graph == view.execution_graph
            edges == graph.edges
        IN  /\ Total(rows, "cost") = sum.cost
            /\ Total(sum.per_tool, "cost") + Total(sum.per_model, "cost") = sum.cost
            /\ Total(rows, "tool_calls") = sum.tool_calls
            /\ Total(rows, "model_calls") = sum.model_calls
            /\ Total(rows, "retries") = sum.retries
            /\ Total(view.agent_graph, "events") =
                   Total([s \in DOMAIN graph.nodes |-> [events |-> graph.nodes[s]]], "events")
            /\ \A i \in 1 .. Len(edges) - 1 : edges[i][2] = edges[i + 1][1]
            /\ edges # << >> => {edges[i][2] : i \in DOMAIN edges} \cup {edges[1][1]} = DOMAIN rows
            /\ [i \in DOMAIN view.policy.policy |-> view.policy.policy[i].policy] =
                   [i \in DOMAIN view.policy.interventions |-> view.policy.interventions[i].policy]
            /\ \A i \in Of(t, "run.completed") : t[i].counts = <<sum.duplicates, sum.retries>>
            /\ view.cache.served > view.cache.hits => Latest.shared
=============================================================================
