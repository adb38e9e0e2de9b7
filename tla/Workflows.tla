----------------------------- MODULE Workflows -----------------------------
(***************************************************************************)
(* The applications shipped with the library, as the sequence of calls     *)
(* each makes of its Supervisor: examples/cited_market_research,           *)
(* langgraph_demo, real_openai_agent and real_world_demo, and a callable   *)
(* run by adapters/generic.py.                                             *)
(*                                                                         *)
(* An instruction is one call with its arguments; may says that the        *)
(* function or the provider behind it can raise.  Costs are micro-dollars, *)
(* texts the sequence of their tokens (TextKeys).                          *)
(*                                                                         *)
(* X_Variant before X is X with a plausible bug, used by no specification. *)
(***************************************************************************)
EXTENDS TextKeys, SequencesExt

CONSTANTS
    NoHash, NoCall,
    Competitors,   \* what the mock search finds: eight names in the code
    Required,      \* how many validate_brief() asks for: eight in the code
    Planned        \* build_manifest(MASTER_CONTEXT) of each role (Preflight)

ASSUME CompetitorsAssumption == Competitors \in Seq(STRING)

Do(op, step, agent) ==
    [op |-> op, step |-> step, agent |-> agent, req |-> NoCall, arg |-> "none",
     may |-> FALSE]

\* The nodes of the graphs and who works in them.
Steps  == {"research", "analysis", "writing", "synthesize"}
Agents == {"researcher", "analyst", "writer"}

Node(step, agent, body) ==
    << Do("enter", step, agent) >> \o body \o << Do("leave", step, agent) >>

\* Every tool is declared idempotent; DEFAULT_CACHEABLE_TOOLS has one name.
Calling(tool, input, hash, scope, amount) ==
    [tool |-> tool, hash |-> hash, input |-> input, scope |-> scope,
     cacheable |-> tool = "search_competitors", failed |-> FALSE, marked |-> FALSE,
     slow |-> FALSE, cost |-> amount]

\* LiteLLMMockAdapter.complete: the price of a prompt of that many characters.
Price(model, chars) ==
    LET atLeast(n, m) == IF n < m THEN m ELSE n
        rate == IF model = "mock-synthesis" THEN 2 ELSE 1
    IN  rate * atLeast(chars \div 4, 50) + 2 * rate * atLeast(chars \div 8, 80)

\* DEFAULT_CACHEABLE_MODELS is empty.
Asking(model, prompt, chars) ==
    [Calling(model, prompt, NoHash, "default", Price(model, chars)) EXCEPT !.cacheable = FALSE]

Tool(step, agent, r)  == [Do("tool", step, agent) EXCEPT !.req = r]
Risky(step, agent, r) == [Tool(step, agent, r) EXCEPT !.may = TRUE]

Attach(step, agent, context) == [Do("context", step, agent) EXCEPT !.arg = context]

Slices(included, excluded, compressed) ==
    [included |-> included, excluded |-> excluded, compressed |-> compressed]

Validate(met) == [Do("validate", "", "") EXCEPT !.arg = IF met THEN "pass" ELSE "fail"]
Finish(status) == [Do("finish", "", "") EXCEPT !.arg = status]

-----------------------------------------------------------------------------
(* The cited market-research graph: researcher, analyst, writer.  f holds  *)
(* the application's flags: plan, memory and session (apply_preflight).    *)

\* mock_tools.py search_competitors and fetch_source: keyed by normalize_input().
Query  == <<"query", "AI", "runtime", "supervision", "competitors", "2026">>
Search == Calling("search_competitors", Query, Query, "default", 2000)

Fetch(c) == LET input == <<"competitor_name", c>>
            IN  Calling("fetch_source", input, input, "default", 1000)

\* What each node does first: the context, then the route of its model.  A
\* session applies the approved manifest and route, a plan routes only.
Prepare(step, planned, agent, static, f) ==
    IF f.session
    THEN << Attach(planned, agent, Planned[agent]), Do("route", planned, agent) >>
    ELSE << Attach(step, agent, IF f.plan THEN Planned[agent] ELSE static) >>

Ask(step, agent, capability, fixed, routed, prompt, chars, f) ==
    LET steered == f.session \/ f.plan
    IN  << [Do("model", step, agent) EXCEPT
               !.req = Asking(IF steered THEN routed ELSE fixed, prompt, chars),
               !.arg = IF steered THEN capability ELSE "none"] >>

\* Under "expensive" the search is repeated, with duplicate=True.
Research(s, f) ==
    LET search == Tool("research", "researcher", Search)
        again == [search EXCEPT !.req.marked = TRUE]
        static == Slices(<< <<"question">>, <<"source", "policy">>, <<"open", "questions">> >>, 2, 1)
    IN  Node("research", "researcher",
             Prepare("research", "research", "researcher", static, f)
             \o (IF s = "expensive" THEN << search, again >> ELSE << search >>)
             \o Ask("research", "researcher", "research", "mock-research",
                    "mock-research", <<"plan", "evidence">>, 69, f)
             \o (IF f.memory THEN << Do("recall", "research", "researcher") >>
                             ELSE << >>))

\* One competitor: under "expensive" the first attempt fails and is retried.
Gather(s, c) ==
    LET fetch == Tool("analysis", "analyst", Fetch(c))
        retry == [fetch EXCEPT !.op = "retry"]
        fail  == [fetch EXCEPT !.req.failed = TRUE]
    IN  IF s = "expensive" THEN << retry, fail, retry, fetch >> ELSE << fetch >>

Each(s) == FlattenSeq([i \in DOMAIN Competitors |-> Gather(s, Competitors[i])])

Analysis(s, f) ==
    LET static == Slices(<< <<"verified", "evidence">>, <<"rubric">>, <<"constraints">> >>, 2, 1)
    IN  Node("analysis", "analyst",
             Prepare("analysis", "analysis", "analyst", static, f)
             \o Each(s)
             \o Ask("analysis", "analyst", "analysis", "mock-research",
                    "mock-analysis", <<"verify", "evidence">>, 44, f))

\* synthesize_brief() over the evidence of every competitor.
Brief(s) ==
    [count |-> Len(Competitors),
     table |-> [i \in DOMAIN Competitors |->
                   [competitor |-> Competitors[i], source |-> s # "failed_validation"]]]

Writing(s, f) ==
    LET static == Slices(<< <<"verified", "facts">>, <<"audience">>, <<"format">> >>, 2, 1)
        input == <<"evidence_count", Brief(s).count>>
    IN  Node("writing", "writer",
             Prepare("writing", "synthesis", "writer", static, f)
             \o << Tool("writing", "writer",
                        Calling("synthesize_brief", input, input, "default", 3000)) >>
             \o Ask("writing", "writer", "synthesis", "mock-synthesis",
                    "mock-synthesis", <<"draft", "brief">>, 29, f))

\* validate_brief(): required fields, citations, no duplicate competitors.
ContractMet(brief) ==
    LET rows == DOMAIN brief.table
    IN  /\ brief.count >= Required
        /\ rows # {}
        /\ \A i \in rows : brief.table[i].source
        /\ \A i, j \in rows :
              brief.table[i].competitor = brief.table[j].competitor => i = j

\* run_scenario(): a run that was stopped is finished with "error", unvalidated;
\* either way the policies are evaluated over the finished trace.
Cited(s, f) ==
    LET met == ContractMet(Brief(s))
    IN  [main |-> << Do("start", "", "") >>
                  \o Research(s, f) \o Analysis(s, f) \o Writing(s, f)
                  \o << Validate(met), Finish(IF met THEN "pass" ELSE "fail"),
                        Do("evaluate", "", "") >>,
         handler |-> << Finish("error"), Do("evaluate", "", "") >>,
         catches |-> {"StopRun"}, reraises |-> FALSE]

-----------------------------------------------------------------------------
(* The other applications.                                                 *)

Scoped(tool, input, scope, amount) == Calling(tool, input, NoHash, scope, amount)

\* langgraph_demo: InstrumentedGraph.invoke starts and finishes the run; the
\* demo validates and finishes it once more.
Langgraph ==
    [main |-> << Do("start", "", "") >>
        \o Node("research", "researcher",
             << Attach("research", "researcher",
                       Slices(<< <<"question">>, <<"sourcing", "rules">> >>, 1, 1)),
                Tool("research", "researcher",
                     Scoped("search_competitors", Query, "user-A", 2000)) >>)
        \o Node("synthesize", "writer",
             << [Do("model", "synthesize", "writer") EXCEPT !.arg = "synthesis",
                    !.req = Asking("mock-synthesis", <<"brief", "on">>, 249)] >>)
        \o << Finish("ok"), Validate(TRUE), Finish("pass") >>,
     handler |-> << Finish("error") >>,
     catches |-> {"error", "StopRun"}, reraises |-> TRUE]

\* real_openai_agent: a tool without cost to speak of, one call of a provider
\* that may fail, and a verdict that does not depend on the validation.
OpenAI(s) ==
    [main |-> << Do("start", "", "") >>
        \o Node("research", "researcher",
             << Attach("research", "researcher", Slices(<< <<"top_llm_providers">> >>, 0, 0)),
                Tool("research", "researcher",
                     Scoped("list_competitors", <<"market", "AI", "models">>, "public", 500)) >>)
        \o Node("synthesize", "writer",
             << [Do("model", "synthesize", "writer") EXCEPT !.may = TRUE,
                    !.req = Asking("gpt-4o", <<"list", "the", "top">>, 300)] >>)
        \o << Validate(s = "success"), Finish("pass") >>,
     handler |-> << Finish("error") >>,
     catches |-> {"error", "StopRun"}, reraises |-> TRUE]

\* real_world_demo: an identical query, a near-identical one, the same source
\* under two scopes.  Nothing is caught; the run is finished inside its node.
RealWorld(s, f) ==
    LET call(tool, input, scope) ==
            Risky("research", "researcher", Scoped(tool, input, scope, 2000))
        search == call("search_competitors", <<"query", "observability">>, "user-A")
        source(scope) == call("fetch_source", <<"id", "s1">>, scope)
        met == s = "success"
    IN  [main |-> << Do("start", "", "") >>
            \o Node("research", "researcher",
                 (IF f.plan
                  THEN << Attach("research", "researcher",
                                 Slices(<< <<"search", "competitors", "for">> >>, 0, 0)) >>
                  ELSE << >>)
                 \o << search, search,
                       call("search_competitors", <<"query", "observability", "2026">>, "user-A"),
                       source("user-A"), source("user-B") >>
                 \o (IF f.memory THEN << Do("recall", "research", "researcher") >> ELSE << >>)
                 \o << Validate(met), Finish(IF met THEN "pass" ELSE "fail") >>),
         handler |-> << >>, catches |-> {}, reraises |-> TRUE]

\* InstrumentedAgent.run around a callable, here one that repeats a paid call
\* until its budget is gone; it opens no node and validates nothing.
Generic_PassesAnyway(s) ==
    LET call == Risky("work", "agent", Scoped("lookup", <<"key", "value">>, "default", 2000))
    IN  [main |-> << Do("start", "", "") >>
                  \o (IF s = "success" THEN << call >> ELSE << call, call, call >>)
                  \o << Finish("pass") >>,
         handler |-> << Finish("pass") >>,
         catches |-> {"error", "StopRun"}, reraises |-> TRUE]

Generic(s) ==
    LET call == Risky("work", "agent", Scoped("lookup", <<"key", "value">>, "default", 2000))
    IN  [main |-> << Do("start", "", "") >>
                  \o (IF s = "success" THEN << call >> ELSE << call, call, call >>)
                  \o << Finish("pass") >>,
         handler |-> << Finish("error") >>,
         catches |-> {"error", "StopRun"}, reraises |-> TRUE]

-----------------------------------------------------------------------------

\* The scenario of openai and real_world is what the provider or the service
\* answers.
Scenarios(app) ==
    CASE app = "cited"      -> {"success", "expensive", "failed_validation"}
      [] app = "langgraph"  -> {"success"}
      [] app = "openai"     -> {"success", "no_answer"}
      [] app = "real_world" -> {"success", "no_results"}
      [] app = "generic"    -> {"success", "expensive"}

Program(app, s, f) ==
    CASE app = "cited"      -> Cited(s, f)
      [] app = "langgraph"  -> Langgraph
      [] app = "openai"     -> OpenAI(s)
      [] app = "real_world" -> RealWorld(s, f)
      [] app = "generic"    -> Generic(s)

\* select_tier() for the contracts of the applications that plan.
TierOf(app) == IF app = "cited" THEN "high_quality" ELSE "balanced"

\* The task contracts' max_cost_usd; 0 stands for none.
LimitOf(app) ==
    CASE app = "cited" -> 1000000 [] app = "openai" -> 10000 [] app = "generic" -> 3000
      [] OTHER -> 0

Requests(program) ==
    LET main == program.main
    IN  {main[i].req : i \in {j \in DOMAIN main : main[j].op \in {"tool", "model", "retry"}}}
=============================================================================
