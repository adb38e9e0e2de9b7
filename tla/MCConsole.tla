------------------------------ MODULE MCConsole ------------------------------
(***************************************************************************)
(* A small console: two threads of the server, a script command, three     *)
(* built-in workflows of which one cannot be imported.                     *)
(***************************************************************************)
EXTENDS Console, TLC

CONSTANTS t1, t2, cli, server, command, r1, r2

MCActors == {t1, t2, cli}
MCProcesses == {server, command}
MCProcessOf == (t1 :> server) @@ (t2 :> server) @@ (cli :> command)

MCBuiltins == <<"cited_market_research", "real_openai_agent", "langgraph_demo">>
MCImportable == {"cited_market_research", "langgraph_demo"}
MCNames == {"cited_market_research", "real_openai_agent", "langgraph_demo", "other"}
=============================================================================
