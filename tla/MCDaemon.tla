------------------------------ MODULE MCDaemon ------------------------------
(***************************************************************************)
(* A small daemon: the same run id in two projects, and a client without   *)
(* the token.                                                              *)
(***************************************************************************)
EXTENDS Daemon

MCProjects == {"alpha", "beta"}
MCIds == {"r"}

Run(p) == [table |-> "project_runs", project |-> p, id |-> "r"]
Proposal(p) == [table |-> "project_proposals", project |-> p, id |-> "r"]

MCAuthorized == {Run("alpha"), Run("beta")}
MCDocuments == MCAuthorized \cup {Proposal("alpha")}
=============================================================================
