---------------------------- MODULE MCAgentServer ----------------------------
(* TLC instance of AgentServer. *)
EXTENDS AgentServer
=============================================================================
