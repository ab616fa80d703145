---------------------------- MODULE MCAgentLoop ----------------------------
(* Instances of AgentLoop. *)
EXTENDS AgentLoop
=============================================================================
