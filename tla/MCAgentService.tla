--------------------------- MODULE MCAgentService ---------------------------
(* Instance of AgentService for TLC, on the constants of MCAgentActions.     *)
EXTENDS AgentService, MCAgentActions
=============================================================================
