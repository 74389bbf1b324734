------------------------ MODULE MCAgentHostCoordinator ------------------------
(* Small instances of AgentHostCoordinator for TLC. *)
EXTENDS AgentHostCoordinator
==============================================================================
