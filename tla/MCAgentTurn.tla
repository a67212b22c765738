----------------------------- MODULE MCAgentTurn -----------------------------
(* AgentTurn with two messages, one of each kind of call and one subagent. *)
EXTENDS AgentTurn

=============================================================================
