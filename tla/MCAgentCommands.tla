--------------------------- MODULE MCAgentCommands ---------------------------
(* Instances of AgentCommands with an ordinary command c1 and a restart c2. *)
EXTENDS AgentCommands

CONSTANTS c1, c2
=============================================================================
