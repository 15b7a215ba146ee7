----------------------------- MODULE MCAgentHost -----------------------------
(* Instances of AgentHost with an update c1 and a restart c2.               *)
EXTENDS AgentHost

CONSTANTS c1, c2
=============================================================================
