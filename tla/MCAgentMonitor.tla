--------------------------- MODULE MCAgentMonitor ---------------------------
(* Instances of AgentMonitor.                                                *)
EXTENDS AgentMonitor

CONSTANTS a1, a2
=============================================================================
