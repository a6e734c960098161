--------------------------- MODULE MCAgentDaemon ---------------------------
(* AgentDaemon for TLC, with the constants of the code: three crashes open    *)
(* the circuit.                                                              *)
EXTENDS AgentDaemon

=============================================================================
