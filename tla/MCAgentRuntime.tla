--------------------------- MODULE MCAgentRuntime ---------------------------
(* Model values for the TLC runs of AgentRuntime.                          *)
EXTENDS AgentRuntime, TLC

(* Workers run the same code, so their names do not matter to the safety   *)
(* properties.                                                             *)
Symmetry == Permutations(Workers)
=============================================================================
