----------------------------- MODULE MCTurnRelay ----------------------------
(* TurnRelay for TLC.  acp has its system prompt besides.                      *)
EXTENDS TurnRelay

Bounds == [codex |-> 4, acp |-> 3, copilot |-> 5]

=============================================================================
