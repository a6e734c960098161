---------------------------- MODULE MCPermBroker ----------------------------
(* PermBroker for TLC: one tool that is high-risk and one that is not, and a  *)
(* policy seeded with one narrow rule.                                        *)
EXTENDS PermBroker

ToolNames == {"Bash", "Web"}
Risky     == {"Bash"}
SafeReads == {[tool |-> "Bash", narrow |-> TRUE]}

=============================================================================
