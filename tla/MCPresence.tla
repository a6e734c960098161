----------------------------- MODULE MCPresence -----------------------------
(* Presence for TLC: two servers that trust each other.                       *)
EXTENDS Presence

TwoServers == {"a", "b"}
Users      == {"a1", "a2", "b1"}
UserRank   == [n \in Users |-> CASE n = "a1" -> 1 [] n = "a2" -> 2 [] n = "b1" -> 3]
UserHome   == [n \in Users |-> IF n = "b1" THEN "b" ELSE "a"]
Full       == [s \in TwoServers |-> [p \in TwoServers |-> "full"]]

=============================================================================
