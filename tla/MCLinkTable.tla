---------------------------- MODULE MCLinkTable -----------------------------
(* LinkTable for TLC: the sets of servers and the configurations that are     *)
(* checked.                                                                   *)
EXTENDS LinkTable

TwoServers   == {"a", "b"}
BothWays     == [s \in TwoServers |-> TwoServers \ {s}]
AllReachable == {<<"a", "b">>, <<"b", "a">>}

\* Two spokes that dial a hub, which cannot dial them.
StarServers   == {"hub", "x", "y"}
Star          == [s \in StarServers |-> IF s = "hub" THEN {"x", "y"} ELSE {"hub"}]
StarReachable == {<<"x", "hub">>, <<"y", "hub">>}

=============================================================================
