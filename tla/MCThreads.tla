----------------------------- MODULE MCThreads ------------------------------
(* Channels and Threads for TLC: the system channel, one channel of the users  *)
(* and the name its thread is promoted to.  An agenda is as many commands as   *)
(* it takes to reach one group of races.                                       *)
EXTENDS Threads

Nicks     == {"x", "y"}
ChanNames == {"sys", "r", "t"}

Nothing == [k \in Commands |-> 0]
Kicks    == [Nothing EXCEPT !["JOIN"] = 2, !["ROOMCREATE"] = 1, !["ROOMKICK"] = 1, !["PART"] = 2,
                          !["hangup"] = 1]
Archives == [Nothing EXCEPT !["JOIN"] = 2, !["ROOMCREATE"] = 1, !["ROOMMETA"] = 1,
                          !["ROOMARCHIVE"] = 2]
Again    == [Nothing EXCEPT !["ROOMCREATE"] = 2, !["ROOMARCHIVE"] = 2]
Modes    == [Nothing EXCEPT !["JOIN"] = 3, !["MODE"] = 1, !["PART"] = 1, !["CHANARCHIVE"] = 1]
Leaves   == [Nothing EXCEPT !["JOIN"] = 3, !["PART"] = 1, !["QUIT"] = 1, !["hangup"] = 1]
Talks    == [Nothing EXCEPT !["JOIN"] = 2, !["THREAD"] = 1, !["REPLY"] = 3, !["PROMOTE"] = 1]
Closings == [Nothing EXCEPT !["JOIN"] = 2, !["THREAD"] = 1, !["REPLY"] = 1, !["CLOSE"] = 1,
                          !["PROMOTE"] = 2]
Plans == {Kicks, Archives, Again, Modes, Leaves, Talks, Closings}

=============================================================================
