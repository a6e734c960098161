------------------------------ MODULE DmSpool -------------------------------
(***************************************************************************)
(* Direct messages to a boss whose bridge may be away: the server's spool, *)
(* its hand-out over CHATHISTORY, the bridge with its inbox file, and the  *)
(* session that reads the inbox (culture/agentirc/client.py,               *)
(* dm_spool_store.py, skills/chathistory.py; culture/clients/bridge/       *)
(* daemon.py, irc_transport.py, _spool.py; clients/claude/cc_plugin).      *)
(*                                                                         *)
(* The spool is used from worker threads, so a handler of the server is    *)
(* suspended at every access: an insertion, a query, a look-up and a mark  *)
(* are begun in one step and done in a later one.  The server and the      *)
(* bridge notice the end of their connection each for itself; until the    *)
(* server does, the nick is taken and what it sends there is lost.  A file *)
(* lock makes an append to the inbox and a drain of it atomic.             *)
(***************************************************************************)
EXTENDS Naturals, Sequences, FiniteSets

CONSTANTS
  MaxMsgs,     \* bound: direct messages sent to the boss
  Limit,       \* CHATHISTORY_LIMIT_MAX
  Shown,       \* how many entries of a drained inbox a hook shows
  MaxBreaks,   \* bound: connections that break
  MaxCrashes   \* bound: times the server or the bridge dies

ASSUME LimitAssumption == Limit \in Nat \ {0} /\ Shown \in Nat \ {0}
ASSUME SpoolBoundsAssumption == MaxMsgs \in Nat /\ MaxBreaks \in Nat /\ MaxCrashes \in Nat

Msgs == 1..MaxMsgs

VARIABLES
  sent,       \* how many messages were sent
  inserting,  \* messages whose insertion has been begun
  spool,      \* spool[m]: the row of m: "none", "unread", "read" or "purged"
  old,        \* messages up to this one are older than 30 days
  reg,        \* whose the nick is in IRCd.clients: "none", the "current" or a "stale" connection
  busy,       \* the command of the bridge that the server is at
  up,         \* the bridge runs
  link,       \* the bridge's connection: "down", "up"
  toServer,   \* lines the bridge sent and the server has not read
  toBridge,   \* lines the server sent and the bridge has not read
  pending,    \* AgentDaemon._pending_chathistory
  inbox,      \* the bridge's inbox file
  reached,    \* messages that were ever in it
  seen,       \* messages that the session was shown
  breaks,     \* how many connections broke
  crashes     \* how often a process died

serverVars == <<sent, inserting, spool, old, reg, busy>>
wireVars   == <<link, toServer, toBridge>>
bridgeVars == <<up, pending, inbox, reached>>
faultVars  == <<breaks, crashes>>
vars       == <<serverVars, wireVars, bridgeVars, seen, faultVars>>

Line(verb, m) == [verb |-> verb, msg |-> m]
Free == Line("free", 0)

Init ==
  /\ sent = 0 /\ inserting = {}
  /\ spool = [m \in Msgs |-> "none"]
  /\ old = 0
  /\ reg = "none" /\ busy = Free
  /\ up = FALSE /\ link = "down"
  /\ toServer = <<>> /\ toBridge = <<>>
  /\ pending = {} /\ inbox = <<>> /\ reached = {}
  /\ seen = {}
  /\ breaks = 0 /\ crashes = 0

-----------------------------------------------------------------------------
(* The server: direct messages.                                             *)

Written(lines) == toBridge' = IF link = "up" /\ reg = "current" THEN toBridge \o lines
                              ELSE toBridge

\* _send_to_client: to the connection that has the nick, or into the spool.
SendLive ==
  /\ sent < MaxMsgs
  /\ reg # "none"
  /\ sent' = sent + 1
  /\ Written(<<Line("PRIVMSG", sent + 1)>>)
  /\ UNCHANGED <<inserting, spool, old, reg, busy, link, toServer, bridgeVars, seen, faultVars>>

SendSpooled ==
  /\ sent < MaxMsgs
  /\ reg = "none"
  /\ sent' = sent + 1
  /\ inserting' = inserting \cup {sent + 1}
  /\ UNCHANGED <<spool, old, reg, busy, wireVars, bridgeVars, seen, faultVars>>

\* The insertion commits, or fails and the sender is told so.
Inserted(m) ==
  /\ m \in inserting
  /\ inserting' = inserting \ {m}
  /\ \/ spool' = [spool EXCEPT ![m] = "unread"]
     \/ UNCHANGED spool
  /\ UNCHANGED <<sent, old, reg, busy, wireVars, bridgeVars, seen, faultVars>>

Age ==
  /\ old < sent
  /\ old' = old + 1
  /\ UNCHANGED <<sent, inserting, spool, reg, busy, wireVars, bridgeVars, seen, faultVars>>

\* gc: the unread rows that are too old; of the rows that were read any that were
\* so for more than seven days.
Purged(M) == /\ \A m \in M : spool[m] = "read" \/ (spool[m] = "unread" /\ m <= old)
             /\ \A m \in 1..old : spool[m] = "unread" => m \in M
Gc ==
  \E M \in SUBSET Msgs :
    /\ M # {} /\ Purged(M)
    /\ spool' = [m \in Msgs |-> IF m \in M THEN "purged" ELSE spool[m]]
    /\ UNCHANGED <<sent, inserting, old, reg, busy, wireVars, bridgeVars, seen, faultVars>>

-----------------------------------------------------------------------------
(* The server: the bridge's commands, one at a time.                        *)

Command(verb) == /\ busy = Free /\ link = "up" /\ toServer # <<>>
                 /\ Head(toServer).verb = verb
                 /\ toServer' = Tail(toServer)

\* A connection that ended leaves the nick taken until the server notices.
Register ==
  /\ Command("NICK")
  /\ IF reg = "none" THEN reg' = "current" /\ toBridge' = Append(toBridge, Line("001", 0))
     ELSE toBridge' = Append(toBridge, Line("433", 0)) /\ UNCHANGED reg
  /\ UNCHANGED <<sent, inserting, spool, old, busy, link, bridgeVars, seen, faultVars>>

Notice ==
  /\ reg = "stale" /\ busy = Free
  /\ reg' = "none"
  /\ UNCHANGED <<sent, inserting, spool, old, busy, wireVars, bridgeVars, seen, faultVars>>

\* _handle_drain and _handle_delete, up to the first access to the spool.
Begin ==
  /\ \E verb \in {"CHATHISTORY", "DELETE"} : Command(verb)
  /\ busy' = Head(toServer)
  /\ UNCHANGED <<sent, inserting, spool, old, reg, link, toBridge, bridgeVars, seen, faultVars>>

Unread == {m \in Msgs : spool[m] = "unread"}

\* query_for_nick: the oldest Limit rows that are unread, in the order they were sent.
Before(m) == Cardinality({k \in Unread : k < m})
Oldest    == {m \in Unread : Before(m) < Limit}
Batch     == [i \in 1..Cardinality(Oldest) |->
                Line("entry", CHOOSE m \in Oldest : Before(m) = i - 1)]

\* Seeded fault: a row that is handed out counts as read.
HandOutReading ==
  /\ busy.verb = "CHATHISTORY"
  /\ Written(Append(Batch, Line("END", 0)))
  /\ spool' = [m \in Msgs |-> IF m \in Oldest THEN "read" ELSE spool[m]]
  /\ busy' = Free
  /\ UNCHANGED <<sent, inserting, old, reg, link, toServer, bridgeVars, seen, faultVars>>
HandOut ==
  /\ busy.verb = "CHATHISTORY"
  /\ Written(Append(Batch, Line("END", 0)))
  /\ busy' = Free
  /\ UNCHANGED <<sent, inserting, spool, old, reg, link, toServer, bridgeVars, seen, faultVars>>

\* get_by_msg_id finds the row, read or not.
Find ==
  /\ busy.verb = "DELETE"
  /\ busy' = IF spool[busy.msg] \in {"unread", "read"} THEN [busy EXCEPT !.verb = "mark"] ELSE Free
  /\ UNCHANGED <<sent, inserting, spool, old, reg, wireVars, bridgeVars, seen, faultVars>>

\* mark_delivered.
Mark ==
  /\ busy.verb = "mark"
  /\ spool' = IF spool[busy.msg] = "unread" THEN [spool EXCEPT ![busy.msg] = "read"] ELSE spool
  /\ busy' = Free
  /\ UNCHANGED <<sent, inserting, old, reg, wireVars, bridgeVars, seen, faultVars>>

-----------------------------------------------------------------------------
(* The connection.                                                          *)

Lost == /\ link' = "down"
        /\ toServer' = <<>> /\ toBridge' = <<>>
        /\ reg' = IF reg = "current" THEN "stale" ELSE reg

Dialed == link' = "up" /\ toServer' = <<Line("NICK", 0)>> /\ toBridge' = <<>>

Break ==
  /\ link = "up" /\ breaks < MaxBreaks
  /\ Lost
  /\ breaks' = breaks + 1
  /\ UNCHANGED <<sent, inserting, spool, old, busy, bridgeVars, seen, crashes>>

\* _reconnect, once its delay is over.
Reconnect ==
  /\ up /\ link = "down"
  /\ Dialed
  /\ UNCHANGED <<serverVars, bridgeVars, seen, faultVars>>

\* culture bridge start.
BridgeStart ==
  /\ ~up
  /\ up' = TRUE
  /\ Dialed
  /\ UNCHANGED <<serverVars, pending, inbox, reached, seen, faultVars>>

Died == up' = FALSE /\ pending' = {} /\ Lost

BridgeCrash ==
  /\ up /\ crashes < MaxCrashes
  /\ Died
  /\ crashes' = crashes + 1
  /\ UNCHANGED <<sent, inserting, spool, old, busy, inbox, reached, seen, breaks>>

\* What was not committed is gone, and was never confirmed.
ServerCrash ==
  /\ crashes < MaxCrashes
  /\ crashes' = crashes + 1
  /\ reg' = "none" /\ busy' = Free /\ inserting' = {}
  /\ link' = "down" /\ toServer' = <<>> /\ toBridge' = <<>>
  /\ UNCHANGED <<sent, spool, old, bridgeVars, seen, breaks>>

-----------------------------------------------------------------------------
(* The bridge.                                                              *)

Receives(verb) == up /\ link = "up" /\ toBridge # <<>> /\ Head(toBridge).verb = verb
ReadOn == toBridge' = Tail(toBridge)

Say(line) == toServer' = IF link = "up" THEN Append(toServer, line) ELSE toServer

\* _on_irc_welcome.
\* Seeded fault: the spool is asked for when the bridge starts, not when it reconnects.
WelcomeOnce ==
  /\ Receives("001") /\ ReadOn
  /\ IF breaks = 0 THEN Say(Line("CHATHISTORY", 0)) ELSE UNCHANGED toServer
  /\ UNCHANGED <<serverVars, link, bridgeVars, seen, faultVars>>
Welcome ==
  /\ Receives("001") /\ ReadOn
  /\ Say(Line("CHATHISTORY", 0))
  /\ UNCHANGED <<serverVars, link, bridgeVars, seen, faultVars>>

\* _on_nick_in_use: the bridge gives up.
NickInUse ==
  /\ Receives("433")
  /\ Died
  /\ UNCHANGED <<sent, inserting, spool, old, busy, inbox, reached, seen, faultVars>>

Spooled(m) == inbox' = Append(inbox, m) /\ reached' = reached \cup {m}

\* _on_mention, of a message to the bridge's own nick.
Live ==
  /\ Receives("PRIVMSG") /\ ReadOn
  /\ Spooled(Head(toBridge).msg)
  /\ UNCHANGED <<serverVars, link, toServer, up, pending, seen, faultVars>>

\* _on_chathistory_entry.
Entry ==
  /\ Receives("entry") /\ ReadOn
  /\ pending' = pending \cup {Head(toBridge).msg}
  /\ Spooled(Head(toBridge).msg)
  /\ UNCHANGED <<serverVars, link, toServer, up, seen, faultVars>>

End ==
  /\ Receives("END") /\ ReadOn
  /\ UNCHANGED <<serverVars, link, toServer, bridgeVars, seen, faultVars>>

-----------------------------------------------------------------------------
(* The session.                                                             *)

\* A hook drains the inbox and shows the first entries of it; "mesh inbox" shows
\* them all; if the answer does not come in time nothing is shown.
Drain ==
  /\ up /\ inbox # <<>>
  /\ inbox' = <<>>
  /\ \E n \in {0, Shown, Len(inbox)} :
       seen' = seen \cup {inbox[i] : i \in {j \in DOMAIN inbox : j <= n}}
  /\ UNCHANGED <<serverVars, wireVars, up, pending, reached, faultVars>>

\* inbound_dm_ack: the first for a message that is pending.
Ack(m) ==
  /\ up /\ m \in seen \cap pending
  /\ pending' = pending \ {m}
  /\ Say(Line("DELETE", m))
  /\ UNCHANGED <<serverVars, link, toBridge, up, inbox, reached, seen, faultVars>>

-----------------------------------------------------------------------------

Server == \/ \E m \in Msgs : Inserted(m)
          \/ Register \/ Notice \/ Begin \/ HandOut \/ Find \/ Mark
Bridge == Reconnect \/ Welcome \/ NickInUse \/ Live \/ Entry \/ End
Session == Drain \/ \E m \in Msgs : Ack(m)

Next ==
  \/ Server \/ Bridge \/ Session
  \/ SendLive \/ SendSpooled \/ Age \/ Gc
  \/ Break \/ BridgeStart \/ BridgeCrash \/ ServerCrash

Spec == Init /\ [][Next]_vars

\* The server's loop and worker threads go on, and so do the bridge's read loop and
\* its loop of reconnections.  Nobody is sure to start a bridge or to read an inbox.
FairSpec == Spec /\ WF_vars(Server) /\ WF_vars(Bridge)

-----------------------------------------------------------------------------

Verbs == {"free", "NICK", "CHATHISTORY", "DELETE", "mark", "001", "433", "PRIVMSG", "entry", "END"}
Lines == [verb : Verbs, msg : 0..MaxMsgs]

\* Every row, line, connection and set of messages has its shape, only messages that
\* were sent are anywhere, and what is pending or was shown has been in the inbox.
TypeOK ==
  /\ sent \in 0..MaxMsgs /\ old \in 0..sent
  /\ inserting \subseteq 1..sent
  /\ spool \in [Msgs -> {"none", "unread", "read", "purged"}]
  /\ \A m \in Msgs : m > sent => spool[m] = "none"
  /\ reg \in {"none", "current", "stale"} /\ busy \in Lines
  /\ up \in BOOLEAN /\ link \in {"down", "up"}
  /\ toServer \in Seq(Lines) /\ toBridge \in Seq(Lines)
  /\ pending \subseteq reached /\ seen \subseteq reached
  /\ inbox \in Seq(1..sent) /\ reached \subseteq 1..sent
  /\ breaks \in 0..MaxBreaks /\ crashes \in 0..MaxCrashes

\* The spool, its two-phase drain and the bridge implement a mailbox: a message that
\* is taken in for a boss who is away stays unread until the session saw and
\* acknowledged it, or it is older than 30 days, whatever breaks or dies between the
\* hand-out, the inbox, the acknowledgement and the mark.
BoxSpec == INSTANCE Mailbox WITH box <- spool
MailboxSpec == BoxSpec!Spec

\* One of the first Limit unread messages, in the spool while the bridge is cut off,
\* reaches the bridge's inbox once the bridge is back, unless it is purged or the
\* bridge ends (a taken nick makes it exit).
Due(m) == m \in Oldest /\ inserting = {} /\ up /\ link = "down"
Fetched == \A m \in Msgs : Due(m) ~> (m \in reached \/ ~up \/ spool[m] = "purged")

=============================================================================
