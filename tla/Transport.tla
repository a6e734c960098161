------------------------------ MODULE Transport -----------------------------
(***************************************************************************)
(* The IRC connection of one agent: its transport, which tracks the        *)
(* channels it believes to be in and reconnects, the buffers the agent     *)
(* reads, and the agent's session, the channel members and the history at  *)
(* the server (culture/clients/{claude,acp,codex,copilot}/irc_transport.py *)
(* and message_buffer.py; culture/agentirc/client.py, skills/history.py,   *)
(* history_store.py).  The transport of the claude backend tracks the      *)
(* server's echoes; the three others, copies of an older one, what the     *)
(* agent asked for.                                                        *)
(*                                                                         *)
(* Lines travel in order in both directions.  Each end notices the end of  *)
(* a connection for itself: until then the transport writes into the void  *)
(* and the server keeps the nick and the memberships.  A message of        *)
(* somebody else is written to the members of the channel as of when it    *)
(* came in, one after the other, and stored after that; other handlers run *)
(* in between when a member's socket is slow.                              *)
(***************************************************************************)
EXTENDS Naturals, FiniteSets, Sequences, SequencesExt, MessageBuffer

CONSTANTS
  Chans,       \* channels
  Limits,      \* limits a reader asks for
  MaxSaid,     \* bound: messages of others
  MaxAsked,    \* bound: commands of the agent
  MaxTurns,    \* bound: removals of the agent, archivings, changes of the rights
  MaxFaults    \* bound: connections that break, restarts of the server

ASSUME ChansAssumption  == IsFiniteSet(Chans)
ASSUME LimitsAssumption == Limits \subseteq Nat \ {0}
ASSUME TransportBoundsAssumption == {MaxSaid, MaxAsked, MaxTurns, MaxFaults} \subseteq Nat

Own  == 0             \* a message of the agent itself
Msgs == 0..MaxSaid

VARIABLES
  confirms,      \* the transport tracks channels by the server's echoes (claude)
  process,       \* of the daemon: "new", "runs", "over"
  link,          \* the transport's connection: "down", "up", or "broken" and not noticed
  connected,     \* IRCTransport.connected
  dialler,       \* a task runs _reconnect
  reconnecting,  \* IRCTransport._reconnecting
  channels,      \* IRCTransport.channels
  buffer,        \* MessageBuffer, per channel
  answer,        \* per channel, the last answer of irc_read that was not empty
  toServer,      \* lines the agent sent and the server has not read
  toClient,      \* lines the server sent and the agent has not read
  reg,           \* whose the nick is in IRCd.clients: "none", the "current" or a "stale" connection
  members,       \* the channels the nick is in
  access,        \* per channel: "open", "archived", or "denied" by the task-channel ACL
  said,          \* how many messages others have sent
  relaying,      \* those being relayed: channel, message, still to be written to the agent
  history,       \* HistorySkill._channels
  committed,     \* how much of it is committed to the database
  heard,         \* history variable: messages that were ever in the agent's buffer
  asked,         \* history variable: channels HISTORY was sent for on this connection, since
                 \* the agent was last removed or refused
  due,           \* history variable: what the agent has to hear of the channel it is in
  refused,       \* history variable: channels that 474 was sent for while the agent was in
  asks, turns, faults

agentVars   == <<confirms, process, connected, dialler, reconnecting, channels>>
bufferVars  == <<buffer, answer, heard>>
wireVars    == <<link, toServer, toClient>>
sessionVars == <<reg, members, asked, due, refused>>
roomVars    == <<access, said, relaying, history, committed>>
countVars   == <<asks, turns, faults>>
transportVars == <<agentVars, bufferVars, wireVars, sessionVars, roomVars, countVars>>

Line(verb, c, m) == [verb |-> verb, chan |-> c, msg |-> m]
NoChan == "none"
Bare(verb) == Line(verb, NoChan, Own)

TransportInit ==
  /\ confirms \in BOOLEAN
  /\ process = "new" /\ link = "down"
  /\ connected = FALSE /\ dialler = FALSE /\ reconnecting = FALSE
  /\ channels \in SUBSET Chans      \* those of the agent's configuration
  /\ buffer = [c \in Chans |-> EmptyBuffer]
  /\ answer = [c \in Chans |-> <<>>]
  /\ toServer = <<>> /\ toClient = <<>>
  /\ reg = "none" /\ members = {}
  /\ access = [c \in Chans |-> "open"]
  /\ said = 0 /\ relaying = {}
  /\ history = [c \in Chans |-> <<>>]
  /\ committed = [c \in Chans |-> 0]
  /\ heard = [c \in Chans |-> {}]
  /\ asked = {} /\ refused = {}
  /\ due = [c \in Chans |-> {}]
  /\ asks = 0 /\ turns = 0 /\ faults = 0

-----------------------------------------------------------------------------
(* The transport: connecting.                                               *)

Sent(lines) == toServer' = IF link = "up" THEN toServer \o lines ELSE toServer

\* connect, and _do_connect in a round of _reconnect.
Opened == /\ link = "down"
          /\ link' = "up"
          /\ toServer' = <<Bare("NICK")>> /\ toClient' = <<>>

ConnectToServer ==
  /\ process = "new"
  /\ process' = "runs"
  /\ Opened
  /\ UNCHANGED <<confirms, connected, dialler, reconnecting, channels, bufferVars, sessionVars, roomVars,
                 countVars>>

\* Seeded fault: the flag stays set after the connection was made again.
DialFlagged ==
  /\ dialler
  /\ Opened
  /\ dialler' = FALSE
  /\ UNCHANGED <<confirms, process, connected, reconnecting, channels, bufferVars, sessionVars, roomVars,
                 countVars>>
Dial ==
  /\ dialler
  /\ Opened
  /\ dialler' = FALSE /\ reconnecting' = FALSE
  /\ UNCHANGED <<confirms, process, connected, channels, bufferVars, sessionVars, roomVars, countVars>>

\* _read_loop ends.
ReadLoopEnds ==
  /\ link = "broken"
  /\ link' = "down"
  /\ connected' = FALSE
  /\ IF process = "runs" /\ ~reconnecting
     THEN dialler' = TRUE /\ reconnecting' = TRUE
     ELSE UNCHANGED <<dialler, reconnecting>>
  /\ UNCHANGED <<confirms, process, channels, bufferVars, toServer, toClient, sessionVars, roomVars, countVars>>

\* The connection ends for the server too, which notices it later.
Hung == /\ toServer' = <<>> /\ toClient' = <<>>
        /\ reg' = IF reg = "current" THEN "stale" ELSE reg
        /\ asked' = {} /\ refused' = {}
        /\ due' = [c \in Chans |-> {}]
        /\ relaying' = {[r EXCEPT !.pending = FALSE] : r \in relaying}

\* disconnect; the daemon's process ends.
Disconnect ==
  /\ process = "runs"
  /\ process' = "over"
  /\ link' = "down"
  /\ connected' = FALSE /\ dialler' = FALSE
  /\ Hung
  /\ UNCHANGED <<confirms, reconnecting, channels, bufferVars, members, access, said, history, committed,
                 countVars>>

-----------------------------------------------------------------------------
(* The transport: lines from the server.                                    *)

Got(verb) == /\ link = "up" /\ toClient # <<>>
             /\ Head(toClient).verb = verb
             /\ toClient' = Tail(toClient)
From == Head(toClient).chan
What == Head(toClient).msg

\* _on_welcome; nothing is asked for with HISTORY.
GotWelcome ==
  /\ Got("001")
  /\ connected' = TRUE
  /\ toServer' = toServer \o SetToSeq({Line("JOIN", c, Own) : c \in channels})
  /\ UNCHANGED <<confirms, process, link, dialler, reconnecting, channels, bufferVars, sessionVars, roomVars,
                 countVars>>

\* _on_nick_in_use: fatal_exit ends the daemon.
GotNickInUse ==
  /\ Got("433")
  /\ process' = "over" /\ connected' = FALSE
  /\ link' = "down" /\ toServer' = <<>>
  /\ UNCHANGED <<confirms, dialler, reconnecting, channels, bufferVars, sessionVars, roomVars, countVars>>

\* _on_join, _on_part, _on_cannotsendtochan, _on_bannedfromchan; the other backends
\* read none of these.
Tracking(verb, tracked) ==
  /\ Got(verb)
  /\ channels' = IF confirms THEN tracked ELSE channels
  /\ UNCHANGED <<confirms, process, connected, dialler, reconnecting, bufferVars, link, toServer, sessionVars,
                 roomVars, countVars>>
GotJoin == Tracking("JOIN", channels \cup {From})
\* Seeded fault: PART of the own nick is not looked at.
GotRemovalButPart ==
  \/ Tracking("PART", channels)
  \/ \E verb \in {"404", "474"} : Tracking(verb, channels \ {From})
GotRemoval == \E verb \in {"PART", "404", "474"} : Tracking(verb, channels \ {From})

Buffered(c, m) == /\ buffer' = [buffer EXCEPT ![c] = Add(@, m)]
                  /\ heard' = [heard EXCEPT ![c] = @ \cup {m}]

\* _on_privmsg; _on_history, which skips the agent's own lines.
GotMessage ==
  /\ \/ Got("PRIVMSG") /\ Buffered(From, What)
     \/ Got("HISTORY") /\ IF What = Own THEN UNCHANGED <<buffer, heard>> ELSE Buffered(From, What)
  /\ UNCHANGED <<agentVars, answer, link, toServer, sessionVars, roomVars, countVars>>

-----------------------------------------------------------------------------
(* The agent's commands over IPC.                                           *)

Asking == /\ process = "runs" /\ asks < MaxAsked
          /\ asks' = asks + 1

\* The transports of the other backends believe what they ask for.
AskedFor(believed) ==
  /\ channels' = IF confirms THEN channels ELSE believed
  /\ UNCHANGED <<confirms, process, connected, dialler, reconnecting>>

\* Seeded fault: the history is asked for first.
JoinChannelAskingFirst ==
  /\ Asking
  /\ \E c \in Chans \ channels :
       /\ Sent(<<Line("HISTORY", c, Own), Line("JOIN", c, Own)>>)
       /\ asked' = IF link = "up" THEN asked \cup {c} ELSE asked
       /\ AskedFor(channels \cup {c})
  /\ UNCHANGED << bufferVars, link, toClient, reg, members, due, refused, roomVars, turns,
                 faults>>
\* join_channel; for a channel that is tracked it does nothing.
JoinChannel ==
  /\ Asking
  /\ \E c \in Chans \ channels :
       /\ Sent(<<Line("JOIN", c, Own), Line("HISTORY", c, Own)>>)
       /\ asked' = IF link = "up" THEN asked \cup {c} ELSE asked
       /\ AskedFor(channels \cup {c})
  /\ UNCHANGED << bufferVars, link, toClient, reg, members, due, refused, roomVars, turns,
                 faults>>

\* part_channel.
PartChannel ==
  /\ Asking
  /\ \E c \in Chans : Sent(<<Line("PART", c, Own)>>) /\ AskedFor(channels \ {c})
  /\ UNCHANGED <<bufferVars, link, toClient, sessionVars, roomVars, turns, faults>>

\* irc_send to a channel, and send_privmsg.
SendPrivmsg ==
  /\ Asking
  /\ \E c \in channels :
       /\ Sent(<<Line("PRIVMSG", c, Own)>>)
       /\ Buffered(c, Own)
  /\ UNCHANGED <<agentVars, answer, link, toClient, sessionVars, roomVars, turns, faults>>

\* irc_read.
ReadChannel ==
  /\ process = "runs"
  /\ \E c \in Chans, limit \in Limits :
       /\ Unread(buffer[c]) > 0
       /\ answer' = [answer EXCEPT ![c] = Read(buffer[c], limit)]
       /\ buffer' = [buffer EXCEPT ![c] = AfterRead(@)]
  /\ UNCHANGED <<agentVars, heard, wireVars, sessionVars, roomVars, countVars>>

-----------------------------------------------------------------------------
(* The server: the agent's lines, one at a time.                            *)

Reads(verb) == /\ link = "up" /\ reg = "current" /\ toServer # <<>>
                 /\ Head(toServer).verb = verb
                 /\ toServer' = Tail(toServer)
Target == Head(toServer).chan
Written(lines) == toClient' = toClient \o lines

\* A connection that ended leaves the nick taken until the server notices.
Register ==
  /\ link = "up" /\ toServer # <<>> /\ Head(toServer).verb = "NICK"
  /\ toServer' = Tail(toServer)
  /\ IF reg = "none" THEN reg' = "current" /\ Written(<<Bare("001")>>)
     ELSE Written(<<Bare("433")>>) /\ UNCHANGED reg
  /\ UNCHANGED <<agentVars, bufferVars, link, members, asked, due, refused, roomVars, countVars>>

ServerNotices ==
  /\ reg = "stale"
  /\ reg' = "none" /\ members' = {}
  /\ UNCHANGED <<agentVars, bufferVars, wireVars, asked, due, refused, roomVars, countVars>>

OfOthers(lines) == ToSet(lines) \ {Own}

\* _handle_join.  The right to join is looked at before the membership is.
JoinArchived ==
  /\ Reads("JOIN") /\ access[Target] = "archived"
  /\ UNCHANGED <<agentVars, bufferVars, link, toClient, sessionVars, roomVars, countVars>>
JoinDenied ==
  /\ Reads("JOIN") /\ access[Target] = "denied"
  /\ Written(<<Line("474", Target, Own)>>)
  /\ refused' = IF Target \in members THEN refused \cup {Target} ELSE refused
  /\ asked' = asked \ {Target}
  /\ UNCHANGED <<agentVars, bufferVars, link, reg, members, due, roomVars, countVars>>
JoinAgain ==
  /\ Reads("JOIN") /\ access[Target] = "open" /\ Target \in members
  /\ UNCHANGED <<agentVars, bufferVars, link, toClient, sessionVars, roomVars, countVars>>
Join ==
  /\ Reads("JOIN") /\ access[Target] = "open" /\ Target \notin members
  /\ members' = members \cup {Target}
  /\ due' = [due EXCEPT ![Target] = IF Target \in asked THEN OfOthers(history[Target]) ELSE {}]
  /\ Written(<<Line("JOIN", Target, Own)>>)
  /\ UNCHANGED <<agentVars, bufferVars, link, reg, asked, refused, roomVars, countVars>>

Left(c) == /\ members' = members \ {c}
           /\ refused' = refused \ {c}
           /\ due' = [due EXCEPT ![c] = {}]

\* _handle_part; 442 makes no difference to the agent.
Part ==
  /\ Reads("PART")
  /\ IF Target \in members THEN Left(Target) /\ Written(<<Line("PART", Target, Own)>>)
     ELSE UNCHANGED <<members, refused, due, toClient>>
  /\ UNCHANGED <<agentVars, bufferVars, link, reg, asked, roomVars, countVars>>

\* _handle_recent, for as many lines as a channel has; 442 makes no difference.
Recent ==
  /\ Reads("HISTORY")
  /\ Written(IF Target \in members
             THEN [i \in DOMAIN history[Target] |-> Line("HISTORY", Target, history[Target][i])]
             ELSE <<>>)
  /\ UNCHANGED <<agentVars, bufferVars, link, sessionVars, roomVars, countVars>>

\* _handle_privmsg: stored, refused with 404, or with 403 when nobody is in the
\* channel, which makes no difference to the agent.
Privmsg ==
  /\ Reads("PRIVMSG")
  /\ IF Target \in members
     THEN history' = [history EXCEPT ![Target] = Append(@, Own)] /\ UNCHANGED toClient
     ELSE /\ \E lines \in {<<>>, <<Line("404", Target, Own)>>} : Written(lines)
          /\ UNCHANGED history
  /\ UNCHANGED <<agentVars, bufferVars, link, sessionVars, access, said, relaying, committed,
                 countVars>>

-----------------------------------------------------------------------------
(* The server: everybody else.                                              *)

\* _send_to_channel: the members as of now are written to.
Say ==
  /\ said < MaxSaid
  /\ said' = said + 1
  /\ \E c \in Chans :
       /\ relaying' = relaying \cup {[chan |-> c, msg |-> said + 1,
                                     pending |-> c \in members /\ reg = "current"]}
       /\ due' = IF c \in members /\ reg = "current"
                 THEN [due EXCEPT ![c] = @ \cup {said + 1}] ELSE due
  /\ UNCHANGED <<agentVars, bufferVars, wireVars, reg, members, asked, refused, access, history,
                 committed, countVars>>

\* ... the agent's socket among them, ...
Relay ==
  /\ \E r \in relaying :
       /\ r.pending
       /\ Written(<<Line("PRIVMSG", r.chan, r.msg)>>)
       /\ relaying' = (relaying \ {r}) \cup {[r EXCEPT !.pending = FALSE]}
  /\ UNCHANGED <<agentVars, bufferVars, link, toServer, sessionVars, access, said, history,
                 committed, countVars>>

\* ... and the message is stored by the event that follows.
Store ==
  /\ \E r \in relaying :
       /\ ~r.pending
       /\ history' = [history EXCEPT ![r.chan] = Append(@, r.msg)]
       /\ relaying' = relaying \ {r}
  /\ UNCHANGED <<agentVars, bufferVars, wireVars, sessionVars, access, said, committed, countVars>>

Turn == turns < MaxTurns /\ turns' = turns + 1

\* ROOMKICK and ROOMARCHIVE: the one that is removed is sent a PART.
Expel ==
  /\ Turn
  /\ \E c \in members :
       /\ Left(c)
       /\ asked' = asked \ {c}
       /\ toClient' = IF reg = "current" THEN Append(toClient, Line("PART", c, Own)) ELSE toClient
  /\ UNCHANGED <<agentVars, bufferVars, link, toServer, reg, roomVars, asks, faults>>

\* CHANARCHIVE; a change of the manifest.  Members stay what they are.
Archive ==
  /\ Turn
  /\ \E c \in Chans : access[c] # "archived" /\ access' = [access EXCEPT ![c] = "archived"]
  /\ UNCHANGED <<agentVars, bufferVars, wireVars, sessionVars, said, relaying, history, committed,
                 asks, faults>>
ChangeRights ==
  /\ Turn
  /\ \E c \in Chans : \/ access[c] = "open" /\ access' = [access EXCEPT ![c] = "denied"]
                      \/ access[c] = "denied" /\ access' = [access EXCEPT ![c] = "open"]
  /\ UNCHANGED <<agentVars, bufferVars, wireVars, sessionVars, said, relaying, history, committed,
                 asks, faults>>

-----------------------------------------------------------------------------
(* Faults.                                                                  *)

Fault == faults < MaxFaults /\ faults' = faults + 1

Break ==
  /\ Fault
  /\ link = "up"
  /\ link' = "broken"
  /\ Hung
  /\ UNCHANGED <<agentVars, bufferVars, members, access, said, history, committed, asks, turns>>

\* The server ends and starts again.  Ending in order commits the history, which is
\* committed at no other time; an archived channel is open again unless it is a
\* managed room.
ServerRestarts ==
  /\ Fault
  /\ \/ UNCHANGED committed
     \/ committed' = [c \in Chans |-> Len(history[c])]
  /\ history' = [c \in Chans |-> SubSeq(history[c], 1, committed'[c])]
  /\ access' \in {[c \in Chans |-> IF c \in C THEN "open" ELSE access[c]] :
                   C \in SUBSET {c \in Chans : access[c] = "archived"}}
  /\ link' = IF link = "up" THEN "broken" ELSE link
  /\ toServer' = <<>> /\ toClient' = <<>>
  /\ reg' = "none" /\ members' = {}
  /\ asked' = {} /\ refused' = {}
  /\ due' = [c \in Chans |-> {}]
  /\ relaying' = {}
  /\ UNCHANGED <<agentVars, bufferVars, said, asks, turns>>

-----------------------------------------------------------------------------

Agent  == \/ ConnectToServer \/ Dial \/ ReadLoopEnds \/ Disconnect
          \/ GotWelcome \/ GotNickInUse \/ GotJoin \/ GotRemoval \/ GotMessage
          \/ JoinChannel \/ PartChannel \/ SendPrivmsg \/ ReadChannel
Server == \/ Register \/ ServerNotices
          \/ JoinArchived \/ JoinDenied \/ JoinAgain \/ Join \/ Part \/ Recent \/ Privmsg
          \/ Say \/ Relay \/ Store \/ Expel \/ Archive \/ ChangeRights
Faults == Break \/ ServerRestarts
TransportNext == Agent \/ Server \/ Faults

TransportSpec == TransportInit /\ [][TransportNext]_transportVars

\* A task that is due runs, and what was sent is read; nobody has to send, join,
\* read a buffer, or stop the daemon.
FairTransportSpec ==
  /\ TransportSpec
  /\ WF_transportVars(ConnectToServer) /\ WF_transportVars(Dial) /\ WF_transportVars(ReadLoopEnds)
  /\ WF_transportVars(GotWelcome \/ GotNickInUse \/ GotJoin \/ GotRemoval \/ GotMessage)
  /\ WF_transportVars(Register \/ JoinArchived \/ JoinDenied \/ JoinAgain \/ Join \/ Part \/ Recent
             \/ Privmsg)
  /\ WF_transportVars(ServerNotices)

-----------------------------------------------------------------------------
(* Properties.                                                              *)

\* The variables have values of their types.
TransportTypeOK ==
  /\ process \in {"new", "runs", "over"} /\ link \in {"down", "up", "broken"}
  /\ {confirms, connected, dialler, reconnecting} \subseteq BOOLEAN
  /\ channels \subseteq Chans /\ members \subseteq Chans
  /\ asked \subseteq Chans /\ refused \subseteq Chans
  /\ reg \in {"none", "current", "stale"}
  /\ access \in [Chans -> {"open", "archived", "denied"}]
  /\ said \in 0..MaxSaid
  /\ relaying \subseteq [chan : Chans, msg : 1..MaxSaid, pending : BOOLEAN]
  /\ \A c \in Chans :
       /\ history[c] \in Seq(Msgs) /\ committed[c] \in 0..Len(history[c])
       /\ heard[c] \subseteq Msgs /\ due[c] \subseteq Msgs \ {Own}
       /\ buffer[c].lines \in Seq([msg : Msgs, at : Nat])
       /\ Len(buffer[c].lines) <= MaxBuf
       /\ buffer[c].cursor \in 0..buffer[c].total

\* Nothing is on its way between the agent and the server.
Quiet == /\ process = "runs" /\ link = "up" /\ reg = "current"
         /\ toServer = <<>> /\ toClient = <<>>
         /\ \A r \in relaying : ~r.pending

\* Once everything is read, the transport and the server agree on which channels
\* the agent is in, whatever was joined, left, refused, removed and reconnected
\* before: but for a channel that is archived, whose refusal the transport does not
\* read, and one whose second JOIN was refused while the agent was in it.  That an
\* agent is in all that it tracks holds of the transports that read no echo as long
\* as it is not removed or refused (irc_transport._on_join and its fellows,
\* join_channel, part_channel).
MayBeOut(c) == access[c] = "archived" \/ (~confirms /\ turns > 0)
Tracked ==
  Quiet => /\ \A c \in channels : c \in members \/ MayBeOut(c)
           /\ members \subseteq channels \cup refused

\* Once everything is read, the agent's buffer has been given every message others
\* sent to a channel it is in since it joined on this connection and, when it joined
\* with join_channel, every message stored before that: none falls between the
\* answer to HISTORY and the live lines (irc_transport.join_channel, history.py).
Heard == Quiet => \A c \in members : due[c] \subseteq heard[c]

\* The answers of irc_read to one channel never repeat a line nor go back, each is
\* up to the newest line, and none is shorter than the caller's limit, the buffer
\* and what is new allow (message_buffer.read).
LastAt(lines) == IF lines = <<>> THEN 0 ELSE lines[Len(lines)].at
ReadOnce ==
  [][\A c \in Chans : answer'[c] # answer[c] =>
       LET new == buffer[c].total - LastAt(answer[c]) IN
       /\ answer'[c][1].at > LastAt(answer[c])
       /\ LastAt(answer'[c]) = buffer[c].total
       /\ \E limit \in Limits : Len(answer'[c]) = Min({limit, MaxBuf, new})]_transportVars

\* After the last fault a daemon that runs is connected again and is in every
\* channel it tracks, with the same exceptions (irc_transport._reconnect, _on_welcome).
Rejoins ==
  <>[](process = "runs" =>
         connected /\ \A c \in channels : c \in members \/ MayBeOut(c))

=============================================================================
