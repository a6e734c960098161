------------------------------ MODULE Presence ------------------------------
(***************************************************************************)
(* Users, channels and what federated servers know of each other's         *)
(* (culture/agentirc/client.py, channel.py, server_link.py, ircd.py and    *)
(* skills/rooms.py).                                                       *)
(*                                                                         *)
(* When a link comes up each server sends its users and the members of the *)
(* channels it may share; later changes follow one by one.  The peer keeps *)
(* a RemoteClient for each user it was told of and adds it to its own      *)
(* channels.  Nothing is ever compared: a change that is not announced, or *)
(* that the other side refuses, is missing until the link is set up again. *)
(*                                                                         *)
(* Abstractions.  NICK and USER are one action, and so are the lines of a  *)
(* burst; handlers run to their end (their suspension points belong to     *)
(* Rooms).  Topics, tags, voice and room metadata other than "persistent"  *)
(* are left out, and so are virtual clients, which are never announced,    *)
(* and #task- channels, which are never shared.                            *)
(***************************************************************************)
EXTENDS Naturals, Sequences, FiniteSets

CONSTANTS
  Servers,   \* the names of the servers
  Nicks,     \* the nicks of the users
  Chans,     \* the names of the channels
  Rank,      \* Rank[n]: the place of n in the order of the nicks
  Home,      \* Home[n]: the server whose name is the prefix of nick n
  Trust,     \* Trust[s][p]: what the configuration of s says of p
  MaxSteps,  \* bound: commands of clients, and clients that come and go
  MaxConns   \* bound: connections dialled

ASSUME HomeAssumption  == Home \in [Nicks -> Servers]
ASSUME RankAssumption  == /\ Rank \in [Nicks -> Nat]
                          /\ \A n, m \in Nicks : Rank[n] = Rank[m] => n = m
ASSUME TrustAssumption == Trust \in [Servers -> [Servers -> {"full", "restricted"}]]

VARIABLES
  online,  \* online[s]: the nicks in IRCd.clients
  remote,  \* remote[s]: the nicks in IRCd.remote_clients
  chan,    \* chan[s][c]: the Channel in IRCd.channels
  state,   \* state[s][p]: the link of s to p
  dialed,  \* dialed[s]: the peers to which s is ServerLink.initiator
  wire,    \* wire[s][p]: what s has written to p and p has not read
  steps,   \* client actions so far
  conns,   \* connections dialled so far
  odd,     \* the nicks that some unannounced change has touched
  steady,  \* steady[s][p]: the channels that policy has let through from s to
           \* p ever since s registered the link
  shown    \* shown[s][p]: the members of channels that the policy of s has ever
           \* let p see

known == <<online, remote, chan>>
net   == <<state, dialed, wire, conns>>
vars  == <<online, remote, chan, state, dialed, wire, steps, conns, odd, steady, shown>>

-----------------------------------------------------------------------------
(* Channels. *)

Channel == [exists : BOOLEAN, members : SUBSET Nicks, operators : SUBSET Nicks,
            restricted : BOOLEAN, shared_with : SUBSET Servers,
            managed : BOOLEAN, persistent : BOOLEAN, archived : BOOLEAN]

NoChannel == [exists |-> FALSE, members |-> {}, operators |-> {}, restricted |-> FALSE,
              shared_with |-> {}, managed |-> FALSE, persistent |-> FALSE, archived |-> FALSE]

\* IRCd.get_or_create_channel
Created(ch) == [ch EXCEPT !.exists = TRUE]

Local(s, ch) == ch.members \cap online[s]

\* Channel.add: the first local member becomes operator.
WithMember(s, ch, n) ==
  [Created(ch) EXCEPT !.members = @ \cup {n},
                      !.operators = IF Local(s, ch) = {} THEN @ \cup {n} ELSE @]

Least(N) == CHOOSE n \in N : \A m \in N : Rank[n] <= Rank[m]

\* The operators once the least candidate is promoted if there are none.
Promoted(operators, candidates) ==
  IF operators = {} /\ candidates # {} THEN {Least(candidates)} ELSE operators

\* Channel.remove of the local user n, and the removal of a channel that is
\* left empty.
WithoutMember(s, ch, n) ==
  IF n \notin ch.members THEN ch
  ELSE IF ch.members = {n} /\ ~ch.persistent THEN NoChannel
  ELSE [ch EXCEPT !.members = @ \ {n},
                  !.operators = IF n \in @ THEN Promoted(@ \ {n}, Local(s, ch) \ {n}) ELSE @]

\* ServerLink._handle_spart, _cleanup_remote_client_channels and
\* IRCd._notify_local_quit: the remote users N leave ch, which goes if that
\* empties it, persistent or not.
\* Seeded fault: they stay.
WithoutRemoteKept(ch, N) == ch
WithoutRemote(ch, N) ==
  IF ch.members \cap N = {} THEN ch
  ELSE IF ch.members \subseteq N THEN NoChannel
  ELSE [ch EXCEPT !.members = @ \ N]

-----------------------------------------------------------------------------
(* Trust policy. *)

Shared(s, p, ch) == ~ch.restricted /\ (Trust[s][p] = "full" \/ p \in ch.shared_with)

\* ServerLink.should_relay of s towards p, and _check_incoming_trust of s for
\* what p sends.
ShouldRelay(s, p, c) == chan[s][c].exists /\ Shared(s, p, chan[s][c])
Accepted(s, p, c)    == Shared(s, p, chan[s][c])

\* Neither side's policy keeps c from going from s to p.
Flows(s, p, c) == Shared(s, p, chan[s][c]) /\ Shared(p, s, chan[p][c])

-----------------------------------------------------------------------------
(* The wire. *)

SERVER          == [type |-> "SERVER"]
SNICK(n)        == [type |-> "SNICK", nick |-> n]
SJOIN(c, n)     == [type |-> "SJOIN", chan |-> c, nick |-> n]
SPARTWithoutNick(c, n) == [type |-> "SPART", chan |-> c]  \* seeded fault
SPART(c, n)     == [type |-> "SPART", chan |-> c, nick |-> n]
SQUITUSER(n)    == [type |-> "SQUITUSER", nick |-> n]
SROOMMETA(c, x) == [type |-> "SROOMMETA", chan |-> c, persistent |-> x]
BURST(users, joins, rooms) ==
  [type |-> "BURST", nicks |-> users, joins |-> joins, rooms |-> rooms]

WireMsgs == [type : {"SERVER"}]
       \cup [type : {"SNICK", "SQUITUSER"}, nick : Nicks]
       \cup [type : {"SJOIN", "SPART"}, chan : Chans, nick : Nicks]
       \cup [type : {"SROOMMETA"}, chan : Chans, persistent : BOOLEAN]
       \cup [type : {"BURST"}, nicks : SUBSET Nicks, joins : [Chans -> SUBSET Nicks],
              rooms : SUBSET (Chans \X BOOLEAN)]

Peers(s) == {p \in Servers : state[s][p] = "linked"}

\* wire once s has written out[p] to each p that still reads from it.
Written(s, out) ==
  [wire EXCEPT ![s] = [p \in Servers |-> IF state[p][s] # "down" THEN wire[s][p] \o out[p]
                                         ELSE wire[s][p]]]

ToAll(s, w)      == [p \in Servers |-> IF p \in Peers(s) THEN <<w>> ELSE <<>>]
Nothing          == [p \in Servers |-> <<>>]
Relayed(s, c, w) == [p \in Servers |-> IF p \in Peers(s) /\ ShouldRelay(s, p, c)
                                       THEN <<w>> ELSE <<>>]
-----------------------------------------------------------------------------
Init ==
  /\ online = [s \in Servers |-> {}]
  /\ remote = [s \in Servers |-> {}]
  /\ chan   = [s \in Servers |-> [c \in Chans |-> NoChannel]]
  /\ state  = [s \in Servers |-> [p \in Servers |-> "down"]]
  /\ dialed = [s \in Servers |-> {}]
  /\ wire   = [s \in Servers |-> [p \in Servers |-> <<>>]]
  /\ steps  = 0
  /\ conns  = 0
  /\ odd    = {}
  /\ steady = [s \in Servers |-> [p \in Servers |-> {}]]
  /\ shown  = [s \in Servers |-> [p \in Servers |-> {}]]

-----------------------------------------------------------------------------
(* Clients. *)

Step == steps < MaxSteps /\ steps' = steps + 1

Announce(out, s) == wire' = Written(s, out) /\ UNCHANGED <<state, dialed, conns>>

\* Client._try_register: announced to every link.
Register(s, n) ==
  /\ Step
  /\ Home[n] = s /\ n \notin online[s]
  /\ online' = [online EXCEPT ![s] = @ \cup {n}]
  /\ Announce(ToAll(s, SNICK(n)), s)
  /\ UNCHANGED <<remote, chan, odd>>

\* Client._handle_nick of a registered user: told to nobody.
Rename(s, n, m) ==
  LET Now(N) == {IF x = n THEN m ELSE x : x \in N} IN
  /\ Step
  /\ n \in online[s] /\ Home[m] = s /\ m \notin online[s]
  /\ online' = [online EXCEPT ![s] = Now(@)]
  /\ chan' = [chan EXCEPT ![s] = [c \in Chans |->
       [chan[s][c] EXCEPT !.members = Now(@), !.operators = Now(@)]]]
  /\ odd' = odd \cup {n, m}
  /\ UNCHANGED <<remote, net>>

\* Client._handle_join
Join(s, n, c) ==
  /\ Step
  /\ n \in online[s] \ chan[s][c].members
  /\ ~chan[s][c].archived
  /\ chan' = [chan EXCEPT ![s][c] = WithMember(s, @, n)]
  /\ Announce([p \in Servers |-> IF p \in Peers(s) /\ Shared(s, p, chan[s][c])
                                 THEN <<SJOIN(c, n)>> ELSE <<>>], s)
  /\ UNCHANGED <<online, remote, odd>>

\* Seeded fault: told to the peers once the channel may have gone.
PartRelayedLast(s, n, c) ==
  /\ Step
  /\ n \in online[s] \cap chan[s][c].members
  /\ chan' = [chan EXCEPT ![s][c] = WithoutMember(s, @, n)]
  /\ Announce(IF chan'[s][c].exists THEN Relayed(s, c, SPART(c, n)) ELSE Nothing, s)
  /\ UNCHANGED <<online, remote, odd>>

\* Client._handle_part: the event is relayed while n is still a member.
Part(s, n, c) ==
  /\ Step
  /\ n \in online[s] \cap chan[s][c].members
  /\ chan' = [chan EXCEPT ![s][c] = WithoutMember(s, @, n)]
  /\ Announce(Relayed(s, c, SPART(c, n)), s)
  /\ UNCHANGED <<online, remote, odd>>

\* IRCd._remove_client
Removed(s, n) ==
  /\ online' = [online EXCEPT ![s] = @ \ {n}]
  /\ chan' = [chan EXCEPT ![s] = [c \in Chans |-> WithoutMember(s, chan[s][c], n)]]

\* Client._handle_quit
Quit(s, n) ==
  /\ Step
  /\ n \in online[s]
  /\ Removed(s, n)
  /\ Announce(ToAll(s, SQUITUSER(n)), s)
  /\ UNCHANGED <<remote, odd>>

\* The connection of a client closes without QUIT: told to nobody.
Vanish(s, n) ==
  /\ Step
  /\ n \in online[s]
  /\ Removed(s, n)
  /\ odd' = odd \cup {n}
  /\ UNCHANGED <<remote, net>>

\* RoomsSkill._handle_roomcreate: the metadata is relayed, but no JOIN of the
\* creator, who is the first member.
RoomCreate(s, n, c, persistent) ==
  /\ Step
  /\ n \in online[s] /\ ~chan[s][c].exists
  /\ chan' = [chan EXCEPT ![s][c] = [WithMember(s, @, n) EXCEPT
                                     !.managed = TRUE, !.persistent = persistent]]
  /\ Announce([p \in Servers |-> IF p \in Peers(s) /\ Shared(s, p, NoChannel)
                                 THEN <<SROOMMETA(c, persistent)>> ELSE <<>>], s)
  /\ odd' = odd \cup {n}
  /\ UNCHANGED <<online, remote>>

\* Client._handle_channel_mode, which tells no link: +R, -R, +S, -S, ...
SetPolicy(s, n, c, restricted, shared) ==
  /\ Step
  /\ n \in online[s] \cap chan[s][c].operators
  /\ chan' = [chan EXCEPT ![s][c].restricted = restricted, ![s][c].shared_with = shared]
  /\ UNCHANGED <<online, remote, odd, net>>

\* ... and +o, -o: any member may be promoted when no operator remains.
SetOperators(s, n, c, m) ==
  LET ch == chan[s][c] IN
  /\ Step
  /\ n \in online[s] \cap ch.operators /\ m \in Local(s, ch)
  /\ chan' = [chan EXCEPT ![s][c].operators =
                IF m \in @ THEN Promoted(@ \ {m}, ch.members) ELSE @ \cup {m}]
  /\ UNCHANGED <<online, remote, odd, net>>

\* Client._handle_chanarchive
ChanArchive(s, n, c) ==
  /\ Step
  /\ n \in online[s] \cap chan[s][c].operators /\ ~chan[s][c].archived
  /\ chan' = [chan EXCEPT ![s][c].archived = TRUE, ![s][c].persistent = TRUE]
  /\ UNCHANGED <<online, remote, odd, net>>

-----------------------------------------------------------------------------
(* Links. *)

\* IRCd.connect_to_peer
Connect(s, p) ==
  /\ conns < MaxConns
  /\ conns' = conns + 1
  /\ state[s][p] = "down" /\ state[p][s] = "down"
  /\ state'  = [state EXCEPT ![s][p] = "open", ![p][s] = "open"]
  /\ dialed' = [dialed EXCEPT ![s] = @ \cup {p}, ![p] = @ \ {s}]
  /\ wire'   = [wire EXCEPT ![s][p] = <<SERVER>>, ![p][s] = <<>>]
  /\ UNCHANGED <<known, steps, odd>>

\* Seeded fault: those that are behind the other links.
BehindOthers(s, p) == {n \in remote[s] : Home[n] # p}

\* The remote users whose RemoteClient.link is the link of s to p.
Behind(s, p) == {n \in remote[s] : Home[n] = p}

\* IRCd._remove_link with _disconnect_remote_clients, at either end's time.
CloseEnd(s, p) ==
  LET gone == Behind(s, p) IN
  /\ state[s][p] # "down"
  /\ state'  = [state EXCEPT ![s][p] = "down"]
  /\ wire'   = [wire EXCEPT ![p][s] = <<>>]
  /\ remote' = [remote EXCEPT ![s] = @ \ gone]
  /\ chan'   = [chan EXCEPT ![s] = [c \in Chans |-> WithoutRemote(chan[s][c], gone)]]
  /\ UNCHANGED <<online, dialed, conns, steps, odd>>

\* ServerLink.send_burst: the local users, and of the channels C the local
\* members and the metadata.
BurstOf(s, C) ==
  BURST(online[s],
        [c \in Chans |-> IF c \in C THEN Local(s, chan[s][c]) ELSE {}],
        {<<c, chan[s][c].persistent>> : c \in {r \in C : chan[s][r].managed}})

\* Seeded fault: every channel.
BurstOfAll(s, p) == BurstOf(s, {c \in Chans : chan[s][c].exists})

\* The channels that may be shared with p.
Burst(s, p) == BurstOf(s, {c \in Chans : ShouldRelay(s, p, c)})

Incoming(s, p) == Head(wire[p][s])
Reads(s, p, type) == /\ state[s][p] # "down"
                     /\ wire[p][s] # <<>>
                     /\ Incoming(s, p).type = type

ReadOn(s, p) == /\ wire' = [wire EXCEPT ![p][s] = Tail(@)]
                /\ UNCHANGED <<state, dialed, conns, online>>

\* ServerLink._try_complete_handshake
RecvServer(s, p) ==
  LET answer == IF p \in dialed[s] THEN <<>> ELSE <<SERVER>> IN
  /\ Reads(s, p, "SERVER")
  /\ state' = [state EXCEPT ![s][p] = "linked"]
  /\ wire'  = [Written(s, [q \in Servers |-> IF q = p THEN answer \o <<Burst(s, p)>>
                                             ELSE <<>>]) EXCEPT ![p][s] = Tail(wire[p][s])]
  /\ UNCHANGED <<known, dialed, conns>>

\* ServerLink._handle_snick: only nicks with the peer's prefix.
RecvNick(s, p) ==
  LET n == Incoming(s, p).nick IN
  /\ Reads(s, p, "SNICK")
  /\ remote' = [remote EXCEPT ![s] = IF Home[n] = p THEN @ \cup {n} ELSE @]
  /\ ReadOn(s, p)
  /\ UNCHANGED chan

\* ServerLink._handle_sjoin for the nicks N, of which the known ones join: the
\* channel is created even if none is.
Joined(s, p, ch, N, users) ==
  IF Shared(s, p, ch) /\ N # {} THEN [Created(ch) EXCEPT !.members = @ \cup (N \cap users)]
  ELSE ch

\* ServerLink._handle_sroommeta: the channel is created if it is not there.
WithMeta(s, p, ch, persistent) ==
  IF ch.restricted \/ (ch.exists /\ ~Shared(s, p, ch)) THEN ch
  ELSE [Created(ch) EXCEPT !.managed = TRUE, !.persistent = persistent]

RecvJoin(s, p) ==
  LET w == Incoming(s, p) IN
  /\ Reads(s, p, "SJOIN")
  /\ chan' = [chan EXCEPT ![s][w.chan] = Joined(s, p, @, {w.nick}, remote[s])]
  /\ ReadOn(s, p)
  /\ UNCHANGED remote

RecvRoomMeta(s, p) ==
  LET w == Incoming(s, p) IN
  /\ Reads(s, p, "SROOMMETA")
  /\ chan' = [chan EXCEPT ![s][w.chan] = WithMeta(s, p, @, w.persistent)]
  /\ ReadOn(s, p)
  /\ UNCHANGED remote

\* The users, then the members of each channel, then the metadata.
RecvBurst(s, p) ==
  LET w     == Incoming(s, p)
      users == remote[s] \cup {n \in w.nicks : Home[n] = p}
      Now(c) == LET ch == Joined(s, p, chan[s][c], w.joins[c], users) IN
                IF \E x \in BOOLEAN : <<c, x>> \in w.rooms
                THEN WithMeta(s, p, ch, <<c, TRUE>> \in w.rooms) ELSE ch
  IN /\ Reads(s, p, "BURST")
     /\ remote' = [remote EXCEPT ![s] = users]
     /\ chan' = [chan EXCEPT ![s] = [c \in Chans |-> Now(c)]]
     /\ ReadOn(s, p)

\* ServerLink._handle_spart
RecvPart(s, p) ==
  LET w == Incoming(s, p) IN
  /\ Reads(s, p, "SPART")
  /\ chan' = IF w.nick \in remote[s] /\ chan[s][w.chan].exists /\ Accepted(s, p, w.chan)
             THEN [chan EXCEPT ![s][w.chan] = WithoutRemote(@, {w.nick})]
             ELSE chan
  /\ ReadOn(s, p)
  /\ UNCHANGED remote

\* ServerLink._handle_squituser
RecvQuitUser(s, p) ==
  LET n == Incoming(s, p).nick IN
  /\ Reads(s, p, "SQUITUSER")
  /\ remote' = [remote EXCEPT ![s] = @ \ {n}]
  /\ chan' = [chan EXCEPT ![s] = [c \in Chans |->
       IF n \in remote[s] THEN WithoutRemote(chan[s][c], {n}) ELSE chan[s][c]]]
  /\ ReadOn(s, p)

-----------------------------------------------------------------------------
(* The specification. *)

Client(s, n) ==
  \/ Register(s, n) \/ Quit(s, n) \/ Vanish(s, n)
  \/ \E m \in Nicks : Rename(s, n, m)
  \/ \E c \in Chans :
       \/ Join(s, n, c) \/ Part(s, n, c) \/ ChanArchive(s, n, c)
       \/ \E x \in BOOLEAN : RoomCreate(s, n, c, x)
       \/ \E x \in BOOLEAN : \E S \in SUBSET (Servers \ {s}) : SetPolicy(s, n, c, x, S)
       \/ \E m \in Nicks : SetOperators(s, n, c, m)

Receive(s, p) == \/ RecvServer(s, p) \/ RecvBurst(s, p) \/ RecvNick(s, p)
                 \/ RecvJoin(s, p) \/ RecvPart(s, p) \/ RecvQuitUser(s, p)
                 \/ RecvRoomMeta(s, p)

Act == \E s \in Servers :
         \/ \E n \in Nicks : Client(s, n)
         \/ \E p \in Servers \ {s} :
              Connect(s, p) \/ CloseEnd(s, p) \/ (Receive(s, p) /\ UNCHANGED <<steps, odd>>)

\* The channels that flow from s to p begin to count when s registers the link.
Track ==
  steady' = [s \in Servers |-> [p \in Servers |->
    {c \in IF state[s][p] # "linked" /\ state'[s][p] = "linked" THEN Chans ELSE steady[s][p] :
       Flows(s, p, c)'}]]

\* The <<channel, member>> pairs of s that its policy lets p see.
Visible(s, p) == {m \in Chans \X Nicks :
                    m[2] \in Local(s, chan[s][m[1]]) /\ Shared(s, p, chan[s][m[1]])}

Show == shown' = [s \in Servers |-> [p \in Servers |-> shown[s][p] \cup Visible(s, p)']]

Next == Act /\ Track /\ Show

Spec == Init /\ [][Next]_vars

-----------------------------------------------------------------------------
(* Properties. *)

\* Every variable has the type its code gives it.
TypeOK ==
  /\ online \in [Servers -> SUBSET Nicks]
  /\ remote \in [Servers -> SUBSET Nicks]
  /\ chan   \in [Servers -> [Chans -> Channel]]
  /\ state  \in [Servers -> [Servers -> {"down", "open", "linked"}]]
  /\ dialed \in [Servers -> SUBSET Servers]
  /\ wire   \in [Servers -> [Servers -> Seq(WireMsgs)]]
  /\ steps  \in Nat
  /\ conns  \in Nat
  /\ odd    \in SUBSET Nicks
  /\ steady \in [Servers -> [Servers -> SUBSET Chans]]
  /\ shown  \in [Servers -> [Servers -> SUBSET (Chans \X Nicks)]]

\* No channel keeps a member that its server does not know: who quits, vanishes,
\* changes nick or was behind a link that is gone is in no channel.
MembersKnown ==
  \A s \in Servers : \A c \in Chans : chan[s][c].members \subseteq online[s] \cup remote[s]

\* A server holds remote users only of the peers it is linked to.
RemoteLinked == \A s \in Servers : \A n \in remote[s] : Home[n] \in Peers(s)

\* s and p are linked and p has read all that s wrote.
Quiet(s, p) == state[s][p] = "linked" /\ state[p][s] = "linked" /\ wire[s][p] = <<>>

\* The users of s that p knows, and those it lists in channel c.
UsersAt(s, p)      == Behind(p, s)
MembersAt(s, p, c) == {n \in chan[p][c].members : Home[n] = s}

\* When the link is quiet the peer has the users of s, and the members of each
\* channel that policy has let through since s registered the link, but for the
\* nicks that some unannounced change has touched.  Users, joins and quits may
\* come before, in the middle of and after the burst.
Synced ==
  \A s \in Servers : \A p \in Servers \ {s} : Quiet(s, p) =>
    /\ UsersAt(s, p) \ odd = online[s] \ odd
    /\ \A c \in steady[s][p] :
         MembersAt(s, p, c) \ odd = Local(s, chan[s][c]) \ odd

\* No server lists a user of a peer in a channel unless the policy of that peer,
\* at some time when the user was a member, let it.
Private ==
  \A s \in Servers : \A p \in Servers \ {s} : \A c \in Chans :
    \A n \in MembersAt(s, p, c) : <<c, n>> \in shown[s][p]

=============================================================================
