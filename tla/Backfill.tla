------------------------------ MODULE Backfill ------------------------------
(***************************************************************************)
(* Event relay and backfill between federated servers                      *)
(* (culture/agentirc/ircd.py, culture/agentirc/server_link.py).            *)
(*                                                                         *)
(* Each server numbers the events it emits, keeps them in a bounded log    *)
(* and relays those that did not come from a peer to every linked peer.    *)
(* When a link drops, the server records its own sequence number as what   *)
(* the peer has seen; when the link comes back, each side sends BACKFILL   *)
(* with a cursor and the other replays the message events after it.        *)
(*                                                                         *)
(* Abstractions.  A message is its identity <<origin, n>> and where it is  *)
(* addressed: the one federated channel, or the users of one server.       *)
(* Wire messages that change none of this state (the burst, SJOIN, STOPIC, *)
(* ...) are left out; the events behind them still take sequence numbers   *)
(* (EmitLocal).  There is one connection per pair of servers at a time;    *)
(* LinkTable has the duplicate and the simultaneous ones.  Suspension      *)
(* points: a coroutine of asyncio yields at drain() only when the          *)
(* transport's buffer is full, which the replay of a backlog fills and a   *)
(* single relayed event does not, so a replay is one step per message and  *)
(* emit_event is one step.                                                 *)
(***************************************************************************)
EXTENDS Naturals, Sequences, FiniteSets

CONSTANTS
  Servers,      \* the names of the servers
  NoOrigin,     \* the origin of an event that was emitted locally
  Channel,      \* the destination of a channel message
  LogMax,       \* maxlen of the event log (10000 in ircd.py)
  Senders,      \* bound: the servers whose clients send and cause events
  MaxEvents,    \* bound: events the clients of each of them cause
  MaxConns,     \* bound: connections dialled
  MaxRestarts   \* bound: restarts of servers

ASSUME NoOriginAssumption == NoOrigin \notin Servers
ASSUME ChannelAssumption  == Channel \notin Servers
ASSUME LogMaxAssumption   == LogMax \in Nat \ {0}

VARIABLES
  seq,       \* seq[s]: IRCd._seq
  log,       \* log[s]: IRCd._event_log
  acked,     \* acked[s][p]: IRCd._peer_acked_seq
  links,     \* links[s]: the keys of IRCd.links
  lastSeen,  \* lastSeen[s][p]: ServerLink.last_seen_seq
  replay,    \* replay[s][p]: the loop of ServerLink._handle_backfill
  conn,      \* conn[s][p]: number of the connection s holds to p, 0 if none
  dialed,    \* dialed[s]: the peers to which s is ServerLink.initiator
  wire,      \* wire[s][p]: what s has written to p and p has not read
  conns,     \* connections dialled so far
  restarts,  \* restarts so far
  sent,      \* sent[s]: messages the clients of s have sent
  locals,    \* locals[s]: the other events s has emitted
  got,       \* got[s]: the peer messages delivered at s, in order
  missed     \* <<m, p>>: p was not linked to the origin of m when m was sent

vars == <<seq, log, acked, links, lastSeen, replay, conn, dialed, wire,
          conns, restarts, sent, locals, got, missed>>

-----------------------------------------------------------------------------
(* Data. *)

NoMsg    == <<>>
MsgIds   == Servers \X (Nat \ {0})
Dests    == Servers \cup {Channel}
Origins  == Servers \cup {NoOrigin}

\* What the log holds: the event's sequence number and origin, and for a
\* MESSAGE event the message and its destination (NoMsg for other events).
Entries  == [seq : Nat, origin : Origins, msg : MsgIds \cup {NoMsg}, to : Dests]

WireMsgs == [type : {"SERVER", "SEVENT"}]
       \cup [type : {"BACKFILL", "BACKFILLEND"}, at : Nat]
       \cup [type : {"SMSG"}, msg : MsgIds, to : Dests]

Replays  == [phase : {"idle", "done"}, after : Nat, next : {0}, top : {0}]
       \cup [phase : {"running"}, after : Nat, next : Nat \ {0}, top : Nat]
NoReplay == [phase |-> "idle", after |-> 0, next |-> 0, top |-> 0]

SERVER         == [type |-> "SERVER"]
SEVENT         == [type |-> "SEVENT"]
BACKFILL(n)    == [type |-> "BACKFILL", at |-> n]
\* Seeded fault: the end marker without the sequence number.
BACKFILLENDWithoutSeq(n) == [type |-> "BACKFILLEND"]
BACKFILLEND(n) == [type |-> "BACKFILLEND", at |-> n]
SMSG(m, to)    == [type |-> "SMSG", msg |-> m, to |-> to]

\* IRCd._event_log is a deque with a maxlen: a full one drops its oldest entry.
Push(l, e) == IF Len(l) = LogMax THEN Append(Tail(l), e) ELSE Append(l, e)

\* The bytes s writes to p are read only while p holds the same connection.
Readable(s, p) == conn[s][p] # 0 /\ conn[p][s] = conn[s][p]

\* What s has written to each peer once it also writes out[p] to p.
Written(s, out) ==
  [p \in Servers |-> IF Readable(s, p) THEN wire[s][p] \o out[p] ELSE wire[s][p]]

-----------------------------------------------------------------------------
(* IRCd.emit_event *)

\* The event takes the next sequence number and is logged.
Emit(s, origin, m, to) ==
  /\ seq' = [seq EXCEPT ![s] = @ + 1]
  /\ log' = [log EXCEPT ![s] =
               Push(@, [seq |-> seq[s] + 1, origin |-> origin, msg |-> m, to |-> to])]

\* What relaying one wire message to the peers in Q adds to each of them.
RelayTo(Q, w) == [p \in Servers |-> IF p \in Q THEN <<w>> ELSE <<>>]

\* Seeded fault: the origin is not looked at.
RelayTargetsAll(s, origin) == links[s]

\* The links an event is relayed to: none if it came from a peer.
RelayTargets(s, origin) == IF origin = NoOrigin THEN links[s] ELSE {}

-----------------------------------------------------------------------------
(* Initial state: every server has emitted SERVER_WAKE in IRCd.start. *)

Wake == [seq |-> 1, origin |-> NoOrigin, msg |-> NoMsg, to |-> Channel]

Init ==
  /\ seq      = [s \in Servers |-> 1]
  /\ log      = [s \in Servers |-> <<Wake>>]
  /\ acked    = [s \in Servers |-> [p \in Servers |-> 0]]
  /\ links    = [s \in Servers |-> {}]
  /\ lastSeen = [s \in Servers |-> [p \in Servers |-> 0]]
  /\ replay   = [s \in Servers |-> [p \in Servers |-> NoReplay]]
  /\ conn     = [s \in Servers |-> [p \in Servers |-> 0]]
  /\ dialed   = [s \in Servers |-> {}]
  /\ wire     = [s \in Servers |-> [p \in Servers |-> <<>>]]
  /\ conns    = 0
  /\ restarts = 0
  /\ sent     = [s \in Servers |-> 0]
  /\ locals   = [s \in Servers |-> 0]
  /\ got      = [s \in Servers |-> <<>>]
  /\ missed   = {}

-----------------------------------------------------------------------------
(* Events of local clients. *)

Send(s, to, relayed) ==
  LET m == <<s, sent[s] + 1>> IN
  /\ s \in Senders
  /\ sent[s] + locals[s] < MaxEvents
  /\ sent' = [sent EXCEPT ![s] = @ + 1]
  /\ Emit(s, NoOrigin, m, to)
  /\ wire' = [wire EXCEPT ![s] = Written(s, relayed)]
  /\ missed' = missed \cup {<<m, p>> : p \in Servers \ (links[s] \cup {s})}
  /\ UNCHANGED <<acked, links, lastSeen, replay, conn, dialed, conns,
                 restarts, locals, got>>

\* A client of s sends to the channel: the event is relayed as one SMSG a link.
SendToChannel(s) ==
  Send(s, Channel, RelayTo(RelayTargets(s, NoOrigin), SMSG(<<s, sent[s] + 1>>, Channel)))

\* A client of s sends a direct message to a user of p, known from p's burst:
\* Client._send_to_client writes an SMSG to the recipient's link, and the
\* MESSAGE event that follows is relayed to every link.
SendDirect(s, p) ==
  LET w == SMSG(<<s, sent[s] + 1>>, p) IN
  /\ p \in links[s]
  /\ Send(s, p, [q \in Servers |-> RelayTo({p}, w)[q]
                                   \o RelayTo(RelayTargets(s, NoOrigin), w)[q]])

\* Any other event of a client of s (JOIN, PART, TOPIC, ...): its typed relay
\* is no event at the peer.
EmitLocal(s) ==
  /\ s \in Senders
  /\ sent[s] + locals[s] < MaxEvents
  /\ locals' = [locals EXCEPT ![s] = @ + 1]
  /\ Emit(s, NoOrigin, NoMsg, Channel)
  /\ UNCHANGED <<acked, links, lastSeen, replay, conn, dialed, wire, conns,
                 restarts, sent, got, missed>>

-----------------------------------------------------------------------------
(* Connections. *)

\* s dials p: IRCd.connect_to_peer, then ServerLink.handle of the initiator
\* sends its handshake.  The previous connection of the two is gone.
Connect(s, p) ==
  /\ conns < MaxConns
  /\ conn[s][p] = 0 /\ conn[p][s] = 0
  /\ conns' = conns + 1
  /\ conn'  = [conn EXCEPT ![s][p] = conns + 1, ![p][s] = conns + 1]
  /\ dialed' = [dialed EXCEPT ![s] = @ \cup {p}, ![p] = @ \ {s}]
  /\ wire'  = [wire EXCEPT ![s][p] = <<SERVER>>, ![p][s] = <<>>]
  /\ UNCHANGED <<seq, log, acked, links, lastSeen, replay, restarts, sent,
                 locals, got, missed>>

\* IRCd._remove_link, in the finally of ServerLink.handle: the peer leaves the
\* table, our sequence number becomes what it has seen, and SERVER_UNLINK is
\* relayed to the others.  Nobody reads on what p had written to this end.
RemoveLink(s, p) ==
  /\ conn'   = [conn EXCEPT ![s][p] = 0]
  /\ replay' = [replay EXCEPT ![s][p] = NoReplay]
  /\ IF p \in links[s]
     THEN /\ links' = [links EXCEPT ![s] = @ \ {p}]
          /\ acked' = [acked EXCEPT ![s][p] = seq[s]]
          /\ Emit(s, NoOrigin, NoMsg, Channel)
          /\ wire'  = [wire EXCEPT ![p][s] = <<>>,
                                   ![s] = Written(s, RelayTo(links[s] \ {p}, SEVENT))]
     ELSE /\ wire' = [wire EXCEPT ![p][s] = <<>>]
          /\ UNCHANGED <<links, acked, seq, log>>
  /\ UNCHANGED <<lastSeen, dialed, conns, restarts, sent, locals, got, missed>>

\* The read of s returns end of file or fails, at any time.  The handler is
\* not reading while it replays a backlog.
CloseEnd(s, p) ==
  /\ conn[s][p] # 0
  /\ replay[s][p].phase # "running"
  /\ RemoveLink(s, p)

\* A server process dies and comes back: nothing of this state is on disk.
Restart(s) ==
  /\ restarts < MaxRestarts
  /\ restarts' = restarts + 1
  /\ seq'      = [seq EXCEPT ![s] = 1]
  /\ log'      = [log EXCEPT ![s] = <<Wake>>]
  /\ acked'    = [acked EXCEPT ![s] = [p \in Servers |-> 0]]
  /\ links'    = [links EXCEPT ![s] = {}]
  /\ lastSeen' = [lastSeen EXCEPT ![s] = [p \in Servers |-> 0]]
  /\ replay'   = [replay EXCEPT ![s] = [p \in Servers |-> NoReplay]]
  /\ conn'     = [conn EXCEPT ![s] = [p \in Servers |-> 0]]
  /\ wire'     = [q \in Servers |-> [wire[q] EXCEPT ![s] = <<>>]]
  /\ UNCHANGED <<dialed, conns, sent, locals, got, missed>>

-----------------------------------------------------------------------------
(* What s does with the next message from p. *)

\* The message of p that s reads next.
Incoming(s, p) == Head(wire[p][s])

\* The handler of s for p is free to read, and what comes next is of this type.
Reads(s, p, type) ==
  /\ conn[s][p] # 0
  /\ replay[s][p].phase # "running"
  /\ wire[p][s] # <<>>
  /\ Incoming(s, p).type = type

\* wire once s has read one message from p and written out to its peers.
ReadAndWrite(s, p, out) ==
  wire' = [wire EXCEPT ![p][s] = Tail(@), ![s] = Written(s, out)]

\* ServerLink._try_complete_handshake.  The side that was dialled answers with
\* its own handshake; both restore the cursor from _peer_acked_seq, ask for a
\* backfill from it and emit SERVER_LINK, which the new link relays too.
RecvServer(s, p) ==
  LET answer == IF p \in dialed[s] THEN <<>> ELSE <<SERVER>>
      hello  == answer \o <<BACKFILL(acked[s][p])>>
      linked == links[s] \cup {p}
  IN /\ Reads(s, p, "SERVER")
     /\ p \notin links[s]
     /\ links'    = [links EXCEPT ![s] = linked]
     /\ lastSeen' = [lastSeen EXCEPT ![s][p] = acked[s][p]]
     /\ Emit(s, NoOrigin, NoMsg, Channel)
     /\ ReadAndWrite(s, p, [q \in Servers |-> (IF q = p THEN hello ELSE <<>>)
                                               \o RelayTo(linked, SEVENT)[q]])
     /\ UNCHANGED <<acked, replay, conn, dialed, conns, restarts, sent, locals,
                    got, missed>>

\* ServerLink._handle_sevent: emitted here with the peer as its origin.
RecvEvent(s, p) ==
  /\ Reads(s, p, "SEVENT")
  /\ Emit(s, p, NoMsg, Channel)
  /\ ReadAndWrite(s, p, RelayTo(RelayTargets(s, p), SEVENT))
  /\ UNCHANGED <<acked, links, lastSeen, replay, conn, dialed, conns, restarts,
                 sent, locals, got, missed>>

\* ServerLink._handle_smsg: delivered to the local members of the channel, or
\* to the recipient if it is local, and emitted with the peer as its origin.
RecvMessage(s, p) ==
  LET w == Incoming(s, p) IN
  /\ Reads(s, p, "SMSG")
  /\ IF w.to \in {Channel, s}
     THEN /\ got' = [got EXCEPT ![s] =
                      Append(@, [msg |-> w.msg, to |-> w.to, from |-> p,
                                 conn |-> conn[s][p]])]
          /\ Emit(s, p, w.msg, w.to)
          /\ ReadAndWrite(s, p, RelayTo(RelayTargets(s, p), w))
     ELSE /\ ReadAndWrite(s, p, RelayTo({}, w))
          /\ UNCHANGED <<got, seq, log>>
  /\ UNCHANGED <<acked, links, lastSeen, replay, conn, dialed, conns, restarts,
                 sent, locals, missed>>

\* Seeded fault: the cursor is one too high.
ShouldReplayOneLater(e, after) == e.seq > after + 1 /\ e.origin = NoOrigin /\ e.msg # NoMsg

\* ServerLink._should_replay_event, and the filter of _replay_event: message
\* events only.
ShouldReplay(e, after) == e.seq > after /\ e.origin = NoOrigin /\ e.msg # NoMsg

\* The loop of _handle_backfill from position i of the log: it sends the next
\* event to replay and suspends, or it ends with BACKFILLEND.  What is left to
\* read from p is rest.
ReplayFrom(s, p, i, after, rest) ==
  LET todo     == {j \in i .. Len(log[s]) : ShouldReplay(log[s][j], after)}
      Reply(w) == wire' = [wire EXCEPT ![p][s] = rest, ![s] = Written(s, RelayTo({p}, w))]
  IN \/ /\ todo = {}
        /\ replay' = [replay EXCEPT ![s][p] =
                        [phase |-> "done", after |-> after, next |-> 0, top |-> 0]]
        /\ Reply(BACKFILLEND(seq[s]))
     \/ \E j \in todo :
        /\ \A k \in todo : j <= k
        /\ replay' = [replay EXCEPT ![s][p] =
                        [phase |-> "running", after |-> after, next |-> j + 1, top |-> seq[s]]]
        /\ Reply(SMSG(log[s][j].msg, log[s][j].to))

\* ServerLink._handle_backfill: from the higher of the peer's cursor and what
\* this server recorded when the last link dropped.
EffectiveCursorOnly(s, p, cursor) == cursor  \* seeded fault: _peer_acked_seq ignored
Effective(s, p, cursor) == IF cursor > acked[s][p] THEN cursor ELSE acked[s][p]

RecvBackfill(s, p) ==
  /\ Reads(s, p, "BACKFILL")
  /\ ReplayFrom(s, p, 1, Effective(s, p, Incoming(s, p).at), Tail(wire[p][s]))
  /\ UNCHANGED <<seq, log, acked, links, lastSeen, conn, dialed, conns, restarts,
                 sent, locals, got, missed>>

\* The replay goes on if nothing was logged while it was suspended ...
ReplayStep(s, p) ==
  /\ replay[s][p].phase = "running"
  /\ seq[s] = replay[s][p].top
  /\ ReplayFrom(s, p, replay[s][p].next, replay[s][p].after, wire[p][s])
  /\ UNCHANGED <<seq, log, acked, links, lastSeen, conn, dialed, conns, restarts,
                 sent, locals, got, missed>>

\* ... and otherwise the iteration over the deque raises RuntimeError, which
\* only the finally of ServerLink.handle meets.
\* Seeded fault: the error is swallowed and the handler never returns.
ReplayAbortSwallowed(s, p) ==
  replay[s][p].phase = "running" /\ seq[s] # replay[s][p].top /\ UNCHANGED vars

ReplayAbort(s, p) ==
  /\ replay[s][p].phase = "running"
  /\ seq[s] # replay[s][p].top
  /\ RemoveLink(s, p)

\* ServerLink._handle_backfillend
RecvBackfillEnd(s, p) ==
  /\ Reads(s, p, "BACKFILLEND")
  /\ lastSeen' = [lastSeen EXCEPT ![s][p] = Incoming(s, p).at]
  /\ wire' = [wire EXCEPT ![p][s] = Tail(@)]
  /\ UNCHANGED <<seq, log, acked, links, replay, conn, dialed, conns, restarts,
                 sent, locals, got, missed>>

-----------------------------------------------------------------------------
(* The specification. *)

Receive(s, p) == \/ RecvServer(s, p)
                 \/ RecvEvent(s, p)
                 \/ RecvMessage(s, p)
                 \/ RecvBackfill(s, p)
                 \/ RecvBackfillEnd(s, p)

Next ==
  \/ \E s \in Servers : SendToChannel(s) \/ EmitLocal(s) \/ Restart(s)
  \/ \E s \in Servers : \E p \in Servers \ {s} :
        \/ SendDirect(s, p) \/ Connect(s, p) \/ CloseEnd(s, p)
        \/ Receive(s, p) \/ ReplayStep(s, p) \/ ReplayAbort(s, p)

Spec == Init /\ [][Next]_vars

\* The event loop keeps running the handler of a link that has input, and a
\* replay that is suspended.
Fairness == \A s, p \in Servers :
              s # p => WF_vars(Receive(s, p)) /\ WF_vars(ReplayStep(s, p) \/ ReplayAbort(s, p))

FairSpec == Spec /\ Fairness

-----------------------------------------------------------------------------
(* Properties. *)

Delivery == [msg : MsgIds, to : Dests, from : Servers, conn : Nat]

\* Every variable has the type its code gives it (IRCd.__init__).
TypeOK ==
  /\ seq      \in [Servers -> Nat \ {0}]
  /\ log      \in [Servers -> Seq(Entries)]
  /\ acked    \in [Servers -> [Servers -> Nat]]
  /\ links    \in [Servers -> SUBSET Servers]
  /\ lastSeen \in [Servers -> [Servers -> Nat]]
  /\ replay   \in [Servers -> [Servers -> Replays]]
  /\ conn     \in [Servers -> [Servers -> Nat]]
  /\ dialed   \in [Servers -> SUBSET Servers]
  /\ wire     \in [Servers -> [Servers -> Seq(WireMsgs)]]
  /\ conns    \in Nat
  /\ restarts \in Nat
  /\ sent     \in [Servers -> Nat]
  /\ locals   \in [Servers -> Nat]
  /\ got      \in [Servers -> Seq(Delivery)]
  /\ missed   \in SUBSET (MsgIds \X Servers)

\* No transitive routing and no echo: a message of a peer is delivered only on
\* the link to the server it was sent on, whatever was relayed and replayed
\* (the _origin tag in emit_event and _should_replay_event).
FromOrigin == \A s \in Servers : \A i \in DOMAIN got[s] : got[s][i].from = got[s][i].msg[1]

\* A message that was delivered over one connection is not replayed over a
\* later one, whoever restarts in between (_peer_acked_seq).
OneConnection ==
  \A s \in Servers : \A i, j \in DOMAIN got[s] :
    got[s][i].msg = got[s][j].msg => got[s][i].conn = got[s][j].conn

Delivered(m, p) == \E i \in DOMAIN got[p] : got[p][i].msg = m
InFlight(m, s, p) == \E i \in DOMAIN wire[s][p] :
                       wire[s][p][i].type = "SMSG" /\ wire[s][p][i].msg = m

\* The messages of s that are for p and still in its log.
Outgoing(s, p) == {i \in DOMAIN log[s] : /\ log[s][i].origin = NoOrigin
                                         /\ log[s][i].msg # NoMsg
                                         /\ log[s][i].to \in {Channel, p}}

\* The hand-over from replay to live relay has no gap: once s has taken the
\* BACKFILL of p, every message it logged after the cursor it replays from has
\* been delivered at p, is on its way, or is still ahead of the replay, for as
\* long as both hold the connection.
NoGap ==
  \A s \in Servers : \A p \in Servers \ {s} :
    LET r == replay[s][p] IN
    Readable(s, p) /\ r.phase # "idle" =>
      \A i \in Outgoing(s, p) :
        \/ log[s][i].seq <= r.after
        \/ Delivered(log[s][i].msg, p)
        \/ InFlight(log[s][i].msg, s, p)
        \/ r.phase = "running" /\ (i >= r.next \/ seq[s] # r.top)

\* A BACKFILL that was sent is answered with BACKFILLEND, or the link goes
\* down at one end, also when the replay fails half-way.
BackfillAnswered ==
  \A s \in Servers : \A p \in Servers \ {s} :
    (\E i \in DOMAIN wire[p][s] : wire[p][s][i].type = "BACKFILL")
      ~> (\/ \E i \in DOMAIN wire[s][p] : wire[s][p][i].type = "BACKFILLEND"
          \/ ~Readable(s, p))

-----------------------------------------------------------------------------
(* What the documentation and the comments say, and the code does not do. *)

\* s has served the backfill of p, and everything it wrote has been read.
CaughtUp(s, p) == /\ Readable(s, p)
                  /\ replay[s][p].phase = "done"
                  /\ wire[s][p] = <<>>

\* "Events that happened during the outage are replayed, so no messages are
\* lost across a partition" (docs/shared/concepts/federation.md): once p has
\* caught up, it has the messages sent while it was not linked.
NoLossAcrossPartition ==
  \A s \in Servers : \A p \in Servers \ {s} : CaughtUp(s, p) =>
    \A i \in Outgoing(s, p) : <<log[s][i].msg, p>> \in missed => Delivered(log[s][i].msg, p)

=============================================================================
