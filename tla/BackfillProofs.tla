--------------------------- MODULE BackfillProofs ---------------------------
(***************************************************************************)
(* Proofs about Backfill, for any set of servers and any bounds: the types *)
(* and the provenance of every message, that no message comes over two     *)
(* connections, and that the hand-over from replay to live relay has no    *)
(* gap.                                                                    *)
(***************************************************************************)
EXTENDS Backfill, SequenceTheorems, TLAPS

\* What may stand in the log of s, on the wire from s and in what is delivered
\* to it: a message s logged as its own, or wrote out, is a message of s.
EntriesOf(s) == {e \in Entries : e.origin = NoOrigin /\ e.msg # NoMsg => e.msg[1] = s}
WireOf(s)    == {w \in WireMsgs : w.type = "SMSG" => w.msg[1] = s}
Direct       == {d \in Delivery : d.from = d.msg[1]}

LogOK(l)   == l \in [Servers -> Seq(Entries)]
              /\ \A s \in Servers : l[s] \in Seq(EntriesOf(s))
WireOK(w)  == w \in [Servers -> [Servers -> Seq(WireMsgs)]]
              /\ \A s, p \in Servers : w[s][p] \in Seq(WireOf(s))
GotOK(g)   == g \in [Servers -> Seq(Direct)]

\* The rest of TypeOK, in the groups that the actions change together.
TablesOK == /\ acked    \in [Servers -> [Servers -> Nat]]
            /\ links    \in [Servers -> SUBSET Servers]
            /\ lastSeen \in [Servers -> [Servers -> Nat]]
            /\ replay   \in [Servers -> [Servers -> Replays]]
            /\ conn     \in [Servers -> [Servers -> Nat]]
            /\ dialed   \in [Servers -> SUBSET Servers]
            /\ conns    \in Nat
CountsOK == /\ seq      \in [Servers -> Nat \ {0}]
            /\ restarts \in Nat
            /\ sent     \in [Servers -> Nat]
            /\ locals   \in [Servers -> Nat]
            /\ missed   \in SUBSET (MsgIds \X Servers)

\* The inductive invariant: the types, with the provenance of every message.
Inv == TablesOK /\ CountsOK /\ LogOK(log) /\ WireOK(wire) /\ GotOK(got)

-----------------------------------------------------------------------------

\* A full log drops its oldest entry and keeps its type.
LEMMA PushType ==
  ASSUME NEW S, NEW l \in Seq(S), NEW e \in S
  PROVE  Push(l, e) \in Seq(S)
<1>1. Append(l, e) \in Seq(S)
  OBVIOUS
<1>2. ASSUME Len(l) = LogMax  PROVE Append(Tail(l), e) \in Seq(S)
  <2>1. l # <<>>
    BY <1>2, LogMaxAssumption
  <2>2. Tail(l) \in Seq(S)
    BY <2>1, HeadTailProperties
  <2>. QED BY <2>2
<1>. QED BY <1>1, <1>2 DEF Push

LEMMA EmptyOK == ASSUME NEW S PROVE <<>> \in Seq(S)
OBVIOUS

LEMMA OneOK == ASSUME NEW S, NEW e \in S PROVE <<e>> \in Seq(S)
OBVIOUS

LEMMA ConcatOK == ASSUME NEW S, NEW t \in Seq(S), NEW u \in Seq(S) PROVE t \o u \in Seq(S)
BY ConcatProperties

LEMMA TailOK == ASSUME NEW S, NEW t \in Seq(S), t # <<>> PROVE Tail(t) \in Seq(S) /\ Head(t) \in S
BY HeadTailProperties

\* Emitting an event keeps the counters and the logs as they should be.
LEMMA EmitOK ==
  ASSUME NEW s \in Servers, NEW origin \in Origins, NEW m \in MsgIds \cup {NoMsg},
         NEW to \in Dests, origin = NoOrigin /\ m # NoMsg => m[1] = s,
         seq \in [Servers -> Nat \ {0}], LogOK(log), Emit(s, origin, m, to)
  PROVE  seq' \in [Servers -> Nat \ {0}] /\ LogOK(log')
<1>. DEFINE e == [seq |-> seq[s] + 1, origin |-> origin, msg |-> m, to |-> to]
<1>1. seq' \in [Servers -> Nat \ {0}]
  BY DEF Emit
<1>2. e \in Entries /\ e \in EntriesOf(s)
  BY DEF Entries, EntriesOf
<1>3. Push(log[s], e) \in Seq(Entries) /\ Push(log[s], e) \in Seq(EntriesOf(s))
  BY <1>2, PushType DEF LogOK
<1>4. log' = [log EXCEPT ![s] = Push(log[s], e)]
  BY DEF Emit
<1>. HIDE DEF e
<1>5. LogOK(log')
  BY <1>3, <1>4 DEF LogOK
<1>. QED BY <1>1, <1>5

\* Writing out messages of s keeps what is on the wire as it should be.
LEMMA WrittenOK ==
  ASSUME NEW s \in Servers, WireOK(wire), NEW out,
         \A q \in Servers : out[q] \in Seq(WireMsgs) /\ out[q] \in Seq(WireOf(s))
  PROVE  \A q \in Servers : /\ Written(s, out)[q] \in Seq(WireMsgs)
                            /\ Written(s, out)[q] \in Seq(WireOf(s))
<1>. SUFFICES ASSUME NEW q \in Servers
              PROVE  Written(s, out)[q] \in Seq(WireMsgs) /\ Written(s, out)[q] \in Seq(WireOf(s))
  OBVIOUS
<1>1. wire[s][q] \in Seq(WireMsgs) /\ wire[s][q] \in Seq(WireOf(s))
  BY DEF WireOK
<1>2. wire[s][q] \o out[q] \in Seq(WireMsgs) /\ wire[s][q] \o out[q] \in Seq(WireOf(s))
  BY <1>1, ConcatOK
<1>. QED BY <1>1, <1>2 DEF Written

LEMMA RelayOK ==
  ASSUME NEW s \in Servers, NEW Q, NEW w \in WireMsgs, w \in WireOf(s)
  PROVE  \A q \in Servers : /\ RelayTo(Q, w)[q] \in Seq(WireMsgs)
                            /\ RelayTo(Q, w)[q] \in Seq(WireOf(s))
BY EmptyOK, OneOK DEF RelayTo

\* One row of the wire is rewritten, and one queue of another row replaced.
LEMMA WireStep ==
  ASSUME NEW s \in Servers, NEW p \in Servers, WireOK(wire),
         NEW rest \in Seq(WireMsgs), rest \in Seq(WireOf(p)), NEW out,
         \A q \in Servers : out[q] \in Seq(WireMsgs) /\ out[q] \in Seq(WireOf(s)),
         wire' = [wire EXCEPT ![p][s] = rest, ![s] = Written(s, out)]
  PROVE  WireOK(wire')
<1>1. \A q \in Servers : /\ Written(s, out)[q] \in Seq(WireMsgs)
                         /\ Written(s, out)[q] \in Seq(WireOf(s))
  BY WrittenOK
<1>2. Written(s, out) \in [Servers -> Seq(WireMsgs)]
  BY <1>1 DEF Written
<1>. QED BY <1>1, <1>2 DEF WireOK

-----------------------------------------------------------------------------
(* The inductive invariant, one lemma per group of actions. *)

LEMMA InitInv == Init => Inv
<1>. SUFFICES ASSUME Init PROVE Inv
  OBVIOUS
<1>1. TablesOK
  BY DEF Init, TablesOK, NoReplay, Replays
<1>2. CountsOK
  BY DEF Init, CountsOK
<1>3. LogOK(log)
  <2>1. Wake \in Entries /\ \A s \in Servers : Wake \in EntriesOf(s)
    BY DEF Wake, Entries, EntriesOf, Origins, Dests
  <2>. QED BY <2>1, OneOK DEF Init, LogOK
<1>4. WireOK(wire)
  BY EmptyOK DEF Init, WireOK
<1>5. GotOK(got)
  BY EmptyOK DEF Init, GotOK
<1>. QED BY <1>1, <1>2, <1>3, <1>4, <1>5 DEF Inv

LEMMA MarkersOK ==
  /\ SERVER \in WireMsgs /\ SEVENT \in WireMsgs
  /\ \A n \in Nat : BACKFILL(n) \in WireMsgs /\ BACKFILLEND(n) \in WireMsgs
  /\ \A s : /\ SERVER \in WireOf(s) /\ SEVENT \in WireOf(s)
            /\ \A n \in Nat : BACKFILL(n) \in WireOf(s) /\ BACKFILLEND(n) \in WireOf(s)
BY DEF SERVER, SEVENT, BACKFILL, BACKFILLEND, WireMsgs, WireOf

LEMMA MessageOK ==
  ASSUME NEW m \in MsgIds, NEW to \in Dests
  PROVE  SMSG(m, to) \in WireMsgs /\ (\A s : m[1] = s => SMSG(m, to) \in WireOf(s))
BY DEF SMSG, WireMsgs, WireOf

\* What a client of s sends has s as its first component.
LEMMA FreshMessage ==
  ASSUME CountsOK, NEW s \in Servers
  PROVE  <<s, sent[s] + 1>> \in MsgIds /\ <<s, sent[s] + 1>>[1] = s
BY DEF CountsOK, MsgIds

LEMMA SendInv ==
  ASSUME Inv, NEW s \in Servers, NEW to \in Dests, NEW out,
         \A q \in Servers : out[q] \in Seq(WireMsgs) /\ out[q] \in Seq(WireOf(s)),
         Send(s, to, out)
  PROVE  Inv'
<1>. DEFINE m == <<s, sent[s] + 1>>
<1>1. m \in MsgIds /\ m[1] = s
  BY FreshMessage DEF Inv
<1>2. seq' \in [Servers -> Nat \ {0}] /\ LogOK(log')
  <2>1. Emit(s, NoOrigin, m, to)
    BY DEF Send
  <2>. HIDE DEF m
  <2>2. seq \in [Servers -> Nat \ {0}] /\ LogOK(log) /\ NoOrigin \in Origins
    BY DEF Inv, CountsOK, Origins
  <2>. QED BY <1>1, <2>1, <2>2, EmitOK
<1>3. CountsOK'
  <2>1. missed' = missed \cup {<<m, p>> : p \in Servers \ (links[s] \cup {s})}
    BY DEF Send
  <2>2. sent' \in [Servers -> Nat] /\ restarts' \in Nat /\ locals' \in [Servers -> Nat]
    BY DEF Inv, CountsOK, Send
  <2>. HIDE DEF m
  <2>3. missed' \in SUBSET (MsgIds \X Servers)
    BY <1>1, <2>1 DEF Inv, CountsOK
  <2>. QED BY <1>2, <2>2, <2>3 DEF CountsOK
<1>4. WireOK(wire')
  <2>1. wire' = [wire EXCEPT ![s] = Written(s, out)]
    BY DEF Send
  <2>2. \A q \in Servers : /\ Written(s, out)[q] \in Seq(WireMsgs)
                           /\ Written(s, out)[q] \in Seq(WireOf(s))
    BY WrittenOK DEF Inv
  <2>3. Written(s, out) \in [Servers -> Seq(WireMsgs)]
    BY <2>2 DEF Written
  <2>. QED BY <2>1, <2>2, <2>3 DEF Inv, WireOK
<1>5. TablesOK' /\ GotOK(got')
  BY DEF Inv, TablesOK, GotOK, Send
<1>. QED BY <1>2, <1>3, <1>4, <1>5 DEF Inv

LEMMA SendToChannelInv ==
  ASSUME Inv, NEW s \in Servers, SendToChannel(s) PROVE Inv'
<1>. DEFINE w == SMSG(<<s, sent[s] + 1>>, Channel)
<1>1. w \in WireMsgs /\ w \in WireOf(s)
  BY FreshMessage, MessageOK DEF Inv, Dests
<1>2. Send(s, Channel, RelayTo(RelayTargets(s, NoOrigin), w))
  BY DEF SendToChannel
<1>. HIDE DEF w
<1>. QED BY <1>1, <1>2, RelayOK, SendInv DEF Dests

LEMMA SendDirectInv ==
  ASSUME Inv, NEW s \in Servers, NEW p \in Servers, SendDirect(s, p) PROVE Inv'
<1>. DEFINE w   == SMSG(<<s, sent[s] + 1>>, p)
            out == [q \in Servers |-> RelayTo({p}, w)[q] \o RelayTo(RelayTargets(s, NoOrigin), w)[q]]
<1>1. w \in WireMsgs /\ w \in WireOf(s)
  BY FreshMessage, MessageOK DEF Inv, Dests
<1>2. Send(s, p, out)
  BY DEF SendDirect
<1>3. \A q \in Servers : out[q] \in Seq(WireMsgs) /\ out[q] \in Seq(WireOf(s))
  <2>. HIDE DEF w
  <2>. QED BY <1>1, RelayOK, ConcatOK
<1>. HIDE DEF out
<1>. QED BY <1>2, <1>3, SendInv DEF Dests

LEMMA EmitLocalInv ==
  ASSUME Inv, NEW s \in Servers, EmitLocal(s) PROVE Inv'
<1>1. seq' \in [Servers -> Nat \ {0}] /\ LogOK(log')
  BY EmitOK DEF EmitLocal, Inv, CountsOK, Origins, Dests
<1>2. CountsOK'
  <2>1. locals' = [locals EXCEPT ![s] = locals[s] + 1] /\ UNCHANGED <<restarts, sent, missed>>
    BY DEF EmitLocal
  <2>. QED BY <1>1, <2>1 DEF Inv, CountsOK
<1>3. TablesOK'
  BY DEF EmitLocal, Inv, TablesOK
<1>4. WireOK(wire') /\ GotOK(got')
  BY DEF EmitLocal, Inv
<1>. QED BY <1>1, <1>2, <1>3, <1>4 DEF Inv

LEMMA ConnectInv ==
  ASSUME Inv, NEW s \in Servers, NEW p \in Servers, Connect(s, p) PROVE Inv'
<1>1. WireOK(wire')
  <2>1. <<SERVER>> \in Seq(WireMsgs) /\ \A q : <<SERVER>> \in Seq(WireOf(q))
    BY MarkersOK, OneOK
  <2>2. wire' = [wire EXCEPT ![s][p] = <<SERVER>>, ![p][s] = <<>>]
    BY DEF Connect
  <2>. QED BY <2>1, <2>2, EmptyOK DEF Inv, WireOK
<1>2. TablesOK'
  <2>1. conns' \in Nat /\ conn' = [conn EXCEPT ![s][p] = conns', ![p][s] = conns']
    BY DEF Connect, Inv, TablesOK
  <2>2. conn' \in [Servers -> [Servers -> Nat]]
    BY <2>1 DEF Inv, TablesOK
  <2>3. dialed' \in [Servers -> SUBSET Servers]
    BY DEF Connect, Inv, TablesOK
  <2>. QED BY <2>1, <2>2, <2>3 DEF Connect, Inv, TablesOK
<1>. QED BY <1>1, <1>2 DEF Connect, Inv, CountsOK, LogOK, GotOK

LEMMA HangUpOK ==
  ASSUME TablesOK, NEW s \in Servers, NEW p \in Servers, RemoveLink(s, p)
  PROVE  /\ conn'   \in [Servers -> [Servers -> Nat]]
         /\ replay' \in [Servers -> [Servers -> Replays]]
<1>1. NoReplay \in Replays
  BY DEF NoReplay, Replays
<1>2. replay' = [replay EXCEPT ![s][p] = NoReplay] /\ conn' = [conn EXCEPT ![s][p] = 0]
  BY DEF RemoveLink
<1>. QED BY <1>1, <1>2 DEF TablesOK

LEMMA RemoveLinkInv ==
  ASSUME Inv, NEW s \in Servers, NEW p \in Servers, RemoveLink(s, p) PROVE Inv'
<1>1. <<>> \in Seq(WireMsgs) /\ <<>> \in Seq(WireOf(p))
  BY EmptyOK
<1>2. CASE p \in links[s]
  <2>1. seq' \in [Servers -> Nat \ {0}] /\ LogOK(log')
    BY <1>2, EmitOK DEF RemoveLink, Inv, CountsOK, Origins, Dests
  <2>2. WireOK(wire')
    BY <1>1, <1>2, MarkersOK, RelayOK, WireStep DEF RemoveLink, Inv
  <2>3. TablesOK'
    <3>1. acked' \in [Servers -> [Servers -> Nat]] /\ links' \in [Servers -> SUBSET Servers]
      <4>1. /\ seq[s] \in Nat
            /\ acked' = [acked EXCEPT ![s][p] = seq[s]]
            /\ links' = [links EXCEPT ![s] = links[s] \ {p}]
        BY <1>2 DEF RemoveLink, Inv, CountsOK
      <4>. QED BY <4>1 DEF Inv, TablesOK
    <3>. QED BY <3>1, HangUpOK DEF RemoveLink, Inv, TablesOK
  <2>. QED BY <2>1, <2>2, <2>3 DEF RemoveLink, Inv, CountsOK, GotOK
<1>3. CASE p \notin links[s]
  <2>1. WireOK(wire')
    <3>1. wire' = [wire EXCEPT ![p][s] = <<>>]
      BY <1>3 DEF RemoveLink
    <3>. QED BY <1>1, <3>1, EmptyOK DEF Inv, WireOK
  <2>2. TablesOK'
    BY <1>3, HangUpOK DEF RemoveLink, Inv, TablesOK
  <2>. QED BY <1>3, <2>1, <2>2 DEF RemoveLink, Inv, CountsOK, LogOK, GotOK
<1>. QED BY <1>2, <1>3

LEMMA RestartInv ==
  ASSUME Inv, NEW s \in Servers, Restart(s) PROVE Inv'
<1>1. Wake \in Entries /\ \A q \in Servers : Wake \in EntriesOf(q)
  BY DEF Wake, Entries, EntriesOf, Origins, Dests
<1>2. LogOK(log')
  BY <1>1, OneOK DEF Restart, Inv, LogOK
<1>3. WireOK(wire')
  BY EmptyOK DEF Restart, Inv, WireOK
<1>4. TablesOK'
  BY DEF Restart, Inv, TablesOK, NoReplay, Replays
<1>. QED BY <1>2, <1>3, <1>4 DEF Restart, Inv, CountsOK, GotOK

-----------------------------------------------------------------------------
(* The handlers of what a peer has written. *)

\* What is left to read from p, and what was read, are messages of p.
LEMMA IncomingOK ==
  ASSUME WireOK(wire), NEW s \in Servers, NEW p \in Servers, NEW type, Reads(s, p, type)
  PROVE  /\ Tail(wire[p][s]) \in Seq(WireMsgs) /\ Tail(wire[p][s]) \in Seq(WireOf(p))
         /\ Incoming(s, p) \in WireMsgs /\ Incoming(s, p) \in WireOf(p)
         /\ Incoming(s, p).type = type
<1>1. wire[p][s] \in Seq(WireMsgs) /\ wire[p][s] \in Seq(WireOf(p)) /\ wire[p][s] # <<>>
  BY DEF WireOK, Reads
<1>. QED BY <1>1, TailOK DEF Incoming, Reads

LEMMA ReadAndWriteOK ==
  ASSUME WireOK(wire), NEW s \in Servers, NEW p \in Servers, NEW type, Reads(s, p, type),
         NEW out, \A q \in Servers : out[q] \in Seq(WireMsgs) /\ out[q] \in Seq(WireOf(s)),
         ReadAndWrite(s, p, out)
  PROVE  WireOK(wire')
<1>1. wire' = [wire EXCEPT ![p][s] = Tail(wire[p][s]), ![s] = Written(s, out)]
  BY DEF ReadAndWrite
<1>. QED BY <1>1, IncomingOK, WireStep

LEMMA RecvServerInv ==
  ASSUME Inv, NEW s \in Servers, NEW p \in Servers, RecvServer(s, p) PROVE Inv'
<1>. DEFINE linked == links[s] \cup {p}
            hello  == (IF p \in dialed[s] THEN <<>> ELSE <<SERVER>>) \o <<BACKFILL(acked[s][p])>>
            out    == [q \in Servers |-> (IF q = p THEN hello ELSE <<>>)
                                          \o RelayTo(linked, SEVENT)[q]]
<1>1. acked[s][p] \in Nat
  BY DEF Inv, TablesOK
<1>2. \A q \in Servers : out[q] \in Seq(WireMsgs) /\ out[q] \in Seq(WireOf(s))
  <2>1. hello \in Seq(WireMsgs) /\ hello \in Seq(WireOf(s))
    BY <1>1, MarkersOK, EmptyOK, OneOK, ConcatOK
  <2>2. \A q \in Servers : /\ RelayTo(linked, SEVENT)[q] \in Seq(WireMsgs)
                           /\ RelayTo(linked, SEVENT)[q] \in Seq(WireOf(s))
    BY MarkersOK, RelayOK
  <2>. HIDE DEF hello, linked
  <2>. QED BY <2>1, <2>2, EmptyOK, ConcatOK
<1>3. ReadAndWrite(s, p, out) /\ Reads(s, p, "SERVER")
  BY DEF RecvServer
<1>4. WireOK(wire')
  <2>. HIDE DEF out
  <2>. QED BY <1>2, <1>3, ReadAndWriteOK DEF Inv
<1>5. seq' \in [Servers -> Nat \ {0}] /\ LogOK(log')
  BY EmitOK DEF RecvServer, Inv, CountsOK, Origins, Dests
<1>6. TablesOK'
  <2>1. /\ links' = [links EXCEPT ![s] = linked]
        /\ lastSeen' = [lastSeen EXCEPT ![s][p] = acked[s][p]]
        /\ UNCHANGED <<acked, replay, conn, dialed, conns>>
    BY DEF RecvServer
  <2>. QED BY <1>1, <2>1 DEF Inv, TablesOK
<1>7. CountsOK' /\ GotOK(got')
  <2>1. UNCHANGED <<restarts, sent, locals, got, missed>>
    BY DEF RecvServer
  <2>. QED BY <1>5, <2>1 DEF Inv, CountsOK
<1>. QED BY <1>4, <1>5, <1>6, <1>7 DEF Inv

LEMMA RecvEventInv ==
  ASSUME Inv, NEW s \in Servers, NEW p \in Servers, RecvEvent(s, p) PROVE Inv'
<1>1. seq' \in [Servers -> Nat \ {0}] /\ LogOK(log')
  <2>1. Emit(s, p, NoMsg, Channel) /\ p # NoOrigin
    BY NoOriginAssumption DEF RecvEvent
  <2>. QED BY <2>1, EmitOK DEF Inv, CountsOK, Origins, Dests
<1>2. WireOK(wire')
  BY MarkersOK, RelayOK, ReadAndWriteOK DEF RecvEvent, Inv
<1>3. UNCHANGED <<acked, links, lastSeen, replay, conn, dialed, conns, restarts,
                  sent, locals, got, missed>>
  BY DEF RecvEvent
<1>4. TablesOK'
  BY <1>3 DEF Inv, TablesOK
<1>5. CountsOK' /\ GotOK(got')
  BY <1>1, <1>3 DEF Inv, CountsOK
<1>. QED BY <1>1, <1>2, <1>4, <1>5 DEF Inv

LEMMA RecvMessageInv ==
  ASSUME Inv, NEW s \in Servers, NEW p \in Servers, RecvMessage(s, p) PROVE Inv'
<1>. DEFINE w == Incoming(s, p)
<1>1. Reads(s, p, "SMSG") /\ w \in WireMsgs /\ w.type = "SMSG" /\ w \in WireOf(p)
  <2>1. Reads(s, p, "SMSG")
    BY DEF RecvMessage
  <2>. QED BY <2>1, IncomingOK DEF Inv
<1>2. w.msg \in MsgIds /\ w.to \in Dests /\ w.msg[1] = p
  BY <1>1 DEF WireMsgs, WireOf
<1>3. UNCHANGED <<acked, links, lastSeen, replay, conn, dialed, conns, restarts,
                  sent, locals, missed>>
  BY DEF RecvMessage
<1>4. TablesOK'
  BY <1>3 DEF Inv, TablesOK
<1>5. seq' \in [Servers -> Nat \ {0}] /\ LogOK(log')
  <2>1. CASE w.to \in {Channel, s}
    <3>1. Emit(s, p, w.msg, w.to) /\ p # NoOrigin
      BY <2>1, NoOriginAssumption DEF RecvMessage
    <3>. HIDE DEF w
    <3>. QED BY <1>2, <3>1, EmitOK DEF Inv, CountsOK, Origins
  <2>2. CASE w.to \notin {Channel, s}
    BY <2>2 DEF RecvMessage, Inv, CountsOK
  <2>. QED BY <2>1, <2>2
<1>6. GotOK(got')
  <2>1. CASE w.to \in {Channel, s}
    <3>. DEFINE d == [msg |-> w.msg, to |-> w.to, from |-> p, conn |-> conn[s][p]]
    <3>1. got' = [got EXCEPT ![s] = Append(got[s], d)]
      BY <2>1 DEF RecvMessage
    <3>2. d \in Direct
      BY <1>2 DEF Direct, Delivery, Inv, TablesOK
    <3>3. got[s] \in Seq(Direct)
      BY DEF Inv, GotOK
    <3>. HIDE DEF d
    <3>4. Append(got[s], d) \in Seq(Direct)
      BY <3>2, <3>3
    <3>. QED BY <3>1, <3>4 DEF Inv, GotOK
  <2>2. CASE w.to \notin {Channel, s}
    BY <2>2 DEF RecvMessage, Inv
  <2>. QED BY <2>1, <2>2
<1>7. WireOK(wire')
  <2>1. CASE w.to \in {Channel, s}
    <3>1. \A q \in Servers : RelayTo(RelayTargets(s, p), w)[q] = <<>>
      BY NoOriginAssumption DEF RelayTo, RelayTargets
    <3>2. ReadAndWrite(s, p, RelayTo(RelayTargets(s, p), w))
      BY <2>1 DEF RecvMessage
    <3>. QED BY <1>1, <3>1, <3>2, EmptyOK, ReadAndWriteOK DEF Inv
  <2>2. CASE w.to \notin {Channel, s}
    <3>1. \A q \in Servers : RelayTo({}, w)[q] = <<>>
      BY DEF RelayTo
    <3>2. ReadAndWrite(s, p, RelayTo({}, w))
      BY <2>2 DEF RecvMessage
    <3>. QED BY <1>1, <3>1, <3>2, EmptyOK, ReadAndWriteOK DEF Inv
  <2>. QED BY <2>1, <2>2
<1>8. CountsOK'
  BY <1>3, <1>5 DEF Inv, CountsOK
<1>. QED BY <1>4, <1>5, <1>6, <1>7, <1>8 DEF Inv

\* A replay sends only what the server logged as its own.
LEMMA ReplayFromInv ==
  ASSUME Inv, NEW s \in Servers, NEW p \in Servers, NEW i \in Nat \ {0}, NEW after \in Nat,
         NEW rest \in Seq(WireMsgs), rest \in Seq(WireOf(p)), ReplayFrom(s, p, i, after, rest)
  PROVE  replay' \in [Servers -> [Servers -> Replays]] /\ WireOK(wire')
<1>. DEFINE todo == {j \in i .. Len(log[s]) : ShouldReplay(log[s][j], after)}
            Reply(w) == wire' = [wire EXCEPT ![p][s] = rest, ![s] = Written(s, RelayTo({p}, w))]
<1>1. seq[s] \in Nat /\ log[s] \in Seq(Entries) /\ log[s] \in Seq(EntriesOf(s))
  BY DEF Inv, CountsOK, LogOK
<1>2. ASSUME NEW w \in WireMsgs, w \in WireOf(s), Reply(w)  PROVE WireOK(wire')
  BY <1>2, RelayOK, WireStep DEF Inv
<1>3. ASSUME NEW r \in Replays, replay' = [replay EXCEPT ![s][p] = r]
      PROVE  replay' \in [Servers -> [Servers -> Replays]]
  BY <1>3 DEF Inv, TablesOK
<1>4. CASE todo = {} /\ Reply(BACKFILLEND(seq[s]))
           /\ replay' = [replay EXCEPT ![s][p] =
                            [phase |-> "done", after |-> after, next |-> 0, top |-> 0]]
  <2>1. [phase |-> "done", after |-> after, next |-> 0, top |-> 0] \in Replays
    BY DEF Replays
  <2>. QED BY <1>1, <1>2, <1>3, <1>4, <2>1, MarkersOK
<1>5. ASSUME NEW j \in todo, Reply(SMSG(log[s][j].msg, log[s][j].to)),
             replay' = [replay EXCEPT ![s][p] =
               [phase |-> "running", after |-> after, next |-> j + 1, top |-> seq[s]]]
      PROVE  replay' \in [Servers -> [Servers -> Replays]] /\ WireOK(wire')
  <2>1. j \in 1 .. Len(log[s]) /\ ShouldReplay(log[s][j], after)
    <3>1. Len(log[s]) \in Nat
      BY <1>1, LenProperties
    <3>. QED BY <1>5, <3>1
  <2>2. log[s][j] \in Entries /\ log[s][j] \in EntriesOf(s)
    BY <1>1, <2>1, ElementOfSeq
  <2>3. /\ log[s][j].msg \in MsgIds /\ log[s][j].msg[1] = s
        /\ log[s][j].to \in Dests
    BY <2>1, <2>2 DEF Entries, EntriesOf, ShouldReplay
  <2>4. [phase |-> "running", after |-> after, next |-> j + 1, top |-> seq[s]] \in Replays
    BY <1>1, <2>1 DEF Replays
  <2>. QED BY <1>2, <1>3, <1>5, <2>3, <2>4, MessageOK
<1>. QED BY <1>4, <1>5 DEF ReplayFrom

LEMMA RecvBackfillInv ==
  ASSUME Inv, NEW s \in Servers, NEW p \in Servers, RecvBackfill(s, p) PROVE Inv'
<1>1. Reads(s, p, "BACKFILL")
  BY DEF RecvBackfill
<1>2. /\ Tail(wire[p][s]) \in Seq(WireMsgs) /\ Tail(wire[p][s]) \in Seq(WireOf(p))
      /\ Incoming(s, p) \in WireMsgs /\ Incoming(s, p).type = "BACKFILL"
  BY <1>1, IncomingOK DEF Inv
<1>3. Incoming(s, p).at \in Nat
  BY <1>2 DEF WireMsgs
<1>4. Effective(s, p, Incoming(s, p).at) \in Nat
  BY <1>3 DEF Effective, Inv, TablesOK
<1>5. replay' \in [Servers -> [Servers -> Replays]] /\ WireOK(wire')
  <2>. DEFINE after == Effective(s, p, Incoming(s, p).at)
              rest  == Tail(wire[p][s])
              first == 1
  <2>1. ReplayFrom(s, p, first, after, rest) /\ first \in Nat \ {0} /\ after \in Nat
    BY <1>4 DEF RecvBackfill
  <2>2. rest \in Seq(WireMsgs) /\ rest \in Seq(WireOf(p))
    BY <1>2
  <2>. HIDE DEF after, rest, first
  <2>. QED BY <2>1, <2>2, ReplayFromInv
<1>6. UNCHANGED <<seq, log, acked, links, lastSeen, conn, dialed, conns, restarts,
                  sent, locals, got, missed>>
  BY DEF RecvBackfill
<1>7. TablesOK'
  BY <1>5, <1>6 DEF Inv, TablesOK
<1>8. CountsOK' /\ LogOK(log') /\ GotOK(got')
  BY <1>6 DEF Inv, CountsOK
<1>. QED BY <1>5, <1>7, <1>8 DEF Inv

LEMMA ReplayStepInv ==
  ASSUME Inv, NEW s \in Servers, NEW p \in Servers, ReplayStep(s, p) PROVE Inv'
<1>. DEFINE r == replay[s][p]
<1>1. r \in Replays /\ wire[p][s] \in Seq(WireMsgs) /\ wire[p][s] \in Seq(WireOf(p))
  BY DEF Inv, TablesOK, WireOK
<1>2. r.next \in Nat \ {0} /\ r.after \in Nat
  BY <1>1 DEF ReplayStep, Replays
<1>3. replay' \in [Servers -> [Servers -> Replays]] /\ WireOK(wire')
  <2>1. ReplayFrom(s, p, r.next, r.after, wire[p][s])
    BY DEF ReplayStep
  <2>. HIDE DEF r
  <2>. QED BY <1>1, <1>2, <2>1, ReplayFromInv
<1>4. UNCHANGED <<seq, log, acked, links, lastSeen, conn, dialed, conns, restarts,
                  sent, locals, got, missed>>
  BY DEF ReplayStep
<1>5. TablesOK'
  BY <1>3, <1>4 DEF Inv, TablesOK
<1>6. CountsOK' /\ LogOK(log') /\ GotOK(got')
  BY <1>4 DEF Inv, CountsOK
<1>. QED BY <1>3, <1>5, <1>6 DEF Inv

LEMMA RecvBackfillEndInv ==
  ASSUME Inv, NEW s \in Servers, NEW p \in Servers, RecvBackfillEnd(s, p) PROVE Inv'
<1>1. Reads(s, p, "BACKFILLEND")
  BY DEF RecvBackfillEnd
<1>2. /\ Tail(wire[p][s]) \in Seq(WireMsgs) /\ Tail(wire[p][s]) \in Seq(WireOf(p))
      /\ Incoming(s, p) \in WireMsgs /\ Incoming(s, p).type = "BACKFILLEND"
  BY <1>1, IncomingOK DEF Inv
<1>3. Incoming(s, p).at \in Nat
  BY <1>2 DEF WireMsgs
<1>4. WireOK(wire')
  <2>1. wire' = [wire EXCEPT ![p][s] = Tail(wire[p][s])]
    BY DEF RecvBackfillEnd
  <2>. QED BY <1>2, <2>1 DEF Inv, WireOK
<1>5. TablesOK'
  <2>1. lastSeen' = [lastSeen EXCEPT ![s][p] = Incoming(s, p).at]
    BY DEF RecvBackfillEnd
  <2>2. UNCHANGED <<acked, links, replay, conn, dialed, conns>>
    BY DEF RecvBackfillEnd
  <2>. QED BY <1>3, <2>1, <2>2 DEF Inv, TablesOK
<1>6. CountsOK' /\ LogOK(log') /\ GotOK(got')
  BY DEF RecvBackfillEnd, Inv, CountsOK
<1>. QED BY <1>4, <1>5, <1>6 DEF Inv

-----------------------------------------------------------------------------
(* The theorems. *)

LEMMA NextInv == Inv /\ [Next]_vars => Inv'
<1>. SUFFICES ASSUME Inv, [Next]_vars PROVE Inv'
  OBVIOUS
<1>1. CASE UNCHANGED vars
  BY <1>1 DEF vars, Inv, TablesOK, CountsOK
<1>2. ASSUME NEW s \in Servers, SendToChannel(s) \/ EmitLocal(s) \/ Restart(s)
      PROVE  Inv'
  BY <1>2, SendToChannelInv, EmitLocalInv, RestartInv
<1>3. ASSUME NEW s \in Servers, NEW p \in Servers,
             \/ SendDirect(s, p) \/ Connect(s, p) \/ CloseEnd(s, p)
             \/ Receive(s, p) \/ ReplayStep(s, p) \/ ReplayAbort(s, p)
      PROVE  Inv'
  <2>1. CASE SendDirect(s, p) \/ Connect(s, p)
    BY <2>1, SendDirectInv, ConnectInv
  <2>2. CASE CloseEnd(s, p) \/ ReplayAbort(s, p)
    BY <2>2, RemoveLinkInv DEF CloseEnd, ReplayAbort
  <2>3. CASE Receive(s, p)
    BY <2>3, RecvServerInv, RecvEventInv, RecvMessageInv, RecvBackfillInv,
       RecvBackfillEndInv DEF Receive
  <2>4. CASE ReplayStep(s, p)
    BY <2>4, ReplayStepInv
  <2>. QED BY <1>3, <2>1, <2>2, <2>3, <2>4
<1>. QED BY <1>1, <1>2, <1>3 DEF Next

\* The types and the provenance of every message hold in every reachable state.
THEOREM Invariance == Spec => []Inv
BY InitInv, NextInv, PTL DEF Spec

LEMMA InvImpliesTypeOK == Inv => TypeOK
<1>. SUFFICES ASSUME Inv PROVE TypeOK
  OBVIOUS
<1>1. Direct \subseteq Delivery
  BY DEF Direct
<1>2. got \in [Servers -> Seq(Delivery)]
  BY <1>1, SeqMonotonic DEF Inv, GotOK
<1>. QED BY <1>2 DEF TypeOK, Inv, TablesOK, CountsOK, LogOK, WireOK

\* Every variable keeps its type (IRCd.__init__, ServerLink.__init__), whatever
\* the number of servers, the size of the log and the number of connections.
THEOREM TypeCorrect == Spec => []TypeOK
BY Invariance, InvImpliesTypeOK, PTL

LEMMA InvImpliesFromOrigin == Inv => FromOrigin
<1>. SUFFICES ASSUME Inv, NEW s \in Servers, NEW i \in DOMAIN got[s]
              PROVE  got[s][i].from = got[s][i].msg[1]
  BY DEF FromOrigin
<1>1. got[s] \in Seq(Direct)
  BY DEF Inv, GotOK
<1>2. got[s][i] \in Direct
  BY <1>1, LenProperties, ElementOfSeq
<1>. QED BY <1>2 DEF Direct

\* No echo and no transitive routing: a message is delivered only on the link to
\* the server its sender is on, in a mesh of any size (the _origin tag).
THEOREM NoTransitiveRouting == Spec => []FromOrigin
BY Invariance, InvImpliesFromOrigin, PTL


-----------------------------------------------------------------------------
(* No message over two connections. *)

\* A queue holds the message m.
Holds(w, m) == \E i \in DOMAIN w : w[i].type = "SMSG" /\ w[i].msg = m

\* The message m of s, which went to p over connection c, will not be written to p over
\* another: p has been past it, or c is the connection that s holds for its link.
Over(s, p, m, c) ==
  \A i \in DOMAIN log[s] : log[s][i].origin = NoOrigin /\ log[s][i].msg = m =>
    log[s][i].seq <= acked[s][p] \/ (p \in links[s] /\ conn[s][p] = c)

\* The first line that s reads of p on a connection is SERVER, and p has written it as
\* soon as it dialled s or has registered the link.
HelloAt(p, s) ==
  p \notin links[s] =>
    IF wire[p][s] = <<>> THEN Readable(p, s) => s \notin links[p] /\ s \notin dialed[p]
                         ELSE wire[p][s][1].type = "SERVER"

\* A replay is for a link and goes on behind what was recorded for the peer.
CursorAt(s, p) == replay[s][p].phase = "running" =>
                    p \in links[s] /\ replay[s][p].after >= acked[s][p]

\* What was delivered at p as its j-th message.
DeliveredOnce(p, j) ==
  LET g == got[p][j] IN
  /\ Over(g.msg[1], p, g.msg, g.conn)
  /\ Holds(wire[g.msg[1]][p], g.msg) => g.conn = conn[p][g.msg[1]]

Links   == \A s \in Servers : \A p \in Servers :
             /\ p \in links[s] => conn[s][p] # 0
             /\ conn[s][p] = 0 => wire[p][s] = <<>>
             /\ HelloAt(p, s)
             /\ CursorAt(s, p)
Numbers == \A s \in Servers :
             /\ \A i \in DOMAIN log[s] :
                  /\ log[s][i].seq <= seq[s]
                  /\ \A n \in Nat : log[s][i].msg = <<s, n>> => n <= sent[s]
             /\ \A p \in Servers : \A n \in Nat : Holds(wire[s][p], <<s, n>>) => n <= sent[s]
             /\ \A p \in Servers : \A i \in DOMAIN got[p] : \A n \in Nat :
                  got[p][i].msg = <<s, n>> => n <= sent[s]
Flights == \A s \in Servers : \A p \in Servers : \A m \in MsgIds :
             Holds(wire[s][p], m) => Over(s, p, m, conn[p][s])
Once    == /\ Links /\ Numbers /\ Flights
           /\ \A p \in Servers : \A j \in DOMAIN got[p] : DeliveredOnce(p, j)
           /\ OneConnection

LEMMA HoldsConcat ==
  ASSUME NEW S, NEW t \in Seq(S), NEW u \in Seq(S), NEW m
  PROVE  Holds(t \o u, m) <=> Holds(t, m) \/ Holds(u, m)
<1>1. /\ t \o u \in Seq(S) /\ Len(t \o u) = Len(t) + Len(u)
      /\ \A i \in 1 .. Len(t) + Len(u) :
           (t \o u)[i] = IF i <= Len(t) THEN t[i] ELSE u[i - Len(t)]
  BY ConcatProperties
<1>2. DOMAIN t = 1 .. Len(t) /\ DOMAIN u = 1 .. Len(u) /\ Len(t) \in Nat /\ Len(u) \in Nat
      /\ DOMAIN (t \o u) = 1 .. Len(t) + Len(u)
  BY <1>1, LenProperties
<1>3. ASSUME Holds(t \o u, m) PROVE Holds(t, m) \/ Holds(u, m)
  <2>1. PICK i \in 1 .. Len(t) + Len(u) : (t \o u)[i].type = "SMSG" /\ (t \o u)[i].msg = m
    BY <1>2, <1>3 DEF Holds
  <2>2. CASE i <= Len(t)
    BY <1>1, <1>2, <2>1, <2>2 DEF Holds
  <2>3. CASE i > Len(t)
    <3>1. i - Len(t) \in DOMAIN u /\ (t \o u)[i] = u[i - Len(t)]
      BY <1>1, <1>2, <2>3
    <3>. QED BY <2>1, <3>1 DEF Holds
  <2>. QED BY <1>2, <2>2, <2>3
<1>4. ASSUME Holds(t, m) PROVE Holds(t \o u, m)
  <2>1. PICK i \in 1 .. Len(t) : t[i].type = "SMSG" /\ t[i].msg = m
    BY <1>2, <1>4 DEF Holds
  <2>2. i \in 1 .. Len(t) + Len(u) /\ (t \o u)[i] = t[i]
    BY <1>1, <1>2
  <2>. QED BY <1>2, <2>1, <2>2 DEF Holds
<1>5. ASSUME Holds(u, m) PROVE Holds(t \o u, m)
  <2>1. PICK i \in 1 .. Len(u) : u[i].type = "SMSG" /\ u[i].msg = m
    BY <1>2, <1>5 DEF Holds
  <2>2. i + Len(t) \in 1 .. Len(t) + Len(u) /\ (t \o u)[i + Len(t)] = u[i]
    BY <1>1, <1>2
  <2>. QED BY <1>2, <2>1, <2>2 DEF Holds
<1>. QED BY <1>3, <1>4, <1>5

LEMMA HoldsTail ==
  ASSUME NEW S, NEW t \in Seq(S), t # <<>>, NEW m, Holds(Tail(t), m)
  PROVE  Holds(t, m)
<1>1. PICK i \in DOMAIN Tail(t) : Tail(t)[i].type = "SMSG" /\ Tail(t)[i].msg = m
  BY DEF Holds
<1>2. i + 1 \in DOMAIN t /\ Tail(t)[i] = t[i + 1]
  BY HeadTailProperties, LenProperties
<1>. QED BY <1>1, <1>2 DEF Holds

LEMMA HoldsHead ==
  ASSUME NEW S, NEW t \in Seq(S), t # <<>>, Head(t).type = "SMSG"
  PROVE  Holds(t, Head(t).msg)
<1>1. 1 \in DOMAIN t /\ Head(t) = t[1]
  BY HeadTailProperties, LenProperties, EmptySeq
<1>. QED BY <1>1 DEF Holds

LEMMA HoldsEmpty == \A m : ~Holds(<<>>, m)
BY DEF Holds

LEMMA HoldsOne ==
  ASSUME NEW w, NEW m PROVE Holds(<<w>>, m) <=> w.type = "SMSG" /\ w.msg = m
BY DEF Holds

LEMMA FirstConcat ==
  ASSUME NEW S, NEW t \in Seq(S), NEW u \in Seq(S)
  PROVE  /\ t # <<>> => t \o u # <<>> /\ (t \o u)[1] = t[1]
         /\ t = <<>> => t \o u = u
<1>1. CASE t = <<>>
  BY <1>1, ConcatEmptySeq
<1>2. CASE t # <<>>
  <2>1. Len(t) \in Nat \ {0} /\ Len(u) \in Nat
    BY <1>2, LenProperties, EmptySeq
  <2>2. Len(t \o u) = Len(t) + Len(u) /\ (t \o u)[1] = t[1]
    BY <2>1, ConcatProperties
  <2>3. t \o u # <<>>
    BY <2>1, <2>2
  <2>. QED BY <1>2, <2>2, <2>3
<1>. QED BY <1>1, <1>2

\* What a log holds after a push was there before or is what was pushed.
LEMMA PushHolds ==
  ASSUME NEW S, NEW l \in Seq(S), NEW e \in S, NEW i \in DOMAIN Push(l, e)
  PROVE  Push(l, e)[i] = e \/ \E k \in DOMAIN l : Push(l, e)[i] = l[k]
<1>1. CASE Len(l) = LogMax
  <2>1. l # <<>>
    BY <1>1, LogMaxAssumption
  <2>2. Tail(l) \in Seq(S) /\ Len(Tail(l)) = Len(l) - 1
        /\ \A j \in 1 .. Len(Tail(l)) : Tail(l)[j] = l[j + 1]
    BY <2>1, HeadTailProperties
  <2>3. Push(l, e) = Append(Tail(l), e)
    BY <1>1 DEF Push
  <2>4. Len(l) \in Nat /\ DOMAIN l = 1 .. Len(l)
    BY LenProperties
  <2>5. CASE i = Len(l)
    BY <2>2, <2>3, <2>4, <2>5, AppendProperties
  <2>6. CASE i \in 1 .. Len(Tail(l))
    <3>1. Push(l, e)[i] = l[i + 1] /\ i + 1 \in DOMAIN l
      BY <2>2, <2>3, <2>4, <2>6, AppendProperties
    <3>. QED BY <3>1
  <2>7. i \in 1 .. Len(l)
    BY <2>2, <2>3, <2>4, AppendProperties
  <2>. QED BY <2>2, <2>4, <2>5, <2>6, <2>7
<1>2. CASE Len(l) # LogMax
  <2>1. Push(l, e) = Append(l, e)
    BY <1>2 DEF Push
  <2>2. Len(l) \in Nat /\ DOMAIN l = 1 .. Len(l)
    BY LenProperties
  <2>3. i \in 1 .. Len(l) + 1
    BY <2>1, <2>2, AppendProperties
  <2>. QED BY <2>1, <2>2, <2>3, AppendProperties
<1>. QED BY <1>1, <1>2

LEMMA MsgIdParts ==
  ASSUME NEW m \in MsgIds
  PROVE  /\ m[1] \in Servers /\ m[2] \in Nat \ {0} /\ m = <<m[1], m[2]>> /\ m # NoMsg
BY DEF MsgIds, NoMsg

-----------------------------------------------------------------------------
(* Steps of a server s that keeps its connections: it may read one line of p, log one
   event and write out[b] to each b that reads. *)

\* The links only grow, by p, from which SERVER was read.
GrowsLinks(s, p) ==
  /\ \A a \in Servers : a # s => links'[a] = links[a]
  /\ links[s] \subseteq links'[s] /\ links'[s] \subseteq links[s] \cup {p}
  /\ conn[s][p] = 0 => links'[s] = links[s]

\* The wires: what is left to read from p is rest.
TalksTo(s, p, rest, out) ==
  /\ UNCHANGED <<acked, conn, dialed>>
  /\ GrowsLinks(s, p)
  /\ \A a, b \in Servers :
       wire'[a][b] = IF a = s THEN Written(s, out)[b]
                     ELSE IF a = p /\ b = s THEN rest ELSE wire[a][b]
  /\ \/ rest = wire[p][s]
     \/ wire[p][s] # <<>> /\ rest = Tail(wire[p][s]) /\ p \in links'[s]
  /\ \A b \in Servers :
       /\ out[b] \in Seq(WireMsgs)
       /\ out[b] # <<>> => \/ b \in links[s]
                           \/ b = p /\ p \in links'[s]
                              /\ (p \in dialed[s] \/ out[b][1].type = "SERVER")
  /\ p \in links'[s] => \/ p \in links[s] \/ p \in dialed[s]
                        \/ out[p] # <<>> /\ out[p][1].type = "SERVER"

\* Messages are written to linked peers only: new ones, or those of the log behind what
\* the peer has been past.
MessagesTo(s, out) ==
  \A b \in Servers : \A m \in MsgIds : Holds(out[b], m) =>
    /\ b \in links[s] /\ m[1] = s /\ m[2] <= sent'[s]
    /\ \/ m[2] > sent[s]
       \/ \E j \in DOMAIN log[s] : /\ log[s][j].origin = NoOrigin /\ log[s][j].msg = m
                                   /\ log[s][j].seq > acked[s][b]

\* At most one event is logged; a message of s is a new one.
LogsOne(s) ==
  /\ \A a \in Servers : /\ a # s => log'[a] = log[a] /\ seq'[a] = seq[a]
                        /\ sent'[a] \in Nat /\ sent'[a] >= sent[a]
  /\ seq'[s] \in Nat /\ seq'[s] >= seq[s]
  /\ \A i \in DOMAIN log'[s] :
       \/ \E k \in DOMAIN log[s] : log'[s][i] = log[s][k]
       \/ /\ log'[s][i].seq <= seq'[s]
          /\ log'[s][i].origin = NoOrigin /\ log'[s][i].msg \in MsgIds => log'[s][i].msg[2] > sent[s]
          /\ \A n \in Nat : log'[s][i].msg = <<s, n>> => n <= sent'[s]

\* Only the replay to p changes.
ReplaysTo(s, p) ==
  \A a, b \in Servers : \/ replay'[a][b] = replay[a][b]
                        \/ a = s /\ b = p /\ p \in links[s] /\ replay'[s][p].after >= acked[s][p]

\* What is delivered is a message that s reads from p.
GetsFrom(s, p) ==
  \A q \in Servers : \A i \in DOMAIN got'[q] :
    \/ \E k \in DOMAIN got[q] : got'[q][i] = got[q][k]
    \/ q = s /\ got'[q][i].msg[1] = p /\ Holds(wire[p][s], got'[q][i].msg)

LEMMA LogParts ==
  ASSUME Inv, NEW s \in Servers, NEW i \in DOMAIN log[s]
  PROVE  log[s][i] \in Entries /\ log[s][i] \in EntriesOf(s) /\ log[s][i].seq \in Nat
<1>1. log[s] \in Seq(Entries) /\ log[s] \in Seq(EntriesOf(s))
  BY DEF Inv, LogOK
<1>2. log[s][i] \in Entries /\ log[s][i] \in EntriesOf(s)
  BY <1>1, LenProperties, ElementOfSeq
<1>. QED BY <1>2 DEF Entries

LEMMA TalkLinks ==
  ASSUME Inv, Links, NEW s \in Servers, NEW p \in Servers, NEW rest, NEW out,
         TalksTo(s, p, rest, out), ReplaysTo(s, p)
  PROVE  Links'
<1>. SUFFICES ASSUME NEW a \in Servers, NEW b \in Servers
              PROVE  /\ b \in links'[a] => conn'[a][b] # 0
                     /\ conn'[a][b] = 0 => wire'[b][a] = <<>>
                     /\ HelloAt(b, a)' /\ CursorAt(a, b)'
  BY DEF Links
<1>1. /\ b \in links[a] => conn[a][b] # 0
      /\ conn[a][b] = 0 => wire[b][a] = <<>>
      /\ HelloAt(b, a) /\ CursorAt(a, b)
  BY DEF Links
<1>2. /\ conn' = conn /\ acked' = acked /\ dialed' = dialed
      /\ links[a] \subseteq links'[a] /\ links[b] \subseteq links'[b]
  BY DEF TalksTo, GrowsLinks
<1>3. b \in links'[a] => conn'[a][b] # 0
  BY <1>1 DEF TalksTo, GrowsLinks
<1>4. \/ wire'[b][a] = wire[b][a]
      \/ b = p /\ a = s /\ wire[p][s] # <<>> /\ wire'[p][s] = Tail(wire[p][s]) /\ p \in links'[s]
      \/ b = s /\ Readable(s, a) /\ wire'[b][a] = wire[s][a] \o out[a]
  BY ZenonT(60) DEF TalksTo, Written
<1>5. wire[b][a] \in Seq(WireMsgs) /\ out[a] \in Seq(WireMsgs)
  BY DEF Inv, WireOK, TalksTo
<1>6. conn'[a][b] = 0 => wire'[b][a] = <<>>
  BY <1>1, <1>2, <1>4 DEF Readable
<1>7. HelloAt(b, a)'
  <2>. SUFFICES ASSUME b \notin links'[a]
                PROVE  IF wire'[b][a] = <<>>
                       THEN Readable(b, a) => a \notin links'[b] /\ a \notin dialed[b]
                       ELSE wire'[b][a][1].type = "SERVER"
    BY <1>2 DEF HelloAt, Readable
  <2>1. IF wire[b][a] = <<>> THEN Readable(b, a) => a \notin links[b] /\ a \notin dialed[b]
                             ELSE wire[b][a][1].type = "SERVER"
    BY <1>1, <1>2 DEF HelloAt
  <2>2. CASE b = s /\ Readable(s, a)
    <3>1. wire'[b][a] = wire[s][a] \o out[a]
      BY <2>2 DEF TalksTo, Written
    <3>2. CASE wire[s][a] # <<>>
      <4>1. wire[s][a] \in Seq(WireMsgs)
        BY <1>5, <2>2
      <4>2. wire[s][a] \o out[a] # <<>> /\ (wire[s][a] \o out[a])[1] = wire[s][a][1]
        BY <1>5, <3>2, <4>1, FirstConcat
      <4>. QED BY <2>1, <2>2, <3>1, <3>2, <4>2
    <3>3. CASE wire[s][a] = <<>>
      <4>1. wire'[b][a] = out[a] /\ a \notin links[s] /\ a \notin dialed[s]
        BY <1>5, <2>1, <2>2, <3>1, <3>3, FirstConcat
      <4>2. CASE out[a] # <<>>
        <5>1. out[a][1].type = "SERVER"
          BY <4>1, <4>2 DEF TalksTo
        <5>. QED BY <4>1, <4>2, <5>1
      <4>3. CASE out[a] = <<>>
        <5>1. a \notin links'[s]
          <6>1. a = p \/ a \notin links'[s]
            BY <4>1 DEF TalksTo, GrowsLinks
          <6>2. a = p => a \notin links'[s]
            BY <4>1, <4>3 DEF TalksTo
          <6>. QED BY <6>1, <6>2
        <5>. QED BY <2>2, <4>1, <4>3, <5>1
      <4>. QED BY <4>2, <4>3
    <3>. QED BY <3>2, <3>3
  <2>3. CASE ~(b = s /\ Readable(s, a))
    <3>1. wire'[b][a] = wire[b][a]
      BY <1>4, <2>3
    <3>2. b # s => links'[b] = links[b]
      BY DEF TalksTo, GrowsLinks
    <3>. QED BY <2>1, <2>3, <3>1, <3>2
  <2>. QED BY <2>2, <2>3
<1>8. CursorAt(a, b)'
  BY <1>1, <1>2 DEF CursorAt, ReplaysTo
<1>. QED BY <1>3, <1>6, <1>7, <1>8

LEMMA TalkFlies ==
  ASSUME Inv, NEW s \in Servers, NEW p \in Servers, NEW rest, NEW out, TalksTo(s, p, rest, out),
         NEW a \in Servers, NEW b \in Servers, NEW m, Holds(wire'[a][b], m)
  PROVE  Holds(wire[a][b], m) \/ (a = s /\ Readable(s, b) /\ Holds(out[b], m))
<1>1. wire[a][b] \in Seq(WireMsgs) /\ out[b] \in Seq(WireMsgs)
  BY DEF Inv, WireOK, TalksTo
<1>2. \/ wire'[a][b] = wire[a][b]
      \/ a = p /\ b = s /\ wire[a][b] # <<>> /\ wire'[a][b] = Tail(wire[a][b])
      \/ a = s /\ Readable(s, b) /\ wire'[a][b] = wire[a][b] \o out[b]
  BY DEF TalksTo, Written
<1>3. CASE wire[a][b] # <<>> /\ wire'[a][b] = Tail(wire[a][b])
  <2>1. Holds(Tail(wire[a][b]), m)
    BY <1>3
  <2>. QED BY <1>1, <1>3, <2>1, HoldsTail
<1>4. CASE a = s /\ Readable(s, b) /\ wire'[a][b] = wire[a][b] \o out[b]
  <2>1. Holds(wire[a][b] \o out[b], m)
    BY <1>4
  <2>. QED BY <1>1, <1>4, <2>1, HoldsConcat
<1>. QED BY <1>2, <1>3, <1>4

\* A message that s has written, or p has got, before stays over.
LEMMA TalkOver ==
  ASSUME Inv, NEW s \in Servers, NEW p \in Servers, NEW rest, NEW out, TalksTo(s, p, rest, out),
         LogsOne(s), NEW a \in Servers, NEW b \in Servers, NEW c, NEW m \in MsgIds,
         m[1] = a => m[2] <= sent[a], m[1] = a, Over(a, b, m, c)
  PROVE  Over(a, b, m, c)'
<1>. SUFFICES ASSUME NEW i \in DOMAIN log'[a], log'[a][i].origin = NoOrigin, log'[a][i].msg = m
              PROVE  log'[a][i].seq <= acked[a][b] \/ (b \in links'[a] /\ conn[a][b] = c)
  BY DEF Over, TalksTo
<1>1. PICK k \in DOMAIN log[a] : log'[a][i] = log[a][k]
  <2>1. CASE a # s
    BY <2>1 DEF LogsOne
  <2>2. CASE a = s
    <3>1. sent[a] \in Nat /\ m[2] \in Nat
      BY MsgIdParts DEF Inv, CountsOK
    <3>2. ~(m[2] > sent[a])
      BY <3>1
    <3>. QED BY <2>2, <3>2 DEF LogsOne
  <2>. QED BY <2>1, <2>2
<1>2. log[a][k].seq <= acked[a][b] \/ (b \in links[a] /\ conn[a][b] = c)
  BY <1>1 DEF Over
<1>. QED BY <1>1, <1>2 DEF TalksTo, GrowsLinks

\* What is logged keeps its numbers in order.
LEMMA LogNumbers ==
  ASSUME Inv, Numbers, NEW s \in Servers, LogsOne(s), NEW a \in Servers
  PROVE  /\ sent[a] \in Nat /\ sent'[a] \in Nat /\ sent'[a] >= sent[a]
         /\ \A i \in DOMAIN log'[a] : /\ log'[a][i].seq <= seq'[a]
                                     /\ \A n \in Nat : log'[a][i].msg = <<a, n>> => n <= sent'[a]
<1>0. sent[a] \in Nat /\ sent'[a] \in Nat /\ sent'[a] >= sent[a] /\ seq[a] \in Nat /\ seq'[a] \in Nat
      /\ seq'[a] >= seq[a]
  BY DEF Inv, CountsOK, LogsOne
<1>1. ASSUME NEW i \in DOMAIN log'[a] PROVE log'[a][i].seq <= seq'[a]
  <2>1. ASSUME NEW k \in DOMAIN log[a], log'[a][i] = log[a][k]
        PROVE  log'[a][i].seq <= seq'[a]
    <3>1. log[a][k].seq \in Nat
      BY LogParts
    <3>2. log[a][k].seq <= seq[a]
      BY DEF Numbers
    <3>. QED BY <1>0, <2>1, <3>1, <3>2
  <2>. QED BY <2>1 DEF LogsOne
<1>2. ASSUME NEW i \in DOMAIN log'[a], NEW n \in Nat, log'[a][i].msg = <<a, n>>
      PROVE  n <= sent'[a]
  <2>1. ASSUME NEW k \in DOMAIN log[a], log'[a][i] = log[a][k] PROVE n <= sent'[a]
    <3>1. n <= sent[a]
      BY <1>2, <2>1 DEF Numbers
    <3>. QED BY <1>0, <3>1
  <2>. QED BY <1>2, <2>1 DEF LogsOne
<1>. QED BY <1>0, <1>1, <1>2

LEMMA TalkNumbers ==
  ASSUME Inv, Numbers, NEW s \in Servers, NEW p \in Servers, NEW rest, NEW out,
         TalksTo(s, p, rest, out), MessagesTo(s, out), LogsOne(s),
         GetsFrom(s, p)
  PROVE  Numbers'
<1>. SUFFICES ASSUME NEW a \in Servers
              PROVE  /\ \A i \in DOMAIN log'[a] :
                          /\ log'[a][i].seq <= seq'[a]
                          /\ \A n \in Nat : log'[a][i].msg = <<a, n>> => n <= sent'[a]
                     /\ \A b \in Servers : \A n \in Nat : Holds(wire'[a][b], <<a, n>>) => n <= sent'[a]
                     /\ \A b \in Servers : \A i \in DOMAIN got'[b] : \A n \in Nat :
                          got'[b][i].msg = <<a, n>> => n <= sent'[a]
  BY DEF Numbers
<1>1. /\ sent[a] \in Nat /\ sent'[a] \in Nat /\ sent'[a] >= sent[a]
      /\ \A i \in DOMAIN log'[a] : /\ log'[a][i].seq <= seq'[a]
                                  /\ \A n \in Nat : log'[a][i].msg = <<a, n>> => n <= sent'[a]
  BY LogNumbers
<1>2. ASSUME NEW b \in Servers, NEW n \in Nat, Holds(wire'[a][b], <<a, n>>)
      PROVE  n <= sent'[a]
  <2>1. CASE Holds(wire[a][b], <<a, n>>)
    <3>1. n <= sent[a]
      BY <2>1 DEF Numbers
    <3>. QED BY <1>1, <3>1
  <2>2. CASE a = s /\ Holds(out[b], <<a, n>>)
    <3>1. out[b] \in Seq(WireMsgs)
      BY DEF TalksTo
    <3>2. PICK i \in DOMAIN out[b] : out[b][i].type = "SMSG" /\ out[b][i].msg = <<a, n>>
      BY <2>2 DEF Holds
    <3>3. out[b][i] \in WireMsgs
      BY <3>1, LenProperties, ElementOfSeq
    <3>4. <<a, n>> \in MsgIds
      BY <3>2, <3>3 DEF WireMsgs
    <3>. QED BY <2>2, <3>4 DEF MessagesTo
  <2>. QED BY <1>2, <2>1, <2>2, TalkFlies
<1>3. ASSUME NEW b \in Servers, NEW i \in DOMAIN got'[b], NEW n \in Nat, got'[b][i].msg = <<a, n>>
      PROVE  n <= sent'[a]
  <2>1. n <= sent[a]
    <3>1. CASE \E k \in DOMAIN got[b] : got'[b][i] = got[b][k]
      BY <1>3, <3>1 DEF Numbers
    <3>2. CASE got'[b][i].msg[1] = p /\ Holds(wire[p][s], got'[b][i].msg)
      BY <1>3, <3>2 DEF Numbers
    <3>. QED BY <3>1, <3>2 DEF GetsFrom
  <2>. QED BY <1>1, <2>1
<1>. QED BY <1>1, <1>2, <1>3

LEMMA GotParts ==
  ASSUME Inv, NEW q \in Servers, NEW i \in DOMAIN got[q]
  PROVE  /\ got[q][i].msg \in MsgIds /\ got[q][i].msg[1] \in Servers
         /\ got[q][i].msg[2] \in Nat /\ got[q][i].conn \in Nat
<1>1. got[q] \in Seq(Direct)
  BY DEF Inv, GotOK
<1>2. got[q][i] \in Direct
  BY <1>1, LenProperties, ElementOfSeq
<1>. QED BY <1>2, MsgIdParts DEF Direct, Delivery

LEMMA SentBefore ==
  ASSUME Numbers, NEW m \in MsgIds, NEW a \in Servers, m[1] = a, NEW b \in Servers
  PROVE  /\ Holds(wire[a][b], m) => m[2] <= sent[a]
         /\ \A i \in DOMAIN got[b] : got[b][i].msg = m => m[2] <= sent[a]
<1>1. m = <<a, m[2]>> /\ m[2] \in Nat
  BY MsgIdParts
<1>. QED BY <1>1 DEF Numbers

LEMMA WireParts ==
  ASSUME Inv, NEW a \in Servers, NEW b \in Servers, NEW m, Holds(wire[a][b], m)
  PROVE  m \in MsgIds /\ m[1] = a
<1>1. wire[a][b] \in Seq(WireMsgs) /\ wire[a][b] \in Seq(WireOf(a))
  BY DEF Inv, WireOK
<1>2. PICK i \in DOMAIN wire[a][b] : wire[a][b][i].type = "SMSG" /\ wire[a][b][i].msg = m
  BY DEF Holds
<1>3. wire[a][b][i] \in WireMsgs /\ wire[a][b][i] \in WireOf(a)
  BY <1>1, LenProperties, ElementOfSeq
<1>. QED BY <1>2, <1>3 DEF WireMsgs, WireOf

LEMMA TalkFlights ==
  ASSUME Inv, Numbers, Flights, NEW s \in Servers, NEW p \in Servers, NEW rest, NEW out,
         TalksTo(s, p, rest, out), MessagesTo(s, out), LogsOne(s)
  PROVE  Flights'
<1>. SUFFICES ASSUME NEW a \in Servers, NEW b \in Servers, NEW m \in MsgIds,
                     Holds(wire'[a][b], m)
              PROVE  Over(a, b, m, conn[b][a])'
  BY DEF Flights
<1>1. CASE Holds(wire[a][b], m)
  <2>1. m[1] = a /\ m[2] <= sent[a] /\ Over(a, b, m, conn[b][a])
    BY <1>1, WireParts, SentBefore DEF Flights
  <2>. DEFINE c == conn[b][a]
  <2>2. Over(a, b, m, c)
    BY <2>1
  <2>3. c' = c
    BY DEF TalksTo
  <2>. HIDE DEF c
  <2>4. Over(a, b, m, c)'
    BY <2>1, <2>2, <2>3, TalkOver DEF Over
  <2>. QED BY <2>3, <2>4 DEF c
<1>2. CASE a = s /\ Readable(s, b) /\ Holds(out[b], m)
  <2>1. b \in links[s] /\ links[s] \subseteq links'[s] /\ conn' = conn
    BY <1>2 DEF MessagesTo, TalksTo, GrowsLinks
  <2>2. conn[s][b] = conn[b][s]
    BY <1>2 DEF Readable
  <2>. QED BY <1>2, <2>1, <2>2 DEF Over
<1>. QED BY <1>1, <1>2, TalkFlies

\* What was delivered before the step is still delivered once.
LEMMA TalkKeepsOnce ==
  ASSUME Inv, Numbers, NEW s \in Servers, NEW p \in Servers, NEW rest, NEW out,
         TalksTo(s, p, rest, out), MessagesTo(s, out), LogsOne(s),
         NEW q \in Servers, NEW i \in DOMAIN got[q], DeliveredOnce(q, i),
         NEW a \in Servers, NEW m \in MsgIds, NEW c,
         m = got[q][i].msg, a = m[1], c = got[q][i].conn
  PROVE  Over(a, q, m, c)' /\ (Holds(wire'[a][q], m) => c = conn[q][a])
<1>2. m[2] <= sent[a] /\ m[2] \in Nat /\ sent[a] \in Nat
  BY SentBefore, MsgIdParts DEF Inv, CountsOK
<1>3. Over(a, q, m, c) /\ (Holds(wire[a][q], m) => c = conn[q][a])
  BY DEF DeliveredOnce
<1>4. Over(a, q, m, c)'
  BY <1>2, <1>3, TalkOver
<1>5. ASSUME a = s, Readable(s, q), Holds(out[q], m) PROVE c = conn[q][a]
  <2>1. PICK j \in DOMAIN log[s] : log[s][j].origin = NoOrigin /\ log[s][j].msg = m
                                   /\ log[s][j].seq > acked[s][q]
    BY <1>2, <1>5 DEF MessagesTo
  <2>2. ~(log[s][j].seq <= acked[s][q])
    <3>1. acked[s][q] \in Nat /\ log[s][j].seq \in Nat
      BY LogParts DEF Inv, TablesOK
    <3>. QED BY <2>1, <3>1
  <2>3. conn[s][q] = c
    BY <1>3, <1>5, <2>1, <2>2 DEF Over
  <2>. QED BY <1>5, <2>3 DEF Readable
<1>6. Holds(wire'[a][q], m) => c = conn[q][a]
  BY <1>3, <1>5, TalkFlies
<1>. QED BY <1>4, <1>6

\* A step that delivers nothing.
LEMMA TalkOnce ==
  ASSUME Inv, Once, NEW s \in Servers, NEW p \in Servers, NEW rest, NEW out,
         TalksTo(s, p, rest, out), MessagesTo(s, out), LogsOne(s), ReplaysTo(s, p), got' = got
  PROVE  Once'
<1>1. Links'
  BY TalkLinks DEF Once
<1>2. Numbers'
  <2>1. GetsFrom(s, p)
    BY DEF GetsFrom
  <2>. QED BY <2>1, TalkNumbers DEF Once
<1>3. Flights'
  BY TalkFlights DEF Once
<1>4. ASSUME NEW q \in Servers, NEW j \in DOMAIN got'[q] PROVE DeliveredOnce(q, j)'
  <2>1. conn' = conn
    BY DEF TalksTo
  <2>2. DeliveredOnce(q, j) /\ Numbers
    BY DEF Once
  <2>3. PICK a \in Servers, m \in MsgIds, c \in Nat :
          m = got[q][j].msg /\ a = m[1] /\ c = got[q][j].conn
    BY GotParts
  <2>4. Over(a, q, m, c)' /\ (Holds(wire'[a][q], m) => c = conn[q][a])
    BY <2>2, <2>3, TalkKeepsOnce
  <2>. QED BY <2>1, <2>3, <2>4 DEF DeliveredOnce
<1>5. OneConnection'
  BY DEF Once, OneConnection
<1>. QED BY <1>1, <1>2, <1>3, <1>4, <1>5 DEF Once

\* s delivers the message that it reads from p.
LEMMA DeliverOnce ==
  ASSUME Inv, Once, NEW s \in Servers, NEW p \in Servers, NEW rest, NEW out,
         TalksTo(s, p, rest, out), MessagesTo(s, out), LogsOne(s), ReplaysTo(s, p),
         NEW d \in Direct, d.from = p, d.conn = conn[s][p], Holds(wire[p][s], d.msg),
         got' = [got EXCEPT ![s] = Append(got[s], d)]
  PROVE  Once'
<1>1. got[s] \in Seq(Direct) /\ Len(got[s]) \in Nat /\ DOMAIN got[s] = 1 .. Len(got[s])
  BY LenProperties DEF Inv, GotOK
<1>2. /\ DOMAIN got'[s] = 1 .. Len(got[s]) + 1 /\ got'[s][Len(got[s]) + 1] = d
      /\ \A i \in DOMAIN got[s] : got'[s][i] = got[s][i]
      /\ \A q \in Servers : q # s => got'[q] = got[q]
  BY <1>1, AppendProperties DEF Inv, GotOK
<1>3. d.msg \in MsgIds /\ d.msg[1] = p
  BY DEF Direct, Delivery
<1>4. \A q \in Servers : \A i \in DOMAIN got'[q] :
        \/ i \in DOMAIN got[q] /\ got'[q][i] = got[q][i]
        \/ q = s /\ got'[q][i] = d
  BY <1>1, <1>2
<1>5. Links'
  BY TalkLinks DEF Once
<1>6. Numbers'
  <2>1. GetsFrom(s, p)
    BY <1>3, <1>4 DEF GetsFrom
  <2>2. Numbers
    BY DEF Once
  <2>. QED BY <2>1, <2>2, TalkNumbers
<1>7. Flights'
  BY TalkFlights DEF Once
<1>8. conn' = conn
  BY DEF TalksTo
<1>9. ASSUME NEW q \in Servers, NEW j \in DOMAIN got'[q] PROVE DeliveredOnce(q, j)'
  <2>1. CASE j \in DOMAIN got[q] /\ got'[q][j] = got[q][j]
    <3>1. DeliveredOnce(q, j) /\ Numbers
      BY <2>1 DEF Once
    <3>2. PICK a \in Servers, m \in MsgIds, c \in Nat :
            m = got[q][j].msg /\ a = m[1] /\ c = got[q][j].conn
      BY <2>1, GotParts
    <3>3. Over(a, q, m, c)' /\ (Holds(wire'[a][q], m) => c = conn[q][a])
      BY <2>1, <3>1, <3>2, TalkKeepsOnce
    <3>. QED BY <1>8, <2>1, <3>2, <3>3 DEF DeliveredOnce
  <2>2. CASE q = s /\ got'[q][j] = d
    <3>0. conn[s][p] \in Nat
      BY DEF Inv, TablesOK
    <3>1. PICK m \in MsgIds, c \in Nat : m = d.msg /\ c = conn[s][p]
      BY <1>3, <3>0
    <3>2. Over(p, s, m, c)
      BY <3>1 DEF Once, Flights
    <3>3. m[1] = p /\ m[2] <= sent[p]
      BY <1>3, <3>1, SentBefore DEF Once
    <3>4. Over(p, s, m, c)'
      BY <3>2, <3>3, TalkOver
    <3>5. got'[q][j].msg = m /\ got'[q][j].conn = c /\ c = conn'[s][p]
      BY <1>8, <2>2, <3>1
    <3>. QED BY <2>2, <3>3, <3>4, <3>5 DEF DeliveredOnce, Over
  <2>. QED BY <1>4, <2>1, <2>2
<1>10. OneConnection'
  <2>1. \A i \in DOMAIN got[s] : got[s][i].msg = d.msg => got[s][i].conn = d.conn
    BY <1>3 DEF Once, DeliveredOnce
  <2>. QED BY <1>4, <2>1 DEF Once, OneConnection
<1>. QED BY <1>5, <1>6, <1>7, <1>9, <1>10 DEF Once

\* An event that is not a message, a message of a peer, or the next message of s.
LEMMA EmitLogs ==
  ASSUME Inv, NEW s \in Servers, NEW origin \in Origins, NEW m \in MsgIds \cup {NoMsg},
         NEW to \in Dests, Emit(s, origin, m, to), sent' \in [Servers -> Nat],
         \A a \in Servers : sent'[a] >= sent[a],
         \/ m = NoMsg
         \/ m[1] # s /\ origin # NoOrigin
         \/ m = <<s, sent'[s]>> /\ sent'[s] > sent[s]
  PROVE  LogsOne(s)
<1>. DEFINE e == [seq |-> seq[s] + 1, origin |-> origin, msg |-> m, to |-> to]
<1>1. /\ log' = [log EXCEPT ![s] = Push(log[s], e)] /\ seq' = [seq EXCEPT ![s] = seq[s] + 1]
      /\ seq \in [Servers -> Nat \ {0}] /\ log \in [Servers -> Seq(Entries)]
  BY DEF Emit, Inv, CountsOK, LogOK
<1>2. e \in Entries
  BY <1>1 DEF Entries
<1>3. /\ e.seq = seq[s] + 1 /\ e.origin = origin /\ e.msg = m
  OBVIOUS
<1>. HIDE DEF e
<1>4. /\ \A a \in Servers : a # s => log'[a] = log[a] /\ seq'[a] = seq[a]
      /\ seq'[s] = seq[s] + 1 /\ seq[s] \in Nat /\ log'[s] = Push(log[s], e)
  BY <1>1
<1>5. e.seq <= seq'[s]
  BY <1>3, <1>4
<1>6. e.origin = NoOrigin /\ e.msg \in MsgIds => e.msg[2] > sent[s]
  BY <1>3, MsgIdParts
<1>7. ASSUME NEW n \in Nat, e.msg = <<s, n>> PROVE n <= sent'[s]
  <2>1. m # NoMsg /\ m[1] = s
    BY <1>3, <1>7 DEF NoMsg
  <2>2. m = <<s, sent'[s]>>
    BY <2>1
  <2>3. m[2] = n
    BY <1>3, <1>7
  <2>4. m[2] = sent'[s]
    BY <2>2
  <2>. QED BY <2>3, <2>4
<1>8. \A i \in DOMAIN log'[s] : log'[s][i] = e \/ \E k \in DOMAIN log[s] : log'[s][i] = log[s][k]
  BY <1>1, <1>2, <1>4, PushHolds
<1>9. seq'[s] \in Nat /\ seq'[s] >= seq[s]
  BY <1>4
<1>. QED BY <1>4, <1>5, <1>6, <1>7, <1>8, <1>9 DEF LogsOne

LEMMA QuietLogs ==
  ASSUME Inv, NEW s \in Servers, UNCHANGED <<seq, log, sent>> PROVE LogsOne(s)
BY DEF LogsOne, Inv, CountsOK

LEMMA SilentWritten ==
  ASSUME Inv, NEW s \in Servers, NEW out, NEW b \in Servers, out[b] = <<>>
  PROVE  Written(s, out)[b] = wire[s][b]
<1>1. wire[s][b] \in Seq(WireMsgs)
  BY DEF Inv, WireOK
<1>2. wire[s][b] \o <<>> = wire[s][b]
  BY <1>1, ConcatEmptySeq
<1>. QED BY <1>2 DEF Written

\* What does not carry a message.
LEMMA MarkersSayNothing ==
  ASSUME NEW m
  PROVE  /\ ~Holds(<<SERVER>>, m) /\ ~Holds(<<SEVENT>>, m)
         /\ \A n : ~Holds(<<BACKFILL(n)>>, m) /\ ~Holds(<<BACKFILLEND(n)>>, m)
BY HoldsOne DEF SERVER, SEVENT, BACKFILL, BACKFILLEND

\* A line other than SERVER is read on a registered link.
LEMMA ReadsLinked ==
  ASSUME Inv, Links, NEW s \in Servers, NEW p \in Servers, NEW type, type # "SERVER",
         Reads(s, p, type)
  PROVE  p \in links[s]
<1>1. HelloAt(p, s) /\ wire[p][s] # <<>> /\ Head(wire[p][s]).type = type
  BY DEF Links, Reads, Incoming
<1>2. Head(wire[p][s]) = wire[p][s][1]
  OBVIOUS
<1>. QED BY <1>1, <1>2 DEF HelloAt

LEMMA SendOnce ==
  ASSUME Inv, Once, NEW s \in Servers, NEW to \in Dests, NEW out,
         \A b \in Servers : /\ out[b] \in Seq(WireMsgs)
                            /\ out[b] # <<>> => b \in links[s]
                            /\ \A m : Holds(out[b], m) => m = <<s, sent[s] + 1>>,
         Send(s, to, out)
  PROVE  Once'
<1>. DEFINE m == <<s, sent[s] + 1>>
<1>1. m \in MsgIds /\ m[1] = s /\ m[2] = sent[s] + 1
  BY FreshMessage DEF Inv
<1>2. /\ sent' = [sent EXCEPT ![s] = sent[s] + 1] /\ sent \in [Servers -> Nat]
      /\ wire' = [wire EXCEPT ![s] = Written(s, out)]
      /\ UNCHANGED <<acked, links, replay, conn, dialed, got>>
  BY DEF Send, Inv, CountsOK
<1>3. /\ sent' \in [Servers -> Nat] /\ sent'[s] = sent[s] + 1 /\ sent'[s] > sent[s]
      /\ \A a \in Servers : sent'[a] >= sent[a]
  BY <1>2
<1>4. LogsOne(s)
  <2>1. Emit(s, NoOrigin, m, to) /\ m = <<s, sent'[s]>> /\ NoOrigin \in Origins
    BY <1>3 DEF Send, Origins
  <2>. HIDE DEF m
  <2>. QED BY <1>1, <1>3, <2>1, EmitLogs
<1>5. TalksTo(s, s, wire[s][s], out)
  <2>1. \A a, b \in Servers : wire'[a][b] = IF a = s THEN Written(s, out)[b] ELSE wire[a][b]
    BY <1>2 DEF Inv, WireOK
  <2>. QED BY <1>2, <2>1 DEF TalksTo, GrowsLinks
<1>6. MessagesTo(s, out)
  <2>. SUFFICES ASSUME NEW b \in Servers, NEW n \in MsgIds, Holds(out[b], n)
                PROVE  b \in links[s] /\ n[1] = s /\ n[2] <= sent'[s] /\ n[2] > sent[s]
    BY DEF MessagesTo
  <2>1. n = m /\ out[b] # <<>>
    BY HoldsEmpty
  <2>. QED BY <1>1, <1>2, <1>3, <2>1
<1>7. ReplaysTo(s, s) /\ got' = got
  BY <1>2 DEF ReplaysTo
<1>. QED BY <1>4, <1>5, <1>6, <1>7, TalkOnce

LEMMA SendToChannelOnce ==
  ASSUME Inv, Once, NEW s \in Servers, SendToChannel(s) PROVE Once'
<1>. DEFINE w   == SMSG(<<s, sent[s] + 1>>, Channel)
            out == RelayTo(RelayTargets(s, NoOrigin), w)
<1>1. w \in WireMsgs /\ w.type = "SMSG" /\ w.msg = <<s, sent[s] + 1>>
  BY FreshMessage, MessageOK DEF Inv, Dests, SMSG
<1>2. Send(s, Channel, out)
  BY DEF SendToChannel
<1>3. ASSUME NEW b \in Servers
      PROVE  /\ out[b] \in Seq(WireMsgs) /\ (out[b] # <<>> => b \in links[s])
             /\ \A m : Holds(out[b], m) => m = <<s, sent[s] + 1>>
  <2>. HIDE DEF w
  <2>. QED BY <1>1, EmptyOK, OneOK, HoldsEmpty, HoldsOne DEF RelayTo, RelayTargets
<1>. HIDE DEF out
<1>. QED BY <1>2, <1>3, SendOnce DEF Dests

LEMMA SendDirectOnce ==
  ASSUME Inv, Once, NEW s \in Servers, NEW p \in Servers, SendDirect(s, p) PROVE Once'
<1>. DEFINE w   == SMSG(<<s, sent[s] + 1>>, p)
            t   == RelayTo({p}, w)
            u   == RelayTo(RelayTargets(s, NoOrigin), w)
            out == [q \in Servers |-> t[q] \o u[q]]
<1>1. w \in WireMsgs /\ w.type = "SMSG" /\ w.msg = <<s, sent[s] + 1>>
  BY FreshMessage, MessageOK DEF Inv, Dests, SMSG
<1>2. Send(s, p, out) /\ p \in links[s]
  BY DEF SendDirect
<1>3. ASSUME NEW b \in Servers
      PROVE  /\ out[b] \in Seq(WireMsgs) /\ (out[b] # <<>> => b \in links[s])
             /\ \A m : Holds(out[b], m) => m = <<s, sent[s] + 1>>
  <2>1. t[b] \in {<<>>, <<w>>} /\ u[b] \in {<<>>, <<w>>}
        /\ (t[b] # <<>> => b \in links[s]) /\ (u[b] # <<>> => b \in links[s])
    BY <1>2 DEF RelayTo, RelayTargets
  <2>. HIDE DEF t, u, w
  <2>2. t[b] \in Seq(WireMsgs) /\ u[b] \in Seq(WireMsgs)
    BY <1>1, <2>1, EmptyOK, OneOK
  <2>3. out[b] \in Seq(WireMsgs)
    BY <2>2, ConcatOK
  <2>4. out[b] # <<>> => b \in links[s]
    BY <2>1, <2>2, FirstConcat
  <2>5. ASSUME NEW m, Holds(t[b] \o u[b], m) PROVE m = <<s, sent[s] + 1>>
    <3>1. Holds(t[b], m) \/ Holds(u[b], m)
      BY <2>2, <2>5, HoldsConcat
    <3>. QED BY <1>1, <2>1, <3>1, HoldsEmpty, HoldsOne
  <2>. QED BY <2>3, <2>4, <2>5
<1>. HIDE DEF out
<1>. QED BY <1>2, <1>3, SendOnce DEF Dests

LEMMA EmitLocalOnce ==
  ASSUME Inv, Once, NEW s \in Servers, EmitLocal(s) PROVE Once'
<1>. DEFINE out == [q \in Servers |-> <<>>]
<1>1. UNCHANGED <<acked, links, replay, conn, dialed, wire, sent, got>>
  BY DEF EmitLocal
<1>2. LogsOne(s)
  <2>1. Emit(s, NoOrigin, NoMsg, Channel)
    BY DEF EmitLocal
  <2>2. \A a \in Servers : sent[a] \in Nat
    BY DEF Inv, CountsOK
  <2>3. sent' \in [Servers -> Nat] /\ \A a \in Servers : sent'[a] >= sent[a]
    BY <1>1, <2>2 DEF Inv, CountsOK
  <2>. QED BY <2>1, <2>3, EmitLogs DEF Origins, Dests
<1>3. TalksTo(s, s, wire[s][s], out)
  <2>1. \A b \in Servers : out[b] = <<>> /\ out[b] \in Seq(WireMsgs)
    BY EmptyOK
  <2>. HIDE DEF out
  <2>2. \A b \in Servers : Written(s, out)[b] = wire[s][b]
    BY <2>1, SilentWritten
  <2>. QED BY <1>1, <2>1, <2>2 DEF TalksTo, GrowsLinks
<1>4. MessagesTo(s, out)
  BY HoldsEmpty DEF MessagesTo
<1>5. ReplaysTo(s, s) /\ got' = got
  BY <1>1 DEF ReplaysTo
<1>. HIDE DEF out
<1>. QED BY <1>2, <1>3, <1>4, <1>5, TalkOnce

\* What s reads and writes when it takes a line of p.
LEMMA ReadsAndTalks ==
  ASSUME Inv, NEW s \in Servers, NEW p \in Servers, s # p, NEW type, Reads(s, p, type), NEW out,
         ReadAndWrite(s, p, out)
  PROVE  /\ wire[p][s] # <<>>
         /\ \A a, b \in Servers :
              wire'[a][b] = IF a = s THEN Written(s, out)[b]
                            ELSE IF a = p /\ b = s THEN Tail(wire[p][s]) ELSE wire[a][b]
<1>1. wire' = [wire EXCEPT ![p][s] = Tail(wire[p][s]), ![s] = Written(s, out)]
  BY DEF ReadAndWrite
<1>2. wire \in [Servers -> [Servers -> Seq(WireMsgs)]]
  BY DEF Inv, WireOK
<1>. QED BY <1>1, <1>2 DEF Reads

LEMMA RecvServerOnce ==
  ASSUME Inv, Once, NEW s \in Servers, NEW p \in Servers, s # p, RecvServer(s, p) PROVE Once'
<1>. DEFINE linked == links[s] \cup {p}
            answer == IF p \in dialed[s] THEN <<>> ELSE <<SERVER>>
            hello  == answer \o <<BACKFILL(acked[s][p])>>
            out    == [q \in Servers |-> (IF q = p THEN hello ELSE <<>>)
                                          \o RelayTo(linked, SEVENT)[q]]
<1>1. acked[s][p] \in Nat
  BY DEF Inv, TablesOK
<1>2. hello \in Seq(WireMsgs) /\ hello # <<>> /\ (\A m : ~Holds(hello, m))
      /\ (p \in dialed[s] \/ hello[1].type = "SERVER")
  <2>. DEFINE cursor == <<BACKFILL(acked[s][p])>>
  <2>1. answer \in Seq(WireMsgs) /\ cursor \in Seq(WireMsgs) /\ cursor # <<>>
    BY <1>1, MarkersOK, EmptyOK, OneOK
  <2>2. \A m : ~Holds(answer, m) /\ ~Holds(cursor, m)
    BY HoldsEmpty, MarkersSayNothing
  <2>3. p \in dialed[s] \/ (answer # <<>> /\ answer[1].type = "SERVER")
    BY DEF SERVER
  <2>4. hello = answer \o cursor
    OBVIOUS
  <2>. HIDE DEF answer, cursor, hello
  <2>5. hello \in Seq(WireMsgs)
    BY <2>1, <2>4, ConcatOK
  <2>6. \A m : ~Holds(hello, m)
    BY <2>1, <2>2, <2>4, HoldsConcat
  <2>7. hello # <<>>
    BY <2>1, <2>4, FirstConcat
  <2>8. p \in dialed[s] \/ hello[1].type = "SERVER"
    BY <2>1, <2>3, <2>4, FirstConcat
  <2>. QED BY <2>5, <2>6, <2>7, <2>8
<1>3. ASSUME NEW b \in Servers
      PROVE  /\ out[b] \in Seq(WireMsgs) /\ \A m : ~Holds(out[b], m)
             /\ out[b] # <<>> => b \in links[s] \/ b = p
             /\ b = p => out[b] # <<>> /\ (p \in dialed[s] \/ out[b][1].type = "SERVER")
  <2>. DEFINE t == IF b = p THEN hello ELSE <<>>
              u == RelayTo(linked, SEVENT)[b]
  <2>1. /\ t \in Seq(WireMsgs) /\ \A m : ~Holds(t, m)
        /\ b # p => t = <<>>
        /\ b = p => t # <<>> /\ (p \in dialed[s] \/ t[1].type = "SERVER")
    <3>. HIDE DEF hello
    <3>. QED BY <1>2, EmptyOK, HoldsEmpty
  <2>2. /\ u \in Seq(WireMsgs) /\ \A m : ~Holds(u, m)
        /\ u # <<>> => b \in links[s] \/ b = p
    BY MarkersOK, MarkersSayNothing, EmptyOK, OneOK, HoldsEmpty DEF RelayTo
  <2>3. out[b] = t \o u
    OBVIOUS
  <2>. HIDE DEF t, u, out
  <2>4. out[b] \in Seq(WireMsgs) /\ \A m : ~Holds(out[b], m)
    BY <2>1, <2>2, <2>3, ConcatOK, HoldsConcat
  <2>5. /\ t # <<>> => out[b] # <<>> /\ out[b][1] = t[1]
        /\ t = <<>> => out[b] = u
    BY <2>1, <2>2, <2>3, FirstConcat
  <2>. QED BY <2>1, <2>2, <2>4, <2>5
<1>4. /\ Reads(s, p, "SERVER") /\ ReadAndWrite(s, p, out)
      /\ links' = [links EXCEPT ![s] = linked]
      /\ Emit(s, NoOrigin, NoMsg, Channel)
      /\ UNCHANGED <<acked, replay, conn, dialed, sent, got>>
  BY DEF RecvServer
<1>. HIDE DEF out
<1>5. LogsOne(s)
  <2>1. \A a \in Servers : sent[a] \in Nat
    BY DEF Inv, CountsOK
  <2>2. sent' \in [Servers -> Nat] /\ \A a \in Servers : sent'[a] >= sent[a]
    BY <1>4, <2>1 DEF Inv, CountsOK
  <2>. QED BY <1>4, <2>2, EmitLogs DEF Origins, Dests
<1>6. TalksTo(s, p, Tail(wire[p][s]), out)
  <2>1. /\ wire[p][s] # <<>>
        /\ \A a, b \in Servers :
             wire'[a][b] = IF a = s THEN Written(s, out)[b]
                           ELSE IF a = p /\ b = s THEN Tail(wire[p][s]) ELSE wire[a][b]
    BY <1>4, ReadsAndTalks
  <2>2. p \in links'[s] /\ GrowsLinks(s, p)
    BY <1>4 DEF GrowsLinks, Inv, TablesOK, Reads
  <2>. QED BY <1>3, <1>4, <2>1, <2>2 DEF TalksTo
<1>7. MessagesTo(s, out)
  BY <1>3 DEF MessagesTo
<1>8. ReplaysTo(s, p) /\ got' = got
  BY <1>4 DEF ReplaysTo
<1>. QED BY <1>5, <1>6, <1>7, <1>8, TalkOnce

\* s reads a line that is not SERVER, and writes nothing.
LEMMA ReadsQuietly ==
  ASSUME Inv, Links, NEW s \in Servers, NEW p \in Servers, s # p, NEW type, type # "SERVER",
         Reads(s, p, type), NEW out, \A q \in Servers : out[q] = <<>>,
         ReadAndWrite(s, p, out), UNCHANGED <<acked, links, conn, dialed>>
  PROVE  TalksTo(s, p, Tail(wire[p][s]), out) /\ MessagesTo(s, out)
<1>1. p \in links[s]
  BY ReadsLinked
<1>2. /\ wire[p][s] # <<>>
      /\ \A a, b \in Servers :
           wire'[a][b] = IF a = s THEN Written(s, out)[b]
                         ELSE IF a = p /\ b = s THEN Tail(wire[p][s]) ELSE wire[a][b]
  BY ReadsAndTalks
<1>3. TalksTo(s, p, Tail(wire[p][s]), out)
  BY <1>1, <1>2, EmptyOK DEF TalksTo, GrowsLinks
<1>. QED BY <1>3, HoldsEmpty DEF MessagesTo

LEMMA RecvEventOnce ==
  ASSUME Inv, Once, NEW s \in Servers, NEW p \in Servers, s # p, RecvEvent(s, p) PROVE Once'
<1>. DEFINE out == RelayTo(RelayTargets(s, p), SEVENT)
<1>1. /\ Reads(s, p, "SEVENT") /\ ReadAndWrite(s, p, out) /\ Emit(s, p, NoMsg, Channel)
      /\ UNCHANGED <<acked, links, replay, conn, dialed, sent, got>>
  BY DEF RecvEvent
<1>2. \A q \in Servers : out[q] = <<>>
  BY NoOriginAssumption DEF RelayTo, RelayTargets
<1>. HIDE DEF out
<1>3. LogsOne(s)
  <2>1. \A a \in Servers : sent[a] \in Nat
    BY DEF Inv, CountsOK
  <2>2. sent' \in [Servers -> Nat] /\ \A a \in Servers : sent'[a] >= sent[a]
    BY <1>1, <2>1 DEF Inv, CountsOK
  <2>. QED BY <1>1, <2>2, EmitLogs DEF Origins, Dests
<1>4. TalksTo(s, p, Tail(wire[p][s]), out) /\ MessagesTo(s, out)
  BY <1>1, <1>2, ReadsQuietly DEF Once
<1>5. ReplaysTo(s, p) /\ got' = got
  BY <1>1 DEF ReplaysTo
<1>. QED BY <1>3, <1>4, <1>5, TalkOnce

LEMMA RecvMessageOnce ==
  ASSUME Inv, Once, NEW s \in Servers, NEW p \in Servers, s # p, RecvMessage(s, p) PROVE Once'
<1>. DEFINE w == Incoming(s, p)
<1>1. /\ Reads(s, p, "SMSG")
      /\ UNCHANGED <<acked, links, replay, conn, dialed, sent>>
  BY DEF RecvMessage
<1>2. w \in WireMsgs /\ w.type = "SMSG" /\ w \in WireOf(p)
  BY <1>1, IncomingOK DEF Inv
<1>3. w.msg \in MsgIds /\ w.to \in Dests /\ w.msg[1] = p
  BY <1>2 DEF WireMsgs, WireOf
<1>4. Holds(wire[p][s], w.msg)
  <2>1. wire[p][s] \in Seq(WireMsgs) /\ wire[p][s] # <<>> /\ w = Head(wire[p][s])
    BY <1>1 DEF Reads, Incoming, Inv, WireOK
  <2>. HIDE DEF w
  <2>. QED BY <1>2, <2>1, HoldsHead
<1>5. ReplaysTo(s, p)
  BY <1>1 DEF ReplaysTo
<1>6. CASE w.to \in {Channel, s}
  <2>. DEFINE out == RelayTo(RelayTargets(s, p), w)
              d   == [msg |-> w.msg, to |-> w.to, from |-> p, conn |-> conn[s][p]]
  <2>1. /\ ReadAndWrite(s, p, out) /\ Emit(s, p, w.msg, w.to)
        /\ got' = [got EXCEPT ![s] = Append(got[s], d)]
    BY <1>6 DEF RecvMessage
  <2>2. d \in Direct /\ d.from = p /\ d.conn = conn[s][p] /\ d.msg = w.msg
    BY <1>3 DEF Direct, Delivery, Inv, TablesOK
  <2>3. \A q \in Servers : out[q] = <<>>
    BY NoOriginAssumption DEF RelayTo, RelayTargets
  <2>. HIDE DEF out, d, w
  <2>4. LogsOne(s)
    <3>1. \A a \in Servers : sent[a] \in Nat
      BY DEF Inv, CountsOK
    <3>2. sent' \in [Servers -> Nat] /\ \A a \in Servers : sent'[a] >= sent[a]
      BY <1>1, <3>1 DEF Inv, CountsOK
    <3>. QED BY <1>3, <2>1, <3>2, EmitLogs, NoOriginAssumption DEF Origins
  <2>5. TalksTo(s, p, Tail(wire[p][s]), out) /\ MessagesTo(s, out)
    BY <1>1, <2>1, <2>3, ReadsQuietly DEF Once
  <2>. QED BY <1>4, <1>5, <2>1, <2>2, <2>4, <2>5, DeliverOnce
<1>7. CASE w.to \notin {Channel, s}
  <2>. DEFINE out == RelayTo({}, w)
  <2>1. ReadAndWrite(s, p, out) /\ UNCHANGED <<got, seq, log>>
    BY <1>7 DEF RecvMessage
  <2>2. \A q \in Servers : out[q] = <<>>
    BY DEF RelayTo
  <2>. HIDE DEF out, w
  <2>3. LogsOne(s)
    BY <1>1, <2>1, QuietLogs
  <2>4. TalksTo(s, p, Tail(wire[p][s]), out) /\ MessagesTo(s, out)
    BY <1>1, <2>1, <2>2, ReadsQuietly DEF Once
  <2>. QED BY <1>5, <2>1, <2>3, <2>4, TalkOnce
<1>. QED BY <1>6, <1>7

\* A replay behind what was recorded for the peer.
LEMMA ReplayFromOnce ==
  ASSUME Inv, Once, NEW s \in Servers, NEW p \in Servers, s # p, p \in links[s],
         NEW i \in Nat \ {0}, NEW after \in Nat, after >= acked[s][p], NEW rest,
         rest = wire[p][s] \/ (wire[p][s] # <<>> /\ rest = Tail(wire[p][s])),
         ReplayFrom(s, p, i, after, rest),
         UNCHANGED <<seq, log, acked, links, conn, dialed, sent, got>>
  PROVE  Once'
<1>. DEFINE todo == {j \in i .. Len(log[s]) : ShouldReplay(log[s][j], after)}
            Reply(w) == wire' = [wire EXCEPT ![p][s] = rest, ![s] = Written(s, RelayTo({p}, w))]
            Goes(r)  == replay' = [replay EXCEPT ![s][p] = r] /\ r.after = after
<1>1. acked[s][p] \in Nat /\ Len(log[s]) \in Nat /\ DOMAIN log[s] = 1 .. Len(log[s]) /\ seq[s] \in Nat
  BY LenProperties DEF Inv, TablesOK, LogOK, CountsOK
<1>2. LogsOne(s)
  BY QuietLogs
<1>3. ASSUME NEW w \in WireMsgs, Reply(w)
      PROVE  TalksTo(s, p, rest, RelayTo({p}, w))
  <2>. DEFINE out == RelayTo({p}, w)
  <2>1. \A b \in Servers : out[b] \in Seq(WireMsgs) /\ (out[b] # <<>> => b = p)
    BY EmptyOK, OneOK DEF RelayTo
  <2>2. wire' = [wire EXCEPT ![p][s] = rest, ![s] = Written(s, out)]
    BY <1>3
  <2>. HIDE DEF out
  <2>3. \A a, b \in Servers :
          wire'[a][b] = IF a = s THEN Written(s, out)[b]
                        ELSE IF a = p /\ b = s THEN rest ELSE wire[a][b]
    BY <2>2 DEF Inv, WireOK
  <2>4. TalksTo(s, p, rest, out)
    BY <2>1, <2>3 DEF TalksTo, GrowsLinks
  <2>. QED BY <2>4 DEF out
<1>4. ASSUME NEW r, Goes(r) PROVE ReplaysTo(s, p)
  <2>1. replay \in [Servers -> [Servers -> Replays]]
    BY DEF Inv, TablesOK
  <2>. QED BY <1>4, <2>1 DEF ReplaysTo
<1>5. CASE /\ Reply(BACKFILLEND(seq[s]))
           /\ replay' = [replay EXCEPT ![s][p] =
                            [phase |-> "done", after |-> after, next |-> 0, top |-> 0]]
  <2>. DEFINE w == BACKFILLEND(seq[s])
              r == [phase |-> "done", after |-> after, next |-> 0, top |-> 0]
  <2>1. w \in WireMsgs
    BY <1>1, MarkersOK
  <2>2. MessagesTo(s, RelayTo({p}, w))
    <3>1. \A b \in Servers : \A m \in MsgIds : ~Holds(RelayTo({p}, w)[b], m)
      BY HoldsEmpty, MarkersSayNothing DEF RelayTo
    <3>. QED BY <3>1 DEF MessagesTo
  <2>3. Goes(r) /\ Reply(w)
    BY <1>5
  <2>. HIDE DEF w, r, Goes, Reply
  <2>. QED BY <1>2, <1>3, <1>4, <2>1, <2>2, <2>3, TalkOnce
<1>6. ASSUME NEW j \in todo, Reply(SMSG(log[s][j].msg, log[s][j].to)),
             replay' = [replay EXCEPT ![s][p] =
               [phase |-> "running", after |-> after, next |-> j + 1, top |-> seq[s]]]
      PROVE  Once'
  <2>. DEFINE m == log[s][j].msg
              w == SMSG(m, log[s][j].to)
              r == [phase |-> "running", after |-> after, next |-> j + 1, top |-> seq[s]]
  <2>1. j \in DOMAIN log[s] /\ ShouldReplay(log[s][j], after)
    BY <1>1
  <2>2. log[s][j] \in Entries /\ log[s][j] \in EntriesOf(s) /\ log[s][j].seq \in Nat
    BY <2>1, LogParts
  <2>3. m \in MsgIds /\ m[1] = s /\ log[s][j].to \in Dests /\ log[s][j].origin = NoOrigin
    BY <2>1, <2>2 DEF Entries, EntriesOf, ShouldReplay
  <2>4. log[s][j].seq > acked[s][p]
    BY <1>1, <2>1, <2>2 DEF ShouldReplay
  <2>5. m[2] <= sent[s]
    <3>1. m = <<s, m[2]>> /\ m[2] \in Nat
      BY <2>3, MsgIdParts
    <3>. QED BY <2>1, <3>1 DEF Once, Numbers
  <2>6. w \in WireMsgs /\ w.msg = m
    BY <2>3, MessageOK DEF SMSG
  <2>7. MessagesTo(s, RelayTo({p}, w))
    <3>. SUFFICES ASSUME NEW b \in Servers, NEW n \in MsgIds, Holds(RelayTo({p}, w)[b], n)
                  PROVE  b = p /\ n = m
      BY <2>1, <2>3, <2>4, <2>5 DEF MessagesTo
    <3>. HIDE DEF w, m
    <3>. QED BY <2>6, HoldsEmpty, HoldsOne DEF RelayTo
  <2>8. Goes(r) /\ Reply(w)
    BY <1>6
  <2>. HIDE DEF w, r, m, Goes, Reply
  <2>. QED BY <1>2, <1>3, <1>4, <2>6, <2>7, <2>8, TalkOnce
<1>. QED BY <1>5, <1>6 DEF ReplayFrom

LEMMA RecvBackfillOnce ==
  ASSUME Inv, Once, NEW s \in Servers, NEW p \in Servers, s # p, RecvBackfill(s, p) PROVE Once'
<1>. DEFINE at    == Incoming(s, p).at
            after == Effective(s, p, at)
            rest  == Tail(wire[p][s])
            first == 1
<1>1. Reads(s, p, "BACKFILL") /\ ReplayFrom(s, p, first, after, rest)
      /\ UNCHANGED <<seq, log, acked, links, conn, dialed, sent, got>>
  BY DEF RecvBackfill
<1>2. p \in links[s] /\ wire[p][s] # <<>>
  BY <1>1, ReadsLinked DEF Once, Reads
<1>3. Incoming(s, p) \in WireMsgs /\ Incoming(s, p).type = "BACKFILL"
  BY <1>1, IncomingOK DEF Inv
<1>4. at \in Nat /\ acked[s][p] \in Nat
  BY <1>3 DEF WireMsgs, Inv, TablesOK
<1>5. after \in Nat /\ after >= acked[s][p]
  BY <1>4 DEF Effective
<1>6. first \in Nat \ {0}
  OBVIOUS
<1>. HIDE DEF at, after, first
<1>. QED BY <1>1, <1>2, <1>5, <1>6, ReplayFromOnce

LEMMA ReplayStepOnce ==
  ASSUME Inv, Once, NEW s \in Servers, NEW p \in Servers, s # p, ReplayStep(s, p) PROVE Once'
<1>. DEFINE r == replay[s][p]
<1>1. r \in Replays /\ r.phase = "running" /\ ReplayFrom(s, p, r.next, r.after, wire[p][s])
      /\ UNCHANGED <<seq, log, acked, links, conn, dialed, sent, got>>
  BY DEF ReplayStep, Inv, TablesOK
<1>2. r.next \in Nat \ {0} /\ r.after \in Nat
  BY <1>1 DEF Replays
<1>3. p \in links[s] /\ r.after >= acked[s][p]
  BY <1>1 DEF Once, Links, CursorAt
<1>. HIDE DEF r
<1>. QED BY <1>1, <1>2, <1>3, ReplayFromOnce

LEMMA RecvBackfillEndOnce ==
  ASSUME Inv, Once, NEW s \in Servers, NEW p \in Servers, s # p, RecvBackfillEnd(s, p) PROVE Once'
<1>. DEFINE out == [q \in Servers |-> <<>>]
<1>1. /\ Reads(s, p, "BACKFILLEND") /\ wire' = [wire EXCEPT ![p][s] = Tail(wire[p][s])]
      /\ UNCHANGED <<seq, log, acked, links, replay, conn, dialed, sent, got>>
  BY DEF RecvBackfillEnd
<1>2. p \in links[s] /\ wire[p][s] # <<>>
  BY <1>1, ReadsLinked DEF Once, Reads
<1>3. \A b \in Servers : out[b] = <<>> /\ out[b] \in Seq(WireMsgs)
  BY EmptyOK
<1>. HIDE DEF out
<1>4. \A b \in Servers : Written(s, out)[b] = wire[s][b]
  BY <1>3, SilentWritten
<1>5. \A a, b \in Servers :
        wire'[a][b] = IF a = s THEN Written(s, out)[b]
                      ELSE IF a = p /\ b = s THEN Tail(wire[p][s]) ELSE wire[a][b]
  BY <1>1, <1>4 DEF Inv, WireOK
<1>6. TalksTo(s, p, Tail(wire[p][s]), out)
  BY <1>1, <1>2, <1>3, <1>5 DEF TalksTo, GrowsLinks
<1>7. MessagesTo(s, out)
  BY <1>3, HoldsEmpty DEF MessagesTo
<1>8. ReplaysTo(s, p) /\ LogsOne(s) /\ got' = got
  BY <1>1, QuietLogs DEF ReplaysTo
<1>. QED BY <1>6, <1>7, <1>8, TalkOnce

-----------------------------------------------------------------------------
(* Steps at which a connection comes or goes. *)

\* Nothing new is on the wire of a connection that stays, and what was over is over.
Settles ==
  /\ got' = got
  /\ \A a, b \in Servers : \A m : Holds(wire'[a][b], m) =>
        Holds(wire[a][b], m) /\ conn'[b][a] = conn[b][a]
  /\ \A a, b \in Servers : \A m \in MsgIds : \A c \in Nat :
        m[1] = a /\ m[2] <= sent[a] /\ Over(a, b, m, c) => Over(a, b, m, c)'

LEMMA SettlesOnce ==
  ASSUME Inv, Once, Settles, Links', Numbers'
  PROVE  Once'
<1>1. Flights'
  <2>. SUFFICES ASSUME NEW a \in Servers, NEW b \in Servers, NEW m \in MsgIds,
                       Holds(wire'[a][b], m)
                PROVE  Over(a, b, m, conn[b][a])'
    BY DEF Flights
  <2>1. Holds(wire[a][b], m) /\ conn'[b][a] = conn[b][a]
    BY DEF Settles
  <2>2. m[1] = a /\ m[2] <= sent[a] /\ Over(a, b, m, conn[b][a])
    BY <2>1, WireParts, SentBefore DEF Once, Flights
  <2>3. PICK c \in Nat : c = conn[b][a]
    BY DEF Inv, TablesOK
  <2>4. Over(a, b, m, c)'
    BY <2>2, <2>3 DEF Settles
  <2>. QED BY <2>1, <2>3, <2>4 DEF Over
<1>2. ASSUME NEW q \in Servers, NEW j \in DOMAIN got'[q] PROVE DeliveredOnce(q, j)'
  <2>1. got' = got /\ j \in DOMAIN got[q] /\ DeliveredOnce(q, j) /\ Numbers
    BY <1>2 DEF Settles, Once
  <2>2. PICK a \in Servers, m \in MsgIds, c \in Nat :
          m = got[q][j].msg /\ a = m[1] /\ c = got[q][j].conn
    BY <2>1, GotParts
  <2>3. m[2] <= sent[a] /\ Over(a, q, m, c) /\ (Holds(wire[a][q], m) => c = conn[q][a])
    BY <2>1, <2>2, SentBefore DEF DeliveredOnce
  <2>4. Over(a, q, m, c)'
    BY <2>2, <2>3 DEF Settles
  <2>5. Holds(wire'[a][q], m) => c = conn'[q][a]
    BY <2>3 DEF Settles
  <2>. QED BY <2>1, <2>2, <2>4, <2>5 DEF DeliveredOnce
<1>3. OneConnection'
  BY DEF Once, OneConnection, Settles
<1>. QED BY <1>1, <1>2, <1>3 DEF Once

LEMMA SettlesNumbers ==
  ASSUME Inv, Numbers, NEW s \in Servers, LogsOne(s), Settles
  PROVE  Numbers'
<1>. SUFFICES ASSUME NEW a \in Servers
              PROVE  /\ \A i \in DOMAIN log'[a] :
                          /\ log'[a][i].seq <= seq'[a]
                          /\ \A n \in Nat : log'[a][i].msg = <<a, n>> => n <= sent'[a]
                     /\ \A b \in Servers : \A n \in Nat : Holds(wire'[a][b], <<a, n>>) => n <= sent'[a]
                     /\ \A b \in Servers : \A i \in DOMAIN got'[b] : \A n \in Nat :
                          got'[b][i].msg = <<a, n>> => n <= sent'[a]
  BY DEF Numbers
<1>1. /\ sent[a] \in Nat /\ sent'[a] \in Nat /\ sent'[a] >= sent[a]
      /\ \A i \in DOMAIN log'[a] : /\ log'[a][i].seq <= seq'[a]
                                  /\ \A n \in Nat : log'[a][i].msg = <<a, n>> => n <= sent'[a]
  BY LogNumbers
<1>2. ASSUME NEW b \in Servers, NEW n \in Nat, Holds(wire'[a][b], <<a, n>>)
      PROVE  n <= sent'[a]
  <2>1. Holds(wire[a][b], <<a, n>>)
    BY <1>2 DEF Settles
  <2>2. n <= sent[a]
    BY <2>1 DEF Numbers
  <2>. QED BY <1>1, <2>2
<1>3. ASSUME NEW b \in Servers, NEW i \in DOMAIN got'[b], NEW n \in Nat, got'[b][i].msg = <<a, n>>
      PROVE  n <= sent'[a]
  <2>1. n <= sent[a]
    BY <1>3 DEF Numbers, Settles
  <2>. QED BY <1>1, <2>1
<1>. QED BY <1>1, <1>2, <1>3

LEMMA ConnectOnce ==
  ASSUME Inv, Once, NEW s \in Servers, NEW p \in Servers, s # p, Connect(s, p) PROVE Once'
<1>. DEFINE Ends(a, b) == (a = s /\ b = p) \/ (a = p /\ b = s)
<1>1. /\ conn[s][p] = 0 /\ conn[p][s] = 0 /\ conns \in Nat
      /\ conn'  = [conn EXCEPT ![s][p] = conns + 1, ![p][s] = conns + 1]
      /\ dialed' = [dialed EXCEPT ![s] = @ \cup {p}, ![p] = @ \ {s}]
      /\ wire'  = [wire EXCEPT ![s][p] = <<SERVER>>, ![p][s] = <<>>]
      /\ UNCHANGED <<seq, log, acked, links, replay, sent, got>>
  BY DEF Connect, Inv, TablesOK
<1>2. \A a, b \in Servers :
        /\ conn'[a][b] = IF Ends(a, b) THEN conns + 1 ELSE conn[a][b]
        /\ wire'[a][b] = IF a = s /\ b = p THEN <<SERVER>>
                         ELSE IF a = p /\ b = s THEN <<>> ELSE wire[a][b]
  <2>1. conn \in [Servers -> [Servers -> Nat]] /\ wire \in [Servers -> [Servers -> Seq(WireMsgs)]]
    BY DEF Inv, TablesOK, WireOK
  <2>2. ASSUME NEW a \in Servers, NEW b \in Servers
        PROVE  conn'[a][b] = IF Ends(a, b) THEN conns + 1 ELSE conn[a][b]
    BY <1>1, <2>1
  <2>. DEFINE hello == <<SERVER>>
  <2>3. wire' = [wire EXCEPT ![s][p] = hello, ![p][s] = <<>>]
    BY <1>1
  <2>. HIDE DEF hello
  <2>4. ASSUME NEW a \in Servers, NEW b \in Servers
        PROVE  wire'[a][b] = IF a = s /\ b = p THEN hello
                             ELSE IF a = p /\ b = s THEN <<>> ELSE wire[a][b]
    <3>. DEFINE row == [wire EXCEPT ![s][p] = hello]
    <3>1. wire' = [row EXCEPT ![p][s] = <<>>]
      BY <2>3
    <3>2. row[a] = IF a = s THEN [wire[s] EXCEPT ![p] = hello] ELSE wire[a]
      BY <2>1
    <3>3. row[a][b] = IF a = s /\ b = p THEN hello ELSE wire[a][b]
      BY <2>1, <3>2
    <3>4. DOMAIN row = Servers /\ DOMAIN row[p] = Servers
      BY <2>1
    <3>. HIDE DEF row
    <3>5. wire'[a] = IF a = p THEN [row[p] EXCEPT ![s] = <<>>] ELSE row[a]
      BY <3>1, <3>4
    <3>6. wire'[a][b] = IF a = p /\ b = s THEN <<>> ELSE row[a][b]
      BY <3>4, <3>5
    <3>. QED BY <3>3, <3>6
  <2>. QED BY <2>2, <2>4 DEF hello
<1>3. \A a \in Servers :
        dialed'[a] = IF a = s THEN dialed[a] \cup {p} ELSE IF a = p THEN dialed[a] \ {s} ELSE dialed[a]
  BY <1>1 DEF Inv, TablesOK
<1>4. p \notin links[s] /\ s \notin links[p]
  BY <1>1 DEF Once, Links
<1>5. Links'
  <2>. SUFFICES ASSUME NEW a \in Servers, NEW b \in Servers
                PROVE  /\ b \in links'[a] => conn'[a][b] # 0
                       /\ conn'[a][b] = 0 => wire'[b][a] = <<>>
                       /\ HelloAt(b, a)' /\ CursorAt(a, b)'
    BY DEF Links
  <2>1. /\ b \in links[a] => conn[a][b] # 0
        /\ conn[a][b] = 0 => wire[b][a] = <<>>
        /\ HelloAt(b, a) /\ CursorAt(a, b)
    BY DEF Once, Links
  <2>0. /\ links' = links
        /\ Ends(a, b) => conn'[a][b] # 0
        /\ ~Ends(a, b) => /\ wire'[b][a] = wire[b][a] /\ conn'[a][b] = conn[a][b]
                          /\ conn'[b][a] = conn[b][a]
    <3>1. conns + 1 # 0 /\ links' = links
      BY <1>1
    <3>. QED BY <1>2, <3>1
  <2>2. b \in links'[a] => conn'[a][b] # 0
    BY <2>0, <2>1
  <2>3. conn'[a][b] = 0 => wire'[b][a] = <<>>
    BY <2>0, <2>1
  <2>4. CursorAt(a, b)'
    BY <1>1, <2>1 DEF CursorAt
  <2>5. HelloAt(b, a)'
    <3>1. CASE a = p /\ b = s
      <4>1. wire'[b][a] = <<SERVER>> /\ wire'[b][a][1].type = "SERVER" /\ wire'[b][a] # <<>>
        BY <1>2, <3>1 DEF SERVER
      <4>. QED BY <4>1 DEF HelloAt
    <3>2. CASE a = s /\ b = p
      <4>1. wire'[b][a] = <<>>
        BY <1>2, <3>2
      <4>2. a \notin links'[b] /\ a \notin dialed'[b]
        BY <1>3, <1>4, <2>0, <3>2
      <4>. QED BY <4>1, <4>2 DEF HelloAt
    <3>3. CASE ~Ends(a, b)
      <4>1. a \in dialed'[b] => a \in dialed[b]
        BY <1>3, <3>3
      <4>. QED BY <2>0, <2>1, <3>3, <4>1 DEF HelloAt, Readable
    <3>. QED BY <3>1, <3>2, <3>3
  <2>. QED BY <2>2, <2>3, <2>4, <2>5
<1>6. Settles
  <2>1. ASSUME NEW a \in Servers, NEW b \in Servers, NEW m, Holds(wire'[a][b], m)
        PROVE  Holds(wire[a][b], m) /\ conn'[b][a] = conn[b][a]
    <3>1. ~Ends(a, b)
      BY <1>2, <2>1, HoldsEmpty, MarkersSayNothing
    <3>. QED BY <1>2, <2>1, <3>1
  <2>2. ASSUME NEW a \in Servers, NEW b \in Servers, NEW m \in MsgIds, NEW c \in Nat,
               Over(a, b, m, c)
        PROVE  Over(a, b, m, c)'
    <3>1. b \in links[a] => conn'[a][b] = conn[a][b]
      BY <1>2, <1>4
    <3>. QED BY <1>1, <2>2, <3>1 DEF Over
  <2>. QED BY <1>1, <2>1, <2>2 DEF Settles
<1>7. Numbers'
  BY <1>1, <1>6, QuietLogs, SettlesNumbers DEF Once
<1>. QED BY <1>5, <1>6, <1>7, SettlesOnce

\* s gives up its end of the connection to p: what was for p is over.
LEMMA RemoveLinkOnce ==
  ASSUME Inv, Once, NEW s \in Servers, NEW p \in Servers, s # p, RemoveLink(s, p) PROVE Once'
<1>. DEFINE out == IF p \in links[s] THEN RelayTo(links[s] \ {p}, SEVENT) ELSE [q \in Servers |-> <<>>]
<1>1. /\ conn' = [conn EXCEPT ![s][p] = 0] /\ replay' = [replay EXCEPT ![s][p] = NoReplay]
      /\ UNCHANGED <<dialed, sent, got>>
  BY DEF RemoveLink
<1>2. \A b \in Servers : /\ out[b] \in Seq(WireMsgs) /\ \A m : ~Holds(out[b], m)
                         /\ out[b] # <<>> => b \in links[s] /\ b # p
  BY MarkersOK, MarkersSayNothing, EmptyOK, OneOK, HoldsEmpty DEF RelayTo
<1>3. \A a, b \in Servers :
        wire'[a][b] = IF a = s THEN Written(s, out)[b]
                      ELSE IF a = p /\ b = s THEN <<>> ELSE wire[a][b]
  <2>1. wire \in [Servers -> [Servers -> Seq(WireMsgs)]]
    BY DEF Inv, WireOK
  <2>2. CASE p \in links[s]
    <3>1. wire' = [wire EXCEPT ![p][s] = <<>>, ![s] = Written(s, out)]
      BY <2>2 DEF RemoveLink
    <3>. HIDE DEF out
    <3>. QED BY <2>1, <3>1
  <2>3. CASE p \notin links[s]
    <3>1. wire' = [wire EXCEPT ![p][s] = <<>>]
      BY <2>3 DEF RemoveLink
    <3>2. \A b \in Servers : out[b] = <<>>
      BY <2>3
    <3>. HIDE DEF out
    <3>3. \A b \in Servers : Written(s, out)[b] = wire[s][b]
      BY <3>2, SilentWritten
    <3>. QED BY <2>1, <3>1, <3>3
  <2>. QED BY <2>2, <2>3
<1>. HIDE DEF out
<1>4. LogsOne(s)
  <2>1. \A a \in Servers : sent[a] \in Nat
    BY DEF Inv, CountsOK
  <2>2. sent' \in [Servers -> Nat] /\ \A a \in Servers : sent'[a] >= sent[a]
    BY <1>1, <2>1 DEF Inv, CountsOK
  <2>3. CASE p \in links[s]
    <3>1. Emit(s, NoOrigin, NoMsg, Channel)
      BY <2>3 DEF RemoveLink
    <3>. QED BY <2>2, <3>1, EmitLogs DEF Origins, Dests
  <2>4. CASE p \notin links[s]
    BY <1>1, <2>4, QuietLogs DEF RemoveLink
  <2>. QED BY <2>3, <2>4
<1>5. \A a, b \in Servers :
        /\ b \in links'[a] <=> b \in links[a] /\ ~(a = s /\ b = p)
        /\ conn'[a][b] = IF a = s /\ b = p THEN 0 ELSE conn[a][b]
        /\ replay'[a][b] = IF a = s /\ b = p THEN NoReplay ELSE replay[a][b]
        /\ acked'[a][b] = IF a = s /\ b = p /\ p \in links[s] THEN seq[s] ELSE acked[a][b]
  <2>1. conn \in [Servers -> [Servers -> Nat]] /\ replay \in [Servers -> [Servers -> Replays]]
        /\ acked \in [Servers -> [Servers -> Nat]] /\ links \in [Servers -> SUBSET Servers]
    BY DEF Inv, TablesOK
  <2>2. CASE p \in links[s]
    <3>1. links' = [links EXCEPT ![s] = links[s] \ {p}] /\ acked' = [acked EXCEPT ![s][p] = seq[s]]
      BY <2>2 DEF RemoveLink
    <3>. QED BY <1>1, <2>1, <2>2, <3>1
  <2>3. CASE p \notin links[s]
    <3>1. links' = links /\ acked' = acked
      BY <2>3 DEF RemoveLink
    <3>. QED BY <1>1, <2>1, <2>3, <3>1
  <2>. QED BY <2>2, <2>3
<1>6. ASSUME NEW a \in Servers, NEW b \in Servers
      PROVE  /\ wire[a][b] \in Seq(WireMsgs)
             /\ \/ wire'[a][b] = wire[a][b]
                \/ a = p /\ b = s /\ wire'[a][b] = <<>>
                \/ a = s /\ Readable(s, b) /\ wire'[a][b] = wire[a][b] \o out[b]
             /\ a = s /\ Readable(s, b) => wire'[a][b] = wire[a][b] \o out[b]
             /\ a = p /\ b = s => wire'[a][b] = <<>>
  BY <1>3 DEF Written, Inv, WireOK
<1>7. Links'
  <2>. SUFFICES ASSUME NEW a \in Servers, NEW b \in Servers
                PROVE  /\ b \in links'[a] => conn'[a][b] # 0
                       /\ conn'[a][b] = 0 => wire'[b][a] = <<>>
                       /\ HelloAt(b, a)' /\ CursorAt(a, b)'
    BY DEF Links
  <2>1. /\ b \in links[a] => conn[a][b] # 0
        /\ conn[a][b] = 0 => wire[b][a] = <<>>
        /\ HelloAt(b, a) /\ CursorAt(a, b)
    BY DEF Once, Links
  <2>2. b \in links'[a] => conn'[a][b] # 0
    BY <1>5, <2>1
  <2>3. conn'[a][b] = 0 => wire'[b][a] = <<>>
    <3>1. CASE a = s /\ b = p
      BY <1>6, <3>1
    <3>2. CASE ~(a = s /\ b = p)
      <4>1. conn'[a][b] = conn[a][b]
        BY <1>5, <3>2
      <4>2. conn[a][b] = 0 => ~(b = s /\ Readable(s, a))
        BY DEF Readable
      <4>. QED BY <1>6, <2>1, <4>1, <4>2
    <3>. QED BY <3>1, <3>2
  <2>4. CursorAt(a, b)'
    <3>1. CASE a = s /\ b = p
      <4>1. replay'[a][b].phase = "idle"
        BY <1>5, <3>1 DEF NoReplay
      <4>. QED BY <4>1 DEF CursorAt
    <3>2. CASE ~(a = s /\ b = p)
      <4>1. replay'[a][b] = replay[a][b] /\ acked'[a][b] = acked[a][b]
            /\ (b \in links[a] => b \in links'[a])
        BY <1>5, <3>2
      <4>. QED BY <2>1, <4>1 DEF CursorAt
    <3>. QED BY <3>1, <3>2
  <2>5. HelloAt(b, a)'
    <3>1. CASE a = s /\ b = p
      <4>1. wire'[b][a] = <<>> /\ conn'[a][b] = 0
        BY <1>5, <1>6, <3>1
      <4>. QED BY <4>1 DEF HelloAt, Readable
    <3>2. CASE ~(a = s /\ b = p)
      <4>. SUFFICES ASSUME b \notin links[a]
                    PROVE  IF wire'[b][a] = <<>>
                           THEN Readable(b, a)' => a \notin links'[b] /\ a \notin dialed'[b]
                           ELSE wire'[b][a][1].type = "SERVER"
        BY <1>5, <3>2 DEF HelloAt
      <4>1. IF wire[b][a] = <<>> THEN Readable(b, a) => a \notin links[b] /\ a \notin dialed[b]
                                 ELSE wire[b][a][1].type = "SERVER"
        BY <2>1 DEF HelloAt
      <4>2. Readable(b, a)' => Readable(b, a)
        BY <1>5 DEF Readable
      <4>3. wire[b][a] = <<>> => wire'[b][a] = <<>>
        <5>. SUFFICES ASSUME wire[b][a] = <<>>, b = s, Readable(s, a)
                      PROVE  wire[b][a] \o out[a] = <<>>
          BY <1>6
        <5>1. a \notin links[s]
          BY <4>1
        <5>2. out[a] = <<>>
          BY <1>2, <5>1
        <5>. QED BY <5>2
      <4>4. wire[b][a] # <<>> => wire'[b][a] # <<>> /\ wire'[b][a][1] = wire[b][a][1]
        <5>1. out[a] \in Seq(WireMsgs)
          BY <1>2
        <5>2. wire'[b][a] = wire[b][a] \/ wire'[b][a] = wire[b][a] \o out[a]
          BY <1>6, <3>2
        <5>3. wire[b][a] \in Seq(WireMsgs)
          BY <1>6
        <5>. QED BY <5>1, <5>2, <5>3, FirstConcat, ZenonT(60)
      <4>5. a \in links'[b] => a \in links[b]
        BY <1>5
      <4>. QED BY <1>1, <4>1, <4>2, <4>3, <4>4, <4>5
    <3>. QED BY <3>1, <3>2
  <2>. QED BY <2>2, <2>3, <2>4, <2>5
<1>8. Settles
  <2>1. ASSUME NEW a \in Servers, NEW b \in Servers, NEW m, Holds(wire'[a][b], m)
        PROVE  Holds(wire[a][b], m) /\ conn'[b][a] = conn[b][a]
    <3>1. ~(a = p /\ b = s)
      BY <1>6, <2>1, HoldsEmpty
    <3>2. Holds(wire[a][b], m)
      <4>1. CASE wire'[a][b] = wire[a][b] \o out[b]
        <5>1. wire[a][b] \in Seq(WireMsgs) /\ out[b] \in Seq(WireMsgs) /\ ~Holds(out[b], m)
          BY <1>2, <1>6
        <5>2. Holds(wire[a][b] \o out[b], m)
          BY <2>1, <4>1
        <5>. QED BY <5>1, <5>2, HoldsConcat
      <4>. QED BY <1>6, <2>1, <3>1, <4>1
    <3>. QED BY <1>5, <3>1, <3>2
  <2>2. ASSUME NEW a \in Servers, NEW b \in Servers, NEW m \in MsgIds, NEW c \in Nat,
               m[1] = a, m[2] <= sent[a], Over(a, b, m, c)
        PROVE  Over(a, b, m, c)'
    <3>. SUFFICES ASSUME NEW i \in DOMAIN log'[a], log'[a][i].origin = NoOrigin,
                         log'[a][i].msg = m
                  PROVE  log'[a][i].seq <= acked'[a][b] \/ (b \in links'[a] /\ conn'[a][b] = c)
      BY DEF Over
    <3>1. PICK k \in DOMAIN log[a] : log'[a][i] = log[a][k]
      <4>1. CASE a # s
        BY <1>4, <4>1 DEF LogsOne
      <4>2. CASE a = s
        <5>1. sent[a] \in Nat /\ m[2] \in Nat
          BY MsgIdParts DEF Inv, CountsOK
        <5>2. ~(m[2] > sent[a])
          BY <2>2, <5>1
        <5>. QED BY <1>4, <4>2, <5>2 DEF LogsOne
      <4>. QED BY <4>1, <4>2
    <3>2. log[a][k].seq <= acked[a][b] \/ (b \in links[a] /\ conn[a][b] = c)
      BY <2>2, <3>1 DEF Over
    <3>3. CASE a = s /\ b = p /\ p \in links[s]
      <4>1. log[a][k].seq <= seq[a]
        BY DEF Once, Numbers
      <4>. QED BY <1>5, <3>1, <3>3, <4>1
    <3>4. CASE ~(a = s /\ b = p /\ p \in links[s])
      BY <1>5, <3>1, <3>2, <3>4
    <3>. QED BY <3>3, <3>4
  <2>. QED BY <1>1, <2>1, <2>2 DEF Settles
<1>9. Numbers'
  BY <1>4, <1>8, SettlesNumbers DEF Once
<1>. QED BY <1>7, <1>8, <1>9, SettlesOnce

\* A server that comes back has no message in its log, and none that it could number again.
LEMMA RestartOnce ==
  ASSUME Inv, Once, NEW s \in Servers, Restart(s) PROVE Once'
<1>1. /\ UNCHANGED <<dialed, sent, got>>
      /\ \A a \in Servers : a # s => /\ seq'[a] = seq[a] /\ log'[a] = log[a] /\ acked'[a] = acked[a]
                                     /\ links'[a] = links[a] /\ replay'[a] = replay[a]
                                     /\ conn'[a] = conn[a]
      /\ seq'[s] = 1 /\ log'[s] = <<Wake>> /\ links'[s] = {}
      /\ \A b \in Servers : conn'[s][b] = 0 /\ replay'[s][b] = NoReplay
  BY DEF Restart, Inv, TablesOK, CountsOK, LogOK
<1>2. \A a, b \in Servers : wire'[a][b] = IF b = s THEN <<>> ELSE wire[a][b]
  <2>1. wire' = [q \in Servers |-> [wire[q] EXCEPT ![s] = <<>>]]
    BY DEF Restart
  <2>. QED BY <2>1 DEF Inv, WireOK
<1>3. \A i \in DOMAIN log'[s] : log'[s][i] = Wake
  BY <1>1
<1>4. Wake.seq = 1 /\ Wake.msg = NoMsg
  BY DEF Wake
<1>5. Links'
  <2>. SUFFICES ASSUME NEW a \in Servers, NEW b \in Servers
                PROVE  /\ b \in links'[a] => conn'[a][b] # 0
                       /\ conn'[a][b] = 0 => wire'[b][a] = <<>>
                       /\ HelloAt(b, a)' /\ CursorAt(a, b)'
    BY DEF Links
  <2>1. /\ b \in links[a] => conn[a][b] # 0
        /\ conn[a][b] = 0 => wire[b][a] = <<>>
        /\ HelloAt(b, a) /\ CursorAt(a, b)
    BY DEF Once, Links
  <2>2. CASE a = s
    <3>1. wire'[b][a] = <<>> /\ conn'[a][b] = 0 /\ b \notin links'[a] /\ replay'[a][b].phase = "idle"
      BY <1>1, <1>2, <2>2 DEF NoReplay
    <3>. QED BY <3>1 DEF HelloAt, CursorAt, Readable
  <2>3. CASE a # s
    <3>1. /\ wire'[b][a] = wire[b][a] /\ conn'[a] = conn[a] /\ links'[a] = links[a]
          /\ replay'[a] = replay[a] /\ acked'[a] = acked[a]
      BY <1>1, <1>2, <2>3
    <3>2. b = s => ~Readable(b, a)'
      BY <1>1 DEF Readable
    <3>3. b # s => conn'[b] = conn[b] /\ links'[b] = links[b]
      BY <1>1
    <3>. QED BY <1>1, <2>1, <3>1, <3>2, <3>3 DEF HelloAt, CursorAt, Readable
  <2>. QED BY <2>2, <2>3
<1>6. Settles
  <2>1. ASSUME NEW a \in Servers, NEW b \in Servers, NEW m, Holds(wire'[a][b], m)
        PROVE  Holds(wire[a][b], m) /\ conn'[b][a] = conn[b][a]
    BY <1>1, <1>2, <2>1, HoldsEmpty
  <2>2. ASSUME NEW a \in Servers, NEW b \in Servers, NEW m \in MsgIds, NEW c \in Nat,
               Over(a, b, m, c)
        PROVE  Over(a, b, m, c)'
    <3>1. CASE a = s
      BY <1>3, <1>4, <3>1, MsgIdParts DEF Over
    <3>2. CASE a # s
      BY <1>1, <2>2, <3>2 DEF Over
    <3>. QED BY <3>1, <3>2
  <2>. QED BY <1>1, <2>1, <2>2 DEF Settles
<1>7. Numbers'
  <2>. SUFFICES ASSUME NEW a \in Servers
                PROVE  /\ \A i \in DOMAIN log'[a] :
                            /\ log'[a][i].seq <= seq'[a]
                            /\ \A n \in Nat : log'[a][i].msg = <<a, n>> => n <= sent'[a]
                       /\ \A b \in Servers : \A n \in Nat : Holds(wire'[a][b], <<a, n>>) => n <= sent'[a]
                       /\ \A b \in Servers : \A i \in DOMAIN got'[b] : \A n \in Nat :
                            got'[b][i].msg = <<a, n>> => n <= sent'[a]
    BY DEF Numbers
  <2>1. ASSUME NEW i \in DOMAIN log'[a]
        PROVE  log'[a][i].seq <= seq'[a] /\ \A n \in Nat : log'[a][i].msg = <<a, n>> => n <= sent'[a]
    <3>1. CASE a = s
      <4>1. log'[a][i].seq = 1 /\ log'[a][i].msg = NoMsg /\ seq'[a] = 1
        BY <1>1, <1>3, <1>4, <3>1
      <4>2. \A n \in Nat : log'[a][i].msg # <<a, n>>
        BY <4>1 DEF NoMsg
      <4>3. log'[a][i].seq <= seq'[a]
        BY <4>1
      <4>. QED BY <4>2, <4>3
    <3>2. CASE a # s
      BY <1>1, <3>2 DEF Once, Numbers
    <3>. QED BY <3>1, <3>2
  <2>2. ASSUME NEW b \in Servers, NEW n \in Nat, Holds(wire'[a][b], <<a, n>>) PROVE n <= sent'[a]
    BY <1>1, <1>6, <2>2 DEF Once, Numbers, Settles
  <2>3. ASSUME NEW b \in Servers, NEW i \in DOMAIN got'[b], NEW n \in Nat, got'[b][i].msg = <<a, n>>
        PROVE  n <= sent'[a]
    BY <1>1, <2>3 DEF Once, Numbers
  <2>. QED BY <2>1, <2>2, <2>3
<1>. QED BY <1>5, <1>6, <1>7, SettlesOnce

-----------------------------------------------------------------------------
(* The theorem. *)

LEMMA InitOnce == Init => Once
<1>. SUFFICES ASSUME Init PROVE Once
  OBVIOUS
<1>1. /\ \A s, p \in Servers : /\ wire[s][p] = <<>> /\ conn[s][p] = 0 /\ p \notin links[s]
                               /\ replay[s][p] = NoReplay
      /\ \A s \in Servers : got[s] = <<>> /\ log[s] = <<Wake>> /\ seq[s] = 1
  BY DEF Init
<1>2. Links
  BY <1>1 DEF Links, HelloAt, CursorAt, Readable, NoReplay
<1>3. Numbers
  <2>1. \A s \in Servers : \A i \in DOMAIN log[s] : log[s][i].seq = 1 /\ log[s][i].msg = NoMsg
    BY <1>1 DEF Wake
  <2>2. ASSUME NEW s \in Servers
        PROVE  /\ \A i \in DOMAIN log[s] :
                    /\ log[s][i].seq <= seq[s]
                    /\ \A n \in Nat : log[s][i].msg = <<s, n>> => n <= sent[s]
               /\ \A p \in Servers : \A n \in Nat : Holds(wire[s][p], <<s, n>>) => n <= sent[s]
               /\ \A p \in Servers : \A i \in DOMAIN got[p] : \A n \in Nat :
                    got[p][i].msg = <<s, n>> => n <= sent[s]
    <3>1. ASSUME NEW i \in DOMAIN log[s]
          PROVE  log[s][i].seq <= seq[s] /\ \A n \in Nat : log[s][i].msg # <<s, n>>
      BY <1>1, <2>1 DEF NoMsg
    <3>2. \A p \in Servers : \A n \in Nat : ~Holds(wire[s][p], <<s, n>>)
      BY <1>1, HoldsEmpty
    <3>3. \A p \in Servers : DOMAIN got[p] = {}
      BY <1>1
    <3>. QED BY <3>1, <3>2, <3>3
  <2>. QED BY <2>2 DEF Numbers
<1>4. Flights
  BY <1>1, HoldsEmpty DEF Flights
<1>5. \A p \in Servers : DOMAIN got[p] = {}
  BY <1>1
<1>. QED BY <1>2, <1>3, <1>4, <1>5 DEF Once, OneConnection

LEMMA NextOnce == Inv /\ Once /\ [Next]_vars => Once'
<1>. SUFFICES ASSUME Inv, Once, [Next]_vars PROVE Once'
  OBVIOUS
<1>1. CASE UNCHANGED vars
  <2>1. Links'
    BY <1>1 DEF vars, Once, Links, HelloAt, CursorAt, Readable
  <2>2. Numbers'
    BY <1>1 DEF vars, Once, Numbers
  <2>3. ASSUME NEW t \in Servers, NEW p \in Servers, NEW m \in MsgIds, Holds(wire'[t][p], m)
        PROVE  Over(t, p, m, conn[p][t])'
    <3>1. UNCHANGED <<wire, conn, log, acked, links>>
      BY <1>1 DEF vars
    <3>2. Flights /\ Holds(wire[t][p], m)
      BY <2>3, <3>1 DEF Once
    <3>3. Over(t, p, m, conn[p][t])
      BY <3>2 DEF Flights
    <3>. QED BY <3>1, <3>3 DEF Over
  <2>4. ASSUME NEW p \in Servers, NEW j \in DOMAIN got'[p] PROVE DeliveredOnce(p, j)'
    <3>1. UNCHANGED <<got, wire, conn, log, acked, links>>
      BY <1>1 DEF vars
    <3>2. j \in DOMAIN got[p] /\ DeliveredOnce(p, j)
      BY <3>1 DEF Once
    <3>. QED BY <3>1, <3>2, Zenon DEF DeliveredOnce, Over, Holds
  <2>5. OneConnection'
    <3>1. UNCHANGED got
      BY <1>1 DEF vars
    <3>. QED BY <3>1 DEF Once, OneConnection
  <2>. QED BY <2>1, <2>2, <2>3, <2>4, <2>5 DEF Once, Flights
<1>2. ASSUME NEW s \in Servers, SendToChannel(s) \/ EmitLocal(s) \/ Restart(s)
      PROVE  Once'
  BY <1>2, SendToChannelOnce, EmitLocalOnce, RestartOnce
<1>3. ASSUME NEW s \in Servers, NEW p \in Servers \ {s},
             \/ SendDirect(s, p) \/ Connect(s, p) \/ CloseEnd(s, p)
             \/ Receive(s, p) \/ ReplayStep(s, p) \/ ReplayAbort(s, p)
      PROVE  Once'
  <2>1. CASE SendDirect(s, p) \/ Connect(s, p)
    BY <2>1, SendDirectOnce, ConnectOnce
  <2>2. CASE CloseEnd(s, p) \/ ReplayAbort(s, p)
    BY <2>2, RemoveLinkOnce DEF CloseEnd, ReplayAbort
  <2>3. CASE Receive(s, p)
    BY <2>3, RecvServerOnce, RecvEventOnce, RecvMessageOnce, RecvBackfillOnce,
       RecvBackfillEndOnce DEF Receive
  <2>4. CASE ReplayStep(s, p)
    BY <2>4, ReplayStepOnce
  <2>. QED BY <1>3, <2>1, <2>2, <2>3, <2>4
<1>. QED BY <1>1, <1>2, <1>3 DEF Next

LEMMA OnceInvariant == Spec => [](Inv /\ Once)
BY InitInv, InitOnce, NextInv, NextOnce, PTL DEF Spec

\* No message is delivered over two connections, in a mesh of any size, however often links
\* drop and servers restart: what the peer has been past (_peer_acked_seq, recorded in
\* _remove_link) covers everything that was relayed or replayed to it before.
THEOREM NoSecondConnection == Spec => []OneConnection
<1>1. Inv /\ Once => OneConnection
  BY DEF Once
<1>. QED BY <1>1, OnceInvariant, PTL

-----------------------------------------------------------------------------
(* The hand-over from replay to live relay.  What the log of s has for p was delivered,   *)
(* is on the wire to p under the very destination it was logged with, or is ahead of the  *)
(* replay.  That a replay is for a registered link makes every event that s emits in the  *)
(* meantime go to p too; that the number of the log's last event only grows makes a       *)
(* replay that was overtaken stay overtaken.                                              *)

For(e, p) == e.origin = NoOrigin /\ e.msg # NoMsg /\ e.to \in {Channel, p}

Has(w, x) == \E i \in DOMAIN w : w[i] = x

Passed(e, s, p) == \/ e.seq <= replay[s][p].after
                   \/ Delivered(e.msg, p)
                   \/ Has(wire[s][p], SMSG(e.msg, e.to))

\* The entry e at position i of the log of s is ahead of the replay to p, which will send
\* it, or which is about to fail.
Ahead(i, s, p) == /\ replay[s][p].phase = "running"
                  /\ i >= replay[s][p].next \/ seq[s] # replay[s][p].top

Handed(s, p) ==
  replay[s][p].phase # "idle" =>
    /\ p \in links[s]
    /\ replay[s][p].phase = "running" => replay[s][p].top <= seq[s]
    /\ Readable(s, p) => \A i \in DOMAIN log[s] :
         For(log[s][i], p) => Passed(log[s][i], s, p) \/ Ahead(i, s, p)

AllHanded == \A s, p \in Servers : s # p => Handed(s, p)

\* What a step leaves of the hand-over from s to p when the replay does not move.
Hands(s, p) ==
  /\ replay'[s][p] = replay[s][p]
  /\ p \in links[s] => p \in links'[s]
  /\ (seq'[s] = seq[s] /\ log'[s] = log[s]) \/ seq'[s] = seq[s] + 1
  /\ Readable(s, p)' /\ p \in links[s] =>
       /\ Readable(s, p)
       /\ \A e : For(e, p) /\ Has(wire[s][p], SMSG(e.msg, e.to)) =>
            Has(wire'[s][p], SMSG(e.msg, e.to)) \/ Delivered(e.msg, p)'
       /\ \A m : Delivered(m, p) => Delivered(m, p)'
       /\ \A i \in DOMAIN log'[s] :
            \/ \E k \in DOMAIN log[s] : log'[s][i] = log[s][k]
            \/ For(log'[s][i], p) => Has(wire'[s][p], SMSG(log'[s][i].msg, log'[s][i].to))

LEMMA StaysPassed ==
  ASSUME NEW s \in Servers, NEW p \in Servers, Hands(s, p), Readable(s, p)', p \in links[s],
         NEW e, For(e, p), Passed(e, s, p)
  PROVE  Passed(e, s, p)'
BY DEF Hands, Passed

LEMMA Keeps ==
  ASSUME Inv, NEW s \in Servers, NEW p \in Servers, Handed(s, p), Hands(s, p)
  PROVE  Handed(s, p)'
<1>. SUFFICES ASSUME replay'[s][p].phase # "idle"
              PROVE  /\ p \in links'[s]
                     /\ replay'[s][p].phase = "running" => replay'[s][p].top <= seq'[s]
                     /\ Readable(s, p)' => \A i \in DOMAIN log'[s] :
                          For(log'[s][i], p) => Passed(log[s][i], s, p)' \/ Ahead(i, s, p)'
  BY DEF Handed, For
<1>1. replay'[s][p] = replay[s][p] /\ replay[s][p].phase # "idle" /\ p \in links[s]
      /\ (replay[s][p].phase = "running" => replay[s][p].top <= seq[s])
  BY DEF Handed, Hands
<1>2. seq[s] \in Nat /\ replay[s][p] \in Replays
  BY DEF Inv, CountsOK, TablesOK
<1>3. replay[s][p].phase = "running" => replay[s][p].top \in Nat
  BY <1>2 DEF Replays
<1>4. seq'[s] = seq[s] \/ seq'[s] = seq[s] + 1
  BY DEF Hands
<1>5. replay'[s][p].phase = "running" => replay'[s][p].top <= seq'[s]
  BY <1>1, <1>2, <1>3, <1>4
<1>6. p \in links'[s]
  BY <1>1 DEF Hands
<1>7. ASSUME Readable(s, p)', NEW i \in DOMAIN log'[s], For(log'[s][i], p)
      PROVE  Passed(log[s][i], s, p)' \/ Ahead(i, s, p)'
  <2>1. PICK e : e = log'[s][i]
    OBVIOUS
  <2>2. SUFFICES Passed(e, s, p)' \/ Ahead(i, s, p)'
    BY <2>1 DEF Passed
  <2>3. Readable(s, p) /\ For(e, p)
    BY <1>1, <1>7, <2>1 DEF Hands
  <2>4. CASE seq'[s] = seq[s] /\ log'[s] = log[s]
    <3>1. i \in DOMAIN log[s] /\ e = log[s][i]
      BY <2>1, <2>4
    <3>2. Passed(e, s, p) \/ Ahead(i, s, p)
      BY <1>1, <2>3, <3>1 DEF Handed
    <3>3. CASE Passed(e, s, p)
      BY <1>1, <1>7, <2>3, <3>3, StaysPassed
    <3>4. CASE Ahead(i, s, p)
      BY <1>1, <2>4, <3>4 DEF Ahead
    <3>. QED BY <3>2, <3>3, <3>4
  <2>5. CASE seq'[s] = seq[s] + 1 /\ replay[s][p].phase = "running"
    BY <1>1, <1>2, <1>3, <2>5 DEF Ahead
  <2>6. CASE replay[s][p].phase # "running"
    <3>1. CASE \E k \in DOMAIN log[s] : log'[s][i] = log[s][k]
      <4>1. PICK k \in DOMAIN log[s] : e = log[s][k]
        BY <2>1, <3>1
      <4>2. Passed(e, s, p)
        BY <1>1, <2>3, <2>6, <4>1 DEF Handed, Ahead
      <4>. QED BY <1>1, <1>7, <2>3, <4>2, StaysPassed
    <3>2. CASE Has(wire'[s][p], SMSG(log'[s][i].msg, log'[s][i].to))
      BY <2>1, <3>2 DEF Passed
    <3>. QED BY <1>1, <1>7, <3>1, <3>2 DEF Hands
  <2>. QED BY <1>4, <2>4, <2>5, <2>6 DEF Hands
<1>. QED BY <1>5, <1>6, <1>7

LEMMA HasConcat ==
  ASSUME NEW S, NEW t \in Seq(S), NEW u \in Seq(S), NEW x, Has(t, x) \/ Has(u, x)
  PROVE  Has(t \o u, x)
<1>1. /\ \A i \in 1 .. Len(t) + Len(u) :
           (t \o u)[i] = IF i <= Len(t) THEN t[i] ELSE u[i - Len(t)]
      /\ DOMAIN t = 1 .. Len(t) /\ DOMAIN u = 1 .. Len(u) /\ Len(t) \in Nat /\ Len(u) \in Nat
      /\ DOMAIN (t \o u) = 1 .. Len(t) + Len(u)
  BY ConcatProperties, LenProperties
<1>2. CASE Has(t, x)
  <2>1. PICK i \in 1 .. Len(t) : t[i] = x
    BY <1>1, <1>2 DEF Has
  <2>2. i \in 1 .. Len(t) + Len(u) /\ (t \o u)[i] = x
    BY <1>1, <2>1
  <2>. QED BY <1>1, <2>2 DEF Has
<1>3. CASE Has(u, x)
  <2>1. PICK i \in 1 .. Len(u) : u[i] = x
    BY <1>1, <1>3 DEF Has
  <2>2. i + Len(t) \in 1 .. Len(t) + Len(u) /\ (t \o u)[i + Len(t)] = x
    BY <1>1, <2>1
  <2>. QED BY <1>1, <2>2 DEF Has
<1>. QED BY <1>2, <1>3

LEMMA HasTail ==
  ASSUME NEW S, NEW t \in Seq(S), t # <<>>, NEW x, Has(t, x)
  PROVE  x = Head(t) \/ Has(Tail(t), x)
<1>1. PICK i \in DOMAIN t : t[i] = x
  BY DEF Has
<1>2. /\ Head(t) = t[1] /\ Len(t) \in Nat \ {0} /\ DOMAIN t = 1 .. Len(t)
      /\ Tail(t) \in Seq(S) /\ Len(Tail(t)) = Len(t) - 1 /\ \A j \in 1 .. Len(Tail(t)) : Tail(t)[j] = t[j + 1]
  BY HeadTailProperties, LenProperties, EmptySeq
<1>3. CASE i = 1
  BY <1>1, <1>2, <1>3
<1>4. CASE i # 1
  <2>1. i - 1 \in 1 .. Len(Tail(t)) /\ (i - 1) + 1 = i
    BY <1>1, <1>2, <1>4
  <2>2. Tail(t)[i - 1] = x /\ i - 1 \in DOMAIN Tail(t)
    BY <1>1, <1>2, <2>1, LenProperties
  <2>. QED BY <2>2 DEF Has
<1>. QED BY <1>3, <1>4

\* A step of s that keeps its connections: it may read one line of p, log one event and
\* write out[b] to each b that reads.
SpeaksTo(s, p, rest, out) ==
  /\ UNCHANGED conn
  /\ \A a \in Servers : links[a] \subseteq links'[a]
  /\ \A a, b \in Servers :
       wire'[a][b] = IF a = s THEN Written(s, out)[b]
                     ELSE IF a = p /\ b = s THEN rest ELSE wire[a][b]
  /\ \A b \in Servers : out[b] \in Seq(WireMsgs)
  /\ \/ rest = wire[p][s]
     \/ /\ wire[p][s] # <<>> /\ rest = Tail(wire[p][s])
        /\ \A e : For(e, s) /\ Head(wire[p][s]) = SMSG(e.msg, e.to) => Delivered(e.msg, s)'
  /\ \A q \in Servers : \A m : Delivered(m, q) => Delivered(m, q)'

\* It logs nothing, or one event that, if it is a message, goes to all links.
LogsFor(s, out) ==
  /\ \A a \in Servers : a # s => log'[a] = log[a] /\ seq'[a] = seq[a]
  /\ \/ log'[s] = log[s] /\ seq'[s] = seq[s]
     \/ /\ seq'[s] = seq[s] + 1
        /\ \A i \in DOMAIN log'[s] :
             \/ \E k \in DOMAIN log[s] : log'[s][i] = log[s][k]
             \/ \A b \in links[s] : For(log'[s][i], b) =>
                  Has(out[b], SMSG(log'[s][i].msg, log'[s][i].to))

LEMMA SpeakHands ==
  ASSUME Inv, NEW s \in Servers, NEW p \in Servers, NEW rest, NEW out,
         SpeaksTo(s, p, rest, out), LogsFor(s, out),
         NEW a \in Servers, NEW b \in Servers, a # b, replay'[a][b] = replay[a][b]
  PROVE  Hands(a, b)
<1>1. Readable(a, b)' => Readable(a, b)
  BY DEF SpeaksTo, Readable
<1>2. b \in links[a] => b \in links'[a]
  BY DEF SpeaksTo
<1>3. (seq'[a] = seq[a] /\ log'[a] = log[a]) \/ seq'[a] = seq[a] + 1
  BY DEF LogsFor
<1>4. \A m : Delivered(m, b) => Delivered(m, b)'
  BY DEF SpeaksTo
<1>5. wire[a][b] \in Seq(WireMsgs) /\ out[b] \in Seq(WireMsgs)
  BY DEF SpeaksTo, Inv, WireOK
<1>6. CASE a = s
  <2>1. ASSUME Readable(a, b), NEW x, Has(wire[a][b], x) \/ Has(out[b], x)
        PROVE  Has(wire'[a][b], x)
    <3>1. wire'[a][b] = wire[a][b] \o out[b]
      BY <1>6, <2>1 DEF SpeaksTo, Written
    <3>. QED BY <1>5, <2>1, <3>1, HasConcat
  <2>2. ASSUME Readable(a, b), b \in links[a], NEW i \in DOMAIN log'[a]
        PROVE  \/ \E k \in DOMAIN log[a] : log'[a][i] = log[a][k]
               \/ For(log'[a][i], b) => Has(wire'[a][b], SMSG(log'[a][i].msg, log'[a][i].to))
    <3>1. CASE log'[a] = log[a]
      BY <2>2, <3>1
    <3>2. CASE \E k \in DOMAIN log[a] : log'[a][i] = log[a][k]
      BY <3>2
    <3>3. CASE For(log'[a][i], b) => Has(out[b], SMSG(log'[a][i].msg, log'[a][i].to))
      BY <2>1, <2>2, <3>3
    <3>. QED BY <1>6, <2>2, <3>1, <3>2, <3>3 DEF LogsFor
  <2>. QED BY <1>1, <1>2, <1>3, <1>4, <2>1, <2>2 DEF Hands
<1>7. CASE a # s
  <2>1. log'[a] = log[a]
    BY <1>7 DEF LogsFor
  <2>2. ASSUME NEW e, For(e, b), Has(wire[a][b], SMSG(e.msg, e.to))
        PROVE  Has(wire'[a][b], SMSG(e.msg, e.to)) \/ Delivered(e.msg, b)'
    <3>1. CASE a = p /\ b = s
      <4>1. wire'[a][b] = rest
        BY <1>7, <3>1 DEF SpeaksTo
      <4>2. CASE rest = wire[p][s]
        BY <2>2, <3>1, <4>1, <4>2
      <4>3. CASE /\ wire[p][s] # <<>> /\ rest = Tail(wire[p][s])
                 /\ \A x : For(x, s) /\ Head(wire[p][s]) = SMSG(x.msg, x.to) => Delivered(x.msg, s)'
        <5>1. SMSG(e.msg, e.to) = Head(wire[p][s]) \/ Has(Tail(wire[p][s]), SMSG(e.msg, e.to))
          BY <1>5, <2>2, <3>1, <4>3, HasTail
        <5>. QED BY <2>2, <3>1, <4>1, <4>3, <5>1
      <4>. QED BY <4>2, <4>3 DEF SpeaksTo
    <3>2. CASE ~(a = p /\ b = s)
      <4>1. wire'[a][b] = wire[a][b]
        BY <1>7, <3>2 DEF SpeaksTo
      <4>. QED BY <2>2, <4>1
    <3>. QED BY <3>1, <3>2
  <2>. QED BY <1>1, <1>2, <1>3, <1>4, <2>1, <2>2 DEF Hands
<1>. QED BY <1>6, <1>7

\* ... and does not replay.
LEMMA SpeakKeeps ==
  ASSUME Inv, AllHanded, NEW s \in Servers, NEW p \in Servers, NEW rest, NEW out,
         SpeaksTo(s, p, rest, out), LogsFor(s, out), replay' = replay
  PROVE  AllHanded'
<1>. SUFFICES ASSUME NEW a \in Servers, NEW b \in Servers, a # b PROVE Handed(a, b)'
  BY DEF AllHanded
<1>1. Hands(a, b)
  BY SpeakHands
<1>. QED BY <1>1, Keeps DEF AllHanded

\* The logs after an emission.
LEMMA EmitFor ==
  ASSUME Inv, NEW s \in Servers, NEW origin \in Origins, NEW m \in MsgIds \cup {NoMsg},
         NEW to \in Dests, Emit(s, origin, m, to), NEW out,
         origin = NoOrigin /\ m # NoMsg =>
           \A b \in links[s] : to \in {Channel, b} => Has(out[b], SMSG(m, to))
  PROVE  LogsFor(s, out)
<1>. DEFINE e == [seq |-> seq[s] + 1, origin |-> origin, msg |-> m, to |-> to]
<1>1. /\ log' = [log EXCEPT ![s] = Push(log[s], e)] /\ seq' = [seq EXCEPT ![s] = seq[s] + 1]
      /\ seq \in [Servers -> Nat \ {0}] /\ log \in [Servers -> Seq(Entries)]
  BY DEF Emit, Inv, CountsOK, LogOK
<1>2. e \in Entries
  BY <1>1 DEF Entries
<1>3. \A b \in links[s] : For(e, b) => Has(out[b], SMSG(e.msg, e.to))
  BY DEF For
<1>. HIDE DEF e
<1>4. /\ \A a \in Servers : a # s => log'[a] = log[a] /\ seq'[a] = seq[a]
      /\ seq'[s] = seq[s] + 1 /\ log'[s] = Push(log[s], e)
  BY <1>1
<1>5. \A i \in DOMAIN log'[s] : log'[s][i] = e \/ \E k \in DOMAIN log[s] : log'[s][i] = log[s][k]
  BY <1>1, <1>2, <1>4, PushHolds
<1>. QED BY <1>3, <1>4, <1>5 DEF LogsFor

LEMMA QuietFor ==
  ASSUME NEW s \in Servers, NEW out, UNCHANGED <<seq, log>> PROVE LogsFor(s, out)
BY DEF LogsFor

LEMMA HasOne == \A x : Has(<<x>>, x)
BY DEF Has

LEMMA SendHanded ==
  ASSUME Inv, AllHanded, NEW s \in Servers, NEW to \in Dests, NEW out,
         \A b \in Servers : out[b] \in Seq(WireMsgs),
         \A b \in links[s] : Has(out[b], SMSG(<<s, sent[s] + 1>>, to)),
         Send(s, to, out)
  PROVE  AllHanded'
<1>. DEFINE m == <<s, sent[s] + 1>>
<1>1. m \in MsgIds
  BY FreshMessage DEF Inv
<1>2. /\ Emit(s, NoOrigin, m, to) /\ wire' = [wire EXCEPT ![s] = Written(s, out)]
      /\ UNCHANGED <<links, replay, conn, got>>
  BY DEF Send
<1>3. LogsFor(s, out)
  BY <1>1, <1>2, EmitFor DEF Origins
<1>. HIDE DEF m
<1>4. \A a, b \in Servers : wire'[a][b] = IF a = s THEN Written(s, out)[b] ELSE wire[a][b]
  BY <1>2 DEF Inv, WireOK
<1>5. SpeaksTo(s, s, wire[s][s], out)
  BY <1>2, <1>4 DEF SpeaksTo, Delivered
<1>. QED BY <1>2, <1>3, <1>5, SpeakKeeps

LEMMA SendToChannelHanded ==
  ASSUME Inv, AllHanded, NEW s \in Servers, SendToChannel(s) PROVE AllHanded'
<1>. DEFINE w   == SMSG(<<s, sent[s] + 1>>, Channel)
            out == RelayTo(RelayTargets(s, NoOrigin), w)
<1>1. w \in WireMsgs
  BY FreshMessage, MessageOK DEF Inv, Dests
<1>2. Send(s, Channel, out)
  BY DEF SendToChannel
<1>3. links[s] \subseteq Servers
  BY DEF Inv, TablesOK
<1>. HIDE DEF w
<1>4. \A b \in Servers : out[b] \in Seq(WireMsgs)
  BY <1>1, EmptyOK, OneOK DEF RelayTo
<1>5. \A b \in links[s] : out[b] = <<w>>
  BY <1>3 DEF RelayTo, RelayTargets
<1>6. \A b \in links[s] : Has(out[b], w)
  BY <1>5, HasOne
<1>. HIDE DEF out
<1>. QED BY <1>2, <1>4, <1>6, SendHanded DEF Dests, w

LEMMA SendDirectHanded ==
  ASSUME Inv, AllHanded, NEW s \in Servers, NEW p \in Servers, SendDirect(s, p) PROVE AllHanded'
<1>. DEFINE w   == SMSG(<<s, sent[s] + 1>>, p)
            t   == RelayTo({p}, w)
            u   == RelayTo(RelayTargets(s, NoOrigin), w)
            out == [q \in Servers |-> t[q] \o u[q]]
<1>1. w \in WireMsgs
  BY FreshMessage, MessageOK DEF Inv, Dests
<1>2. Send(s, p, out)
  BY DEF SendDirect
<1>3. links[s] \subseteq Servers
  BY DEF Inv, TablesOK
<1>. HIDE DEF w
<1>4. \A b \in Servers : t[b] \in Seq(WireMsgs) /\ u[b] \in Seq(WireMsgs)
  BY <1>1, EmptyOK, OneOK DEF RelayTo
<1>5. \A b \in links[s] : u[b] = <<w>>
  BY <1>3 DEF RelayTo, RelayTargets
<1>. HIDE DEF t, u
<1>6. \A b \in Servers : out[b] \in Seq(WireMsgs)
  BY <1>4, ConcatOK
<1>7. ASSUME NEW b \in links[s] PROVE Has(out[b], w)
  <2>1. Has(u[b], w)
    BY <1>5, HasOne
  <2>2. Has(t[b] \o u[b], w)
    BY <1>3, <1>4, <2>1, HasConcat
  <2>. QED BY <1>3, <2>2
<1>. HIDE DEF out
<1>. QED BY <1>2, <1>6, <1>7, SendHanded DEF Dests, w

LEMMA EmitLocalHanded ==
  ASSUME Inv, AllHanded, NEW s \in Servers, EmitLocal(s) PROVE AllHanded'
<1>. DEFINE out == [q \in Servers |-> <<>>]
<1>1. UNCHANGED <<links, replay, conn, wire, got>> /\ Emit(s, NoOrigin, NoMsg, Channel)
  BY DEF EmitLocal
<1>2. LogsFor(s, out)
  BY <1>1, EmitFor DEF Origins, Dests
<1>3. \A b \in Servers : out[b] = <<>> /\ out[b] \in Seq(WireMsgs)
  BY EmptyOK
<1>. HIDE DEF out
<1>4. \A b \in Servers : Written(s, out)[b] = wire[s][b]
  BY <1>3, SilentWritten
<1>5. SpeaksTo(s, s, wire[s][s], out)
  BY <1>1, <1>3, <1>4 DEF SpeaksTo, Delivered
<1>. QED BY <1>1, <1>2, <1>5, SpeakKeeps

\* s reads a line that is no message, and need not write.
LEMMA ReadSpeaks ==
  ASSUME Inv, NEW s \in Servers, NEW p \in Servers, s # p, NEW type, type # "SMSG",
         Reads(s, p, type), NEW out, ReadAndWrite(s, p, out),
         \A b \in Servers : out[b] \in Seq(WireMsgs),
         UNCHANGED <<conn, got>>, \A a \in Servers : links[a] \subseteq links'[a]
  PROVE  SpeaksTo(s, p, Tail(wire[p][s]), out)
<1>1. /\ wire[p][s] # <<>>
      /\ \A a, b \in Servers :
           wire'[a][b] = IF a = s THEN Written(s, out)[b]
                         ELSE IF a = p /\ b = s THEN Tail(wire[p][s]) ELSE wire[a][b]
  BY ReadsAndTalks
<1>2. \A e : Head(wire[p][s]) # SMSG(e.msg, e.to)
  BY DEF Reads, Incoming, SMSG
<1>. QED BY <1>1, <1>2 DEF SpeaksTo, Delivered

LEMMA RecvServerHanded ==
  ASSUME Inv, AllHanded, NEW s \in Servers, NEW p \in Servers, s # p, RecvServer(s, p)
  PROVE  AllHanded'
<1>. DEFINE linked == links[s] \cup {p}
            answer == IF p \in dialed[s] THEN <<>> ELSE <<SERVER>>
            hello  == answer \o <<BACKFILL(acked[s][p])>>
            out    == [q \in Servers |-> (IF q = p THEN hello ELSE <<>>)
                                          \o RelayTo(linked, SEVENT)[q]]
<1>1. acked[s][p] \in Nat
  BY DEF Inv, TablesOK
<1>2. hello \in Seq(WireMsgs)
  <2>1. answer \in Seq(WireMsgs) /\ <<BACKFILL(acked[s][p])>> \in Seq(WireMsgs)
    BY <1>1, MarkersOK, EmptyOK, OneOK
  <2>. HIDE DEF answer
  <2>. QED BY <2>1, ConcatOK
<1>3. ASSUME NEW b \in Servers PROVE out[b] \in Seq(WireMsgs)
  <2>1. RelayTo(linked, SEVENT)[b] \in Seq(WireMsgs)
    BY MarkersOK, EmptyOK, OneOK DEF RelayTo
  <2>2. (IF b = p THEN hello ELSE <<>>) \in Seq(WireMsgs)
    <3>. HIDE DEF hello
    <3>. QED BY <1>2, EmptyOK
  <2>. HIDE DEF hello, linked
  <2>. QED BY <2>1, <2>2, ConcatOK
<1>4. /\ Reads(s, p, "SERVER") /\ ReadAndWrite(s, p, out)
      /\ links' = [links EXCEPT ![s] = linked]
      /\ Emit(s, NoOrigin, NoMsg, Channel)
      /\ UNCHANGED <<replay, conn, got>>
  BY DEF RecvServer
<1>. HIDE DEF out
<1>5. LogsFor(s, out)
  BY <1>4, EmitFor DEF Origins, Dests
<1>6. \A a \in Servers : links[a] \subseteq links'[a]
  BY <1>4 DEF Inv, TablesOK
<1>7. SpeaksTo(s, p, Tail(wire[p][s]), out)
  BY <1>3, <1>4, <1>6, ReadSpeaks
<1>. QED BY <1>4, <1>5, <1>7, SpeakKeeps

LEMMA RecvEventHanded ==
  ASSUME Inv, AllHanded, NEW s \in Servers, NEW p \in Servers, s # p, RecvEvent(s, p)
  PROVE  AllHanded'
<1>. DEFINE out == RelayTo(RelayTargets(s, p), SEVENT)
<1>1. /\ Reads(s, p, "SEVENT") /\ ReadAndWrite(s, p, out) /\ Emit(s, p, NoMsg, Channel)
      /\ UNCHANGED <<links, replay, conn, got>>
  BY DEF RecvEvent
<1>2. \A q \in Servers : out[q] \in Seq(WireMsgs)
  BY MarkersOK, EmptyOK, OneOK DEF RelayTo
<1>. HIDE DEF out
<1>3. LogsFor(s, out)
  BY <1>1, EmitFor DEF Origins, Dests
<1>4. SpeaksTo(s, p, Tail(wire[p][s]), out)
  BY <1>1, <1>2, ReadSpeaks
<1>. QED BY <1>1, <1>3, <1>4, SpeakKeeps

\* What was delivered stays so, and what comes in is.
LEMMA AppendDelivers ==
  ASSUME NEW s \in Servers, NEW S, got \in [Servers -> Seq(S)], NEW d \in S,
         got' = [got EXCEPT ![s] = Append(got[s], d)]
  PROVE  /\ Delivered(d.msg, s)'
         /\ \A q \in Servers : \A m : Delivered(m, q) => Delivered(m, q)'
<1>1. /\ \A q \in Servers : q # s => got'[q] = got[q]
      /\ got'[s] = Append(got[s], d) /\ got[s] \in Seq(S)
  OBVIOUS
<1>2. /\ Len(got[s]) \in Nat /\ DOMAIN got[s] = 1 .. Len(got[s])
      /\ DOMAIN got'[s] = 1 .. Len(got[s]) + 1 /\ got'[s][Len(got[s]) + 1] = d
      /\ \A i \in 1 .. Len(got[s]) : got'[s][i] = got[s][i]
  BY <1>1, LenProperties, AppendProperties
<1>3. Len(got[s]) + 1 \in DOMAIN got'[s] /\ DOMAIN got[s] \subseteq DOMAIN got'[s]
  BY <1>2
<1>4. Delivered(d.msg, s)'
  BY <1>2, <1>3 DEF Delivered
<1>5. ASSUME NEW q \in Servers, NEW m, Delivered(m, q) PROVE Delivered(m, q)'
  <2>1. CASE q = s
    BY <1>2, <1>3, <1>5, <2>1 DEF Delivered
  <2>2. CASE q # s
    BY <1>1, <1>5, <2>2 DEF Delivered
  <2>. QED BY <2>1, <2>2
<1>. QED BY <1>4, <1>5

\* A message for p on the wire to p is delivered there, under its own destination.
LEMMA RecvMessageHanded ==
  ASSUME Inv, AllHanded, NEW s \in Servers, NEW p \in Servers, s # p, RecvMessage(s, p)
  PROVE  AllHanded'
<1>0. PICK w : w = Incoming(s, p)
  OBVIOUS
<1>1. /\ Reads(s, p, "SMSG") /\ UNCHANGED <<links, replay, conn>>
  BY DEF RecvMessage
<1>2. w \in WireMsgs /\ w.type = "SMSG" /\ w = Head(wire[p][s]) /\ wire[p][s] # <<>>
  BY <1>0, <1>1, IncomingOK DEF Inv, Reads, Incoming
<1>3. w.msg \in MsgIds /\ w.to \in Dests
  BY <1>2 DEF WireMsgs
<1>4. ASSUME NEW out, \A b \in Servers : out[b] = <<>>, ReadAndWrite(s, p, out), LogsFor(s, out),
             \A e : For(e, s) /\ w = SMSG(e.msg, e.to) => Delivered(e.msg, s)',
             \A q \in Servers : \A m : Delivered(m, q) => Delivered(m, q)'
      PROVE  AllHanded'
  <2>1. \A a, b \in Servers :
           wire'[a][b] = IF a = s THEN Written(s, out)[b]
                         ELSE IF a = p /\ b = s THEN Tail(wire[p][s]) ELSE wire[a][b]
    BY <1>1, <1>4, ReadsAndTalks
  <2>2. \A b \in Servers : out[b] \in Seq(WireMsgs)
    BY <1>4, EmptyOK
  <2>3. SpeaksTo(s, p, Tail(wire[p][s]), out)
    BY <1>1, <1>2, <1>4, <2>1, <2>2 DEF SpeaksTo
  <2>. QED BY <1>1, <1>4, <2>3, SpeakKeeps
<1>5. CASE w.to \in {Channel, s}
  <2>. DEFINE out == RelayTo(RelayTargets(s, p), w)
  <2>1. PICK d : d = [msg |-> w.msg, to |-> w.to, from |-> p, conn |-> conn[s][p]]
    OBVIOUS
  <2>2. /\ ReadAndWrite(s, p, out) /\ Emit(s, p, w.msg, w.to)
        /\ got' = [got EXCEPT ![s] = Append(got[s], d)]
    BY <1>0, <1>5, <2>1 DEF RecvMessage
  <2>3. \A q \in Servers : out[q] = <<>>
    BY NoOriginAssumption DEF RelayTo, RelayTargets
  <2>4. w.msg[1] = p
    BY <1>0, <1>1, <1>2, IncomingOK DEF Inv, WireOf
  <2>5. d \in Direct /\ got \in [Servers -> Seq(Direct)]
    BY <1>3, <2>1, <2>4 DEF Direct, Delivery, Inv, TablesOK, GotOK
  <2>6. /\ Delivered(d.msg, s)'
        /\ \A q \in Servers : \A m : Delivered(m, q) => Delivered(m, q)'
    BY <2>2, <2>5, AppendDelivers
  <2>7. \A e : w = SMSG(e.msg, e.to) => e.msg = d.msg
    BY <2>1 DEF SMSG
  <2>8. \A e : For(e, s) /\ w = SMSG(e.msg, e.to) => Delivered(e.msg, s)'
    BY <2>6, <2>7
  <2>9. LogsFor(s, out)
    <3>. HIDE DEF out
    <3>. QED BY <1>3, <2>2, EmitFor, NoOriginAssumption DEF Origins
  <2>. HIDE DEF out
  <2>. QED BY <1>4, <2>2, <2>3, <2>6, <2>8, <2>9
<1>6. CASE w.to \notin {Channel, s}
  <2>. DEFINE out == RelayTo({}, w)
  <2>1. ReadAndWrite(s, p, out) /\ UNCHANGED <<got, seq, log>>
    BY <1>0, <1>6 DEF RecvMessage
  <2>2. \A q \in Servers : out[q] = <<>>
    BY DEF RelayTo
  <2>. HIDE DEF out
  <2>3. LogsFor(s, out)
    BY <2>1, QuietFor
  <2>4. \A e : For(e, s) => w # SMSG(e.msg, e.to)
    BY <1>6 DEF For, SMSG
  <2>5. \A q \in Servers : \A m : Delivered(m, q) => Delivered(m, q)'
    BY <2>1 DEF Delivered
  <2>. QED BY <1>4, <2>1, <2>2, <2>3, <2>4, <2>5
<1>. QED BY <1>5, <1>6

LEMMA RecvBackfillEndHanded ==
  ASSUME Inv, AllHanded, NEW s \in Servers, NEW p \in Servers, s # p, RecvBackfillEnd(s, p)
  PROVE  AllHanded'
<1>. DEFINE out == [q \in Servers |-> <<>>]
<1>1. /\ Reads(s, p, "BACKFILLEND") /\ wire' = [wire EXCEPT ![p][s] = Tail(wire[p][s])]
      /\ UNCHANGED <<seq, log, links, replay, conn, got>>
  BY DEF RecvBackfillEnd
<1>2. wire[p][s] # <<>> /\ \A e : Head(wire[p][s]) # SMSG(e.msg, e.to)
  BY <1>1 DEF Reads, Incoming, SMSG
<1>3. \A b \in Servers : out[b] = <<>> /\ out[b] \in Seq(WireMsgs)
  BY EmptyOK
<1>. HIDE DEF out
<1>4. \A b \in Servers : Written(s, out)[b] = wire[s][b]
  BY <1>3, SilentWritten
<1>5. \A a, b \in Servers :
        wire'[a][b] = IF a = s THEN Written(s, out)[b]
                      ELSE IF a = p /\ b = s THEN Tail(wire[p][s]) ELSE wire[a][b]
  BY <1>1, <1>4 DEF Inv, WireOK
<1>6. SpeaksTo(s, p, Tail(wire[p][s]), out)
  BY <1>1, <1>2, <1>3, <1>5 DEF SpeaksTo, Delivered
<1>7. LogsFor(s, out)
  BY <1>1, QuietFor
<1>. QED BY <1>1, <1>6, <1>7, SpeakKeeps

\* The replay sends the first event that it still has to, and all before it were passed.
LEMMA ReplayFromHanded ==
  ASSUME Inv, AllHanded, NEW s \in Servers, NEW p \in Servers, s # p, p \in links[s],
         NEW i \in Nat \ {0}, NEW after \in Nat, NEW rest,
         \/ rest = wire[p][s]
         \/ /\ wire[p][s] # <<>> /\ rest = Tail(wire[p][s])
            /\ \A e : Head(wire[p][s]) # SMSG(e.msg, e.to),
         \A k \in DOMAIN log[s] : k < i /\ For(log[s][k], p) /\ Readable(s, p) =>
           \/ log[s][k].seq <= after \/ Delivered(log[s][k].msg, p)
           \/ Has(wire[s][p], SMSG(log[s][k].msg, log[s][k].to)),
         ReplayFrom(s, p, i, after, rest),
         UNCHANGED <<seq, log, links, conn, got>>
  PROVE  AllHanded'
<1>. DEFINE todo == {j \in i .. Len(log[s]) : ShouldReplay(log[s][j], after)}
            Reply(w) == wire' = [wire EXCEPT ![p][s] = rest, ![s] = Written(s, RelayTo({p}, w))]
<1>1. Len(log[s]) \in Nat /\ DOMAIN log[s] = 1 .. Len(log[s]) /\ seq[s] \in Nat
      /\ replay \in [Servers -> [Servers -> Replays]]
  BY LenProperties DEF Inv, TablesOK, LogOK, CountsOK
<1>2. \A k \in DOMAIN log[s] : log[s][k].seq \in Nat
  BY LogParts
<1>3. PICK l : l = log[s]
  OBVIOUS
<1>4. l = log'[s]
  BY <1>3
\* Whatever is sent, the other pairs are as they were, and p gets it.
<1>5. ASSUME NEW w \in WireMsgs, Reply(w), NEW r \in Replays, r.after = after, r.phase # "idle",
             r.phase = "running" => r.top = seq[s],
             replay' = [replay EXCEPT ![s][p] = r],
             \A k \in DOMAIN l : k >= i /\ For(l[k], p) =>
               \/ l[k].seq <= after \/ w = SMSG(l[k].msg, l[k].to)
               \/ r.phase = "running" /\ k >= r.next
      PROVE  AllHanded'
  <2>. DEFINE out == RelayTo({p}, w)
  <2>1. \A b \in Servers : out[b] \in Seq(WireMsgs)
    BY <1>5, EmptyOK, OneOK DEF RelayTo
  <2>2. wire' = [wire EXCEPT ![p][s] = rest, ![s] = Written(s, out)] /\ out[p] = <<w>>
    BY <1>5 DEF RelayTo
  <2>. HIDE DEF out
  <2>3. \A a, b \in Servers :
          wire'[a][b] = IF a = s THEN Written(s, out)[b]
                        ELSE IF a = p /\ b = s THEN rest ELSE wire[a][b]
    BY <2>2 DEF Inv, WireOK
  <2>4. SpeaksTo(s, p, rest, out)
    BY <2>1, <2>3 DEF SpeaksTo, Delivered
  <2>5. LogsFor(s, out)
    BY QuietFor
  <2>6. replay'[s][p] = r /\ \A a, b \in Servers : a # s \/ b # p => replay'[a][b] = replay[a][b]
    BY <1>1, <1>5
  <2>7. ASSUME NEW a \in Servers, NEW b \in Servers, a # b, a # s \/ b # p
        PROVE  Handed(a, b)'
    BY <2>4, <2>5, <2>6, <2>7, SpeakHands, Keeps DEF AllHanded
  <2>8. ASSUME Readable(s, p), NEW x, Has(wire[s][p], x) \/ x = w
        PROVE  Has(wire'[s][p], x)
    <3>1. wire'[s][p] = wire[s][p] \o <<w>>
      BY <2>2, <2>3, <2>8 DEF Written
    <3>2. wire[s][p] \in Seq(WireMsgs) /\ <<w>> \in Seq(WireMsgs) /\ Has(<<w>>, w)
      BY <1>5, OneOK, HasOne DEF Inv, WireOK
    <3>3. Has(wire[s][p], x) \/ Has(<<w>>, x)
      BY <2>8, <3>2
    <3>4. Has(wire[s][p] \o <<w>>, x)
      BY <3>2, <3>3, HasConcat
    <3>. QED BY <3>1, <3>4
  <2>9. Handed(s, p)'
    <3>1. p \in links'[s] /\ (r.phase = "running" => r.top <= seq'[s])
      BY <1>1, <1>5
    <3>2. Readable(s, p)' => Readable(s, p)
      BY DEF Readable
    <3>3. ASSUME Readable(s, p), NEW k \in DOMAIN l, For(l[k], p)
          PROVE  \/ l[k].seq <= after \/ Delivered(l[k].msg, p)'
                 \/ Has(wire'[s][p], SMSG(l[k].msg, l[k].to))
                 \/ r.phase = "running" /\ k >= r.next
      <4>1. CASE k >= i
        BY <1>5, <2>8, <3>3, <4>1
      <4>2. CASE k < i
        <5>1. \/ l[k].seq <= after \/ Delivered(l[k].msg, p)
              \/ Has(wire[s][p], SMSG(l[k].msg, l[k].to))
          BY <1>3, <3>3, <4>2
        <5>. QED BY <2>8, <3>3, <5>1 DEF Delivered
      <4>. QED BY <1>1, <1>3, <4>1, <4>2
    <3>. QED BY <1>4, <1>5, <2>6, <3>1, <3>2, <3>3 DEF Handed, Passed, Ahead
  <2>. QED BY <2>7, <2>9 DEF AllHanded
<1>6. CASE /\ todo = {}
           /\ Reply(BACKFILLEND(seq[s]))
           /\ replay' = [replay EXCEPT ![s][p] =
                            [phase |-> "done", after |-> after, next |-> 0, top |-> 0]]
  <2>1. PICK w, r : /\ w = BACKFILLEND(seq[s])
                    /\ r = [phase |-> "done", after |-> after, next |-> 0, top |-> 0]
    OBVIOUS
  <2>2. w \in WireMsgs
    BY <1>1, <2>1, MarkersOK
  <2>3. r \in Replays /\ r.after = after /\ r.phase = "done"
    BY <2>1 DEF Replays
  <2>4. \A k \in DOMAIN l : k >= i /\ For(l[k], p) => l[k].seq <= after
    BY <1>1, <1>2, <1>3, <1>6 DEF For, ShouldReplay
  <2>5. Reply(w) /\ replay' = [replay EXCEPT ![s][p] = r]
    BY <1>6, <2>1
  <2>. HIDE DEF Reply
  <2>. QED BY <1>5, <2>2, <2>3, <2>4, <2>5
<1>7. ASSUME NEW j \in todo, \A k \in todo : j <= k,
             Reply(SMSG(log[s][j].msg, log[s][j].to)),
             replay' = [replay EXCEPT ![s][p] =
               [phase |-> "running", after |-> after, next |-> j + 1, top |-> seq[s]]]
      PROVE  AllHanded'
  <2>1. PICK w, r : /\ w = SMSG(log[s][j].msg, log[s][j].to)
                    /\ r = [phase |-> "running", after |-> after, next |-> j + 1, top |-> seq[s]]
    OBVIOUS
  <2>2. j \in DOMAIN log[s] /\ ShouldReplay(log[s][j], after)
    BY <1>1
  <2>3. w \in WireMsgs
    <3>1. log[s][j] \in Entries
      BY <2>2, LogParts
    <3>2. log[s][j].msg \in MsgIds /\ log[s][j].to \in Dests
      BY <2>2, <3>1 DEF Entries, ShouldReplay
    <3>. QED BY <2>1, <3>2, MessageOK
  <2>4. r \in Replays /\ r.after = after /\ r.phase = "running" /\ r.top = seq[s] /\ r.next = j + 1
    BY <1>1, <2>1, <2>2 DEF Replays
  <2>5. \A k \in DOMAIN l : k >= i /\ For(l[k], p) =>
          l[k].seq <= after \/ w = SMSG(l[k].msg, l[k].to) \/ k >= r.next
    <3>. SUFFICES ASSUME NEW k \in DOMAIN l, k >= i, For(l[k], p), ~(l[k].seq <= after)
                  PROVE  w = SMSG(l[k].msg, l[k].to) \/ k >= r.next
      OBVIOUS
    <3>1. k \in todo
      BY <1>1, <1>2, <1>3 DEF For, ShouldReplay
    <3>2. k = j \/ k >= j + 1
      BY <1>1, <1>3, <1>7, <2>2, <3>1
    <3>. QED BY <1>3, <2>1, <2>4, <3>2
  <2>6. Reply(w) /\ replay' = [replay EXCEPT ![s][p] = r]
    BY <1>7, <2>1
  <2>. HIDE DEF Reply
  <2>. QED BY <1>5, <2>3, <2>4, <2>5, <2>6
<1>. QED BY <1>6, <1>7 DEF ReplayFrom

LEMMA RecvBackfillHanded ==
  ASSUME Inv, Links, AllHanded, NEW s \in Servers, NEW p \in Servers, s # p, RecvBackfill(s, p)
  PROVE  AllHanded'
<1>. DEFINE at    == Incoming(s, p).at
            after == Effective(s, p, at)
            rest  == Tail(wire[p][s])
            first == 1
<1>1. Reads(s, p, "BACKFILL") /\ ReplayFrom(s, p, first, after, rest)
      /\ UNCHANGED <<seq, log, links, conn, got>>
  BY DEF RecvBackfill
<1>2. p \in links[s] /\ wire[p][s] # <<>> /\ \A e : Head(wire[p][s]) # SMSG(e.msg, e.to)
  BY <1>1, ReadsLinked DEF Reads, Incoming, SMSG
<1>3. Incoming(s, p) \in WireMsgs /\ Incoming(s, p).type = "BACKFILL"
  BY <1>1, IncomingOK DEF Inv
<1>4. at \in Nat /\ acked[s][p] \in Nat
  BY <1>3 DEF WireMsgs, Inv, TablesOK
<1>5. after \in Nat
  BY <1>4 DEF Effective
<1>6. first \in Nat \ {0} /\ \A k \in DOMAIN log[s] : ~(k < first)
  BY LenProperties DEF Inv, LogOK
<1>. HIDE DEF at, after, first
<1>. QED BY <1>1, <1>2, <1>5, <1>6, ReplayFromHanded

LEMMA ReplayStepHanded ==
  ASSUME Inv, AllHanded, NEW s \in Servers, NEW p \in Servers, s # p, ReplayStep(s, p)
  PROVE  AllHanded'
<1>1. PICK r : r = replay[s][p]
  OBVIOUS
<1>2. /\ r \in Replays /\ r.phase = "running" /\ seq[s] = r.top
      /\ ReplayFrom(s, p, r.next, r.after, wire[p][s])
      /\ UNCHANGED <<seq, log, links, conn, got>>
  BY <1>1 DEF ReplayStep, Inv, TablesOK
<1>3. r.next \in Nat \ {0} /\ r.after \in Nat
  BY <1>2 DEF Replays
<1>4. p \in links[s]
  BY <1>1, <1>2 DEF AllHanded, Handed
<1>5. DOMAIN log[s] = 1 .. Len(log[s]) /\ Len(log[s]) \in Nat
  BY LenProperties DEF Inv, LogOK
<1>6. ASSUME NEW k \in DOMAIN log[s], k < r.next, For(log[s][k], p), Readable(s, p)
      PROVE  \/ log[s][k].seq <= r.after \/ Delivered(log[s][k].msg, p)
             \/ Has(wire[s][p], SMSG(log[s][k].msg, log[s][k].to))
  <2>1. ~Ahead(k, s, p)
    BY <1>1, <1>2, <1>3, <1>5, <1>6 DEF Ahead
  <2>. QED BY <1>1, <1>2, <1>6, <2>1 DEF AllHanded, Handed, Passed
<1>. QED BY <1>2, <1>3, <1>4, <1>6, ReplayFromHanded

\* The end of a link ends the hand-over of both sides; the others are told of it.
LEMMA RemoveLinkHanded ==
  ASSUME Inv, AllHanded, NEW s \in Servers, NEW p \in Servers, s # p, RemoveLink(s, p)
  PROVE  AllHanded'
<1>1. /\ conn \in [Servers -> [Servers -> Nat]] /\ links \in [Servers -> SUBSET Servers]
      /\ wire \in [Servers -> [Servers -> Seq(WireMsgs)]]
      /\ replay \in [Servers -> [Servers -> Replays]] /\ seq \in [Servers -> Nat \ {0}]
  BY DEF Inv, TablesOK, WireOK, CountsOK
<1>2. /\ conn' = [conn EXCEPT ![s][p] = 0] /\ replay' = [replay EXCEPT ![s][p] = NoReplay]
      /\ got' = got
  BY DEF RemoveLink
<1>3. \A a, b \in Servers : a # s \/ b # p => conn'[a][b] = conn[a][b] /\ replay'[a][b] = replay[a][b]
  BY <1>1, <1>2
<1>4. conn'[s][p] = 0 /\ replay'[s][p].phase = "idle"
  BY <1>1, <1>2 DEF NoReplay
<1>5. \A a, b \in Servers : (a # s \/ b # p) /\ b \in links[a] => b \in links'[a]
  <2>1. links' = [links EXCEPT ![s] = @ \ {p}] \/ links' = links
    BY DEF RemoveLink
  <2>. QED BY <1>1, <2>1
<1>6. ~Readable(p, s)' /\ \A a, b \in Servers : Readable(a, b)' => Readable(a, b)
  BY <1>1, <1>3, <1>4 DEF Readable
<1>. DEFINE out == RelayTo(links[s] \ {p}, SEVENT)
<1>7. LogsFor(s, out)
  <2>1. CASE p \in links[s]
    <3>1. Emit(s, NoOrigin, NoMsg, Channel)
      BY <2>1 DEF RemoveLink
    <3>. HIDE DEF out
    <3>. QED BY <3>1, EmitFor DEF Origins, Dests
  <2>2. CASE p \notin links[s]
    BY <2>2, QuietFor DEF RemoveLink
  <2>. QED BY <2>1, <2>2
<1>8. \A b \in Servers : out[b] \in Seq(WireMsgs)
  BY MarkersOK, EmptyOK, OneOK DEF RelayTo
<1>9. ASSUME NEW a \in Servers, NEW b \in Servers, ~(a = p /\ b = s), NEW x, Readable(a, b),
             Has(wire[a][b], x)
      PROVE  Has(wire'[a][b], x)
  <2>1. CASE p \in links[s]
    <3>1. wire' = [wire EXCEPT ![p][s] = <<>>, ![s] = Written(s, out)]
      BY <2>1 DEF RemoveLink
    <3>. HIDE DEF out
    <3>2. wire'[a][b] = IF a = s THEN Written(s, out)[b] ELSE wire[a][b]
      BY <1>1, <1>9, <3>1
    <3>3. CASE a = s
      <4>1. wire'[a][b] = wire[a][b] \o out[b]
        BY <1>9, <3>2, <3>3 DEF Written
      <4>2. wire[a][b] \in Seq(WireMsgs) /\ out[b] \in Seq(WireMsgs)
        BY <1>1, <1>8
      <4>3. Has(wire[a][b] \o out[b], x)
        BY <1>9, <4>2, HasConcat
      <4>. QED BY <4>1, <4>3
    <3>. QED BY <1>9, <3>2, <3>3
  <2>2. CASE p \notin links[s]
    <3>1. wire' = [wire EXCEPT ![p][s] = <<>>]
      BY <2>2 DEF RemoveLink
    <3>2. wire'[a][b] = wire[a][b]
      BY <1>1, <1>9, <3>1
    <3>. QED BY <1>9, <3>2
  <2>. QED BY <2>1, <2>2
<1>10. ASSUME NEW a \in Servers, NEW b \in Servers, a # b, a # s \/ b # p PROVE Hands(a, b)
  <2>1. (seq'[a] = seq[a] /\ log'[a] = log[a]) \/ seq'[a] = seq[a] + 1
    BY <1>7 DEF LogsFor
  <2>2. ASSUME Readable(a, b)', b \in links[a], NEW i \in DOMAIN log'[a]
        PROVE  \/ \E k \in DOMAIN log[a] : log'[a][i] = log[a][k]
               \/ For(log'[a][i], b) => Has(wire'[a][b], SMSG(log'[a][i].msg, log'[a][i].to))
    <3>1. CASE log'[a] = log[a]
      BY <2>2, <3>1
    <3>2. CASE log'[a] # log[a]
      <4>1. a = s /\ p \in links[s]
        BY <3>2 DEF RemoveLink, Emit, Inv, LogOK
      <4>2. \A x : ~For([seq |-> seq[s] + 1, origin |-> NoOrigin, msg |-> NoMsg, to |-> Channel], x)
        BY DEF For
      <4>. DEFINE e == [seq |-> seq[s] + 1, origin |-> NoOrigin, msg |-> NoMsg, to |-> Channel]
      <4>3. log' = [log EXCEPT ![s] = Push(log[s], e)] /\ log \in [Servers -> Seq(Entries)] /\ e \in Entries
        <5>1. Emit(s, NoOrigin, NoMsg, Channel)
          BY <4>1 DEF RemoveLink
        <5>2. seq[s] \in Nat
          BY <1>1
        <5>3. e \in Entries
          BY <5>2 DEF Entries, Origins, Dests
        <5>4. log' = [log EXCEPT ![s] = Push(log[s], e)]
          BY <5>1 DEF Emit
        <5>. QED BY <5>3, <5>4 DEF Inv, LogOK
      <4>. HIDE DEF e
      <4>4. log'[s] = Push(log[s], e)
        BY <4>3
      <4>5. log'[a][i] = e \/ \E k \in DOMAIN log[s] : log'[a][i] = log[s][k]
        BY <2>2, <4>1, <4>3, <4>4, PushHolds
      <4>6. ~For(e, b)
        BY <4>2 DEF e
      <4>. QED BY <4>1, <4>5, <4>6
    <3>. QED BY <3>1, <3>2
  <2>3. Readable(a, b)' => ~(a = p /\ b = s)
    BY <1>6
  <2>4. \A m : Delivered(m, b) => Delivered(m, b)'
    BY <1>2 DEF Delivered
  <2>. QED BY <1>3, <1>5, <1>6, <1>9, <1>10, <2>1, <2>2, <2>3, <2>4 DEF Hands
<1>11. Handed(s, p)'
  BY <1>4 DEF Handed
<1>. QED BY <1>10, <1>11, Keeps DEF AllHanded

LEMMA ConnectHanded ==
  ASSUME Inv, Links, AllHanded, NEW s \in Servers, NEW p \in Servers, s # p, Connect(s, p)
  PROVE  AllHanded'
<1>1. /\ conn[s][p] = 0 /\ conn[p][s] = 0
      /\ conn' = [conn EXCEPT ![s][p] = conns + 1, ![p][s] = conns + 1]
      /\ wire' = [wire EXCEPT ![s][p] = <<SERVER>>, ![p][s] = <<>>]
      /\ UNCHANGED <<seq, log, links, replay, got>>
  BY DEF Connect
<1>2. /\ conn \in [Servers -> [Servers -> Nat]]
      /\ wire \in [Servers -> [Servers -> Seq(WireMsgs)]]
  BY DEF Inv, TablesOK, WireOK
<1>3. p \notin links[s] /\ s \notin links[p]
  BY <1>1 DEF Links
<1>4. ASSUME NEW a \in Servers, NEW b \in Servers, a # b PROVE Handed(a, b)'
  <2>1. CASE (a = s /\ b = p) \/ (a = p /\ b = s)
    <3>1. replay[a][b].phase = "idle"
      BY <1>3, <1>4, <2>1 DEF AllHanded, Handed
    <3>. QED BY <1>1, <3>1 DEF Handed
  <2>2. CASE ~((a = s /\ b = p) \/ (a = p /\ b = s))
    <3>1. wire'[a][b] = wire[a][b]
      BY <1>1, <1>2, <2>2
    <3>2. conn'[a][b] = conn[a][b]
      BY <1>1, <1>2, <2>2
    <3>3. conn'[b][a] = conn[b][a]
      BY <1>1, <1>2, <2>2
    <3>4. Hands(a, b)
      BY <1>1, <3>1, <3>2, <3>3 DEF Hands, Readable, Delivered
    <3>. QED BY <1>4, <3>4, Keeps DEF AllHanded
  <2>. QED BY <2>1, <2>2
<1>. QED BY <1>4 DEF AllHanded

LEMMA RestartHanded ==
  ASSUME Inv, AllHanded, NEW s \in Servers, Restart(s) PROVE AllHanded'
<1>1. /\ seq' = [seq EXCEPT ![s] = 1] /\ log' = [log EXCEPT ![s] = <<Wake>>]
      /\ links' = [links EXCEPT ![s] = {}]
      /\ replay' = [replay EXCEPT ![s] = [p \in Servers |-> NoReplay]]
      /\ conn' = [conn EXCEPT ![s] = [p \in Servers |-> 0]]
      /\ wire' = [q \in Servers |-> [wire[q] EXCEPT ![s] = <<>>]]
      /\ got' = got
  BY DEF Restart
<1>2. /\ conn \in [Servers -> [Servers -> Nat]] /\ links \in [Servers -> SUBSET Servers]
      /\ wire \in [Servers -> [Servers -> Seq(WireMsgs)]]
      /\ replay \in [Servers -> [Servers -> Replays]] /\ seq \in [Servers -> Nat \ {0}]
      /\ log \in [Servers -> Seq(Entries)]
  BY DEF Inv, TablesOK, WireOK, CountsOK, LogOK
<1>3. ASSUME NEW a \in Servers, NEW b \in Servers, a # b PROVE Handed(a, b)'
  <2>1. CASE a = s
    BY <1>1, <1>2, <2>1 DEF Handed, NoReplay
  <2>2. CASE a # s
    <3>1. /\ replay'[a][b] = replay[a][b] /\ links'[a] = links[a] /\ seq'[a] = seq[a]
          /\ log'[a] = log[a] /\ conn'[a][b] = conn[a][b]
      BY <1>1, <1>2, <2>2
    <3>2. Readable(a, b)' => b # s
      BY <1>1, <1>2, <2>2 DEF Readable
    <3>3. b # s => conn'[b][a] = conn[b][a] /\ wire'[a][b] = wire[a][b]
      BY <1>1, <1>2
    <3>4. Hands(a, b)
      BY <1>1, <3>1, <3>2, <3>3 DEF Hands, Readable, Delivered
    <3>. QED BY <1>3, <3>4, Keeps DEF AllHanded
  <2>. QED BY <2>1, <2>2
<1>. QED BY <1>3 DEF AllHanded

LEMMA InitHanded == Init => AllHanded
BY DEF Init, AllHanded, Handed, NoReplay

LEMMA NextHanded == Inv /\ Once /\ AllHanded /\ [Next]_vars => AllHanded'
<1>. SUFFICES ASSUME Inv, Links, AllHanded, [Next]_vars PROVE AllHanded'
  BY DEF Once
<1>1. ASSUME NEW s \in Servers, SendToChannel(s) \/ EmitLocal(s) \/ Restart(s) PROVE AllHanded'
  BY <1>1, SendToChannelHanded, EmitLocalHanded, RestartHanded
<1>2. ASSUME NEW s \in Servers, NEW p \in Servers \ {s},
             SendDirect(s, p) \/ Connect(s, p) \/ CloseEnd(s, p) \/ ReplayStep(s, p) \/ ReplayAbort(s, p)
      PROVE  AllHanded'
  BY <1>2, SendDirectHanded, ConnectHanded, RemoveLinkHanded, ReplayStepHanded DEF CloseEnd, ReplayAbort
<1>3. ASSUME NEW s \in Servers, NEW p \in Servers \ {s}, Receive(s, p) PROVE AllHanded'
  BY <1>3, RecvServerHanded, RecvEventHanded, RecvMessageHanded, RecvBackfillHanded,
     RecvBackfillEndHanded DEF Receive
<1>4. CASE UNCHANGED vars
  <2>1. ASSUME NEW a \in Servers, NEW b \in Servers PROVE Hands(a, b)
    BY <1>4 DEF vars, Hands, Readable, Delivered
  <2>. QED BY <2>1, Keeps DEF AllHanded
<1>. QED BY <1>1, <1>2, <1>3, <1>4 DEF Next

LEMMA HandedImpliesNoGap == Inv /\ AllHanded => NoGap
<1>. SUFFICES ASSUME Inv, AllHanded, NEW s \in Servers, NEW p \in Servers \ {s}, Readable(s, p),
                     replay[s][p].phase # "idle", NEW i \in Outgoing(s, p)
              PROVE  \/ log[s][i].seq <= replay[s][p].after
                     \/ Delivered(log[s][i].msg, p)
                     \/ InFlight(log[s][i].msg, s, p)
                     \/ replay[s][p].phase = "running"
                        /\ (i >= replay[s][p].next \/ seq[s] # replay[s][p].top)
  BY DEF NoGap
<1>1. i \in DOMAIN log[s] /\ For(log[s][i], p)
  BY DEF Outgoing, For
<1>2. Passed(log[s][i], s, p) \/ Ahead(i, s, p)
  BY <1>1 DEF AllHanded, Handed
<1>3. \A m, to : Has(wire[s][p], SMSG(m, to)) => InFlight(m, s, p)
  BY DEF Has, InFlight, SMSG
<1>. QED BY <1>2, <1>3 DEF Passed, Ahead

LEMMA HandedInvariant == Spec => []AllHanded
BY InitHanded, NextHanded, OnceInvariant, PTL DEF Spec

\* The hand-over from the replay of a backlog to the live relay has no gap, whatever is sent,
\* logged, dropped from the log, cut off or restarted while a replay is suspended.
THEOREM HandOverComplete == Spec => []NoGap
BY HandedInvariant, Invariance, HandedImpliesNoGap, PTL

=============================================================================
