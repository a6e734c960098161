--------------------------- MODULE PresenceProofs ---------------------------
(***************************************************************************)
(* Proofs about Presence, for any servers, users, channels, trust policy   *)
(* and bounds: first the types with what a server knows and holds (Inv),   *)
(* then what it tells of whom (Discreet), then what a peer will have once  *)
(* it has read everything (Aligned).                                       *)
(***************************************************************************)
EXTENDS Presence, SequenceTheorems, WellFoundedInduction, TLAPS

\* A channel of well-typed fields whose members are among K.
ChannelOf(ch, K) == ch \in Channel /\ ch.members \subseteq K

KnownAt(s) == online[s] \cup remote[s]

\* TypeOK, in the groups that the actions change together, with MembersKnown.
TablesOK == /\ online \in [Servers -> SUBSET Nicks]
            /\ remote \in [Servers -> SUBSET Nicks]
            /\ chan   \in [Servers -> [Chans -> Channel]]
            /\ \A s \in Servers : \A c \in Chans : ChannelOf(chan[s][c], KnownAt(s))
NetOK    == /\ state  \in [Servers -> [Servers -> {"down", "open", "linked"}]]
            /\ dialed \in [Servers -> SUBSET Servers]
            /\ wire   \in [Servers -> [Servers -> Seq(WireMsgs)]]
CountsOK == /\ steps \in Nat
            /\ conns \in Nat
            /\ odd   \in SUBSET Nicks
TracksOK == /\ steady \in [Servers -> [Servers -> SUBSET Chans]]
            /\ shown  \in [Servers -> [Servers -> SUBSET (Chans \X Nicks)]]

\* A server that has not registered its link to a peer reads SERVER first: it is
\* on the wire, or the peer is still to answer.
HelloAt(s, p) == state[s][p] = "open" =>
                   \/ wire[p][s] # <<>> /\ Head(wire[p][s]) = SERVER
                   \/ wire[p][s] = <<>> /\ state[p][s] # "linked" /\ s \notin dialed[p]
HelloFirst == \A s \in Servers : \A p \in Servers \ {s} : HelloAt(s, p)

\* RemoteLinked, and that the remote users are not the server's own.
RemoteAt(s) == \A n \in remote[s] : Home[n] # s /\ state[s][Home[n]] = "linked"
RemotesOK   == \A s \in Servers : RemoteAt(s)

\* The inductive invariant, but for the two histories of policy.
Inv == TablesOK /\ NetOK /\ CountsOK /\ HelloFirst /\ RemotesOK

-----------------------------------------------------------------------------
(* Channels. *)

\* Of any candidates one is the least.
LEMMA LeastIn ==
  ASSUME NEW N \in SUBSET Nicks, N # {}
  PROVE  Least(N) \in N
<1>. DEFINE T == {Rank[n] : n \in N}
            Lt == OpToRel(<, Nat)
<1>1. T \subseteq Nat /\ T # {}
  BY RankAssumption
<1>2. PICK x \in T : \A y \in T : ~(<<y, x>> \in Lt)
  <2>. HIDE DEF T
  <2>1. IsWellFoundedOn(Lt, Nat)
    BY NatLessThanWellFounded
  <2>. HIDE DEF Lt
  <2>. QED BY <1>1, <2>1, WFMin
<1>3. PICK n \in N : Rank[n] = x
  OBVIOUS
<1>4. \A m \in N : Rank[n] <= Rank[m]
  <2>. SUFFICES ASSUME NEW m \in N PROVE Rank[n] <= Rank[m]
    OBVIOUS
  <2>1. Rank[m] \in Nat /\ x \in Nat
    BY <1>1, RankAssumption
  <2>2. ~(<<Rank[m], x>> \in Lt)
    BY <1>2
  <2>3. ~(Rank[m] < x)
    BY <2>1, <2>2 DEF OpToRel
  <2>. QED BY <1>3, <2>1, <2>3
<1>. QED BY <1>4 DEF Least

LEMMA PromotedType ==
  ASSUME NEW operators \in SUBSET Nicks, NEW candidates \in SUBSET Nicks
  PROVE  Promoted(operators, candidates) \in SUBSET Nicks
BY LeastIn DEF Promoted

LEMMA NoChannelOK == \A K : ChannelOf(NoChannel, K)
BY DEF ChannelOf, NoChannel, Channel

LEMMA LocalType ==
  ASSUME NEW s, NEW ch \in Channel
  PROVE  Local(s, ch) \in SUBSET Nicks
BY DEF Local, Channel

\* Who is added is the only new member.
LEMMA WithMemberOK ==
  ASSUME NEW s, NEW n \in Nicks, NEW K, NEW ch, ChannelOf(ch, K)
  PROVE  ChannelOf(WithMember(s, ch, n), K \cup {n})
BY DEF ChannelOf, WithMember, Created, Channel

\* Who is removed is a member no more, and nobody becomes one.
LEMMA WithoutMemberOK ==
  ASSUME NEW s, NEW n \in Nicks, NEW K, NEW ch, ChannelOf(ch, K)
  PROVE  ChannelOf(WithoutMember(s, ch, n), K \ {n})
<1>. DEFINE ops == IF n \in ch.operators
                   THEN Promoted(ch.operators \ {n}, Local(s, ch) \ {n}) ELSE ch.operators
<1>1. ops \in SUBSET Nicks
  <2>1. ch.operators \ {n} \in SUBSET Nicks /\ ch.operators \in SUBSET Nicks
    BY DEF ChannelOf, Channel
  <2>2. Local(s, ch) \ {n} \in SUBSET Nicks
    BY LocalType DEF ChannelOf
  <2>. QED BY <2>1, <2>2, PromotedType
<1>. HIDE DEF ops
<1>2. ChannelOf([ch EXCEPT !.members = @ \ {n}, !.operators = ops], K \ {n})
  BY <1>1 DEF ChannelOf, Channel
<1>3. n \notin ch.members => ChannelOf(ch, K \ {n})
  BY DEF ChannelOf
<1>. QED BY <1>2, <1>3, NoChannelOK DEF WithoutMember, ops

LEMMA WithoutRemoteOK ==
  ASSUME NEW N, NEW K, NEW ch, ChannelOf(ch, K)
  PROVE  ChannelOf(WithoutRemote(ch, N), K \ N)
<1>1. ch.members \cap N = {} => ChannelOf(ch, K \ N)
  BY DEF ChannelOf
<1>2. ChannelOf([ch EXCEPT !.members = @ \ N], K \ N)
  BY DEF ChannelOf, Channel
<1>. QED BY <1>1, <1>2, NoChannelOK DEF WithoutRemote

LEMMA JoinedOK ==
  ASSUME NEW s, NEW p, NEW N \in SUBSET Nicks, NEW users, NEW K, users \subseteq K, NEW ch,
         ChannelOf(ch, K)
  PROVE  ChannelOf(Joined(s, p, ch, N, users), K)
BY DEF ChannelOf, Channel, Joined, Created

LEMMA WithMetaOK ==
  ASSUME NEW s, NEW p, NEW x \in BOOLEAN, NEW K, NEW ch, ChannelOf(ch, K)
  PROVE  ChannelOf(WithMeta(s, p, ch, x), K)
BY DEF ChannelOf, Channel, WithMeta, Created

-----------------------------------------------------------------------------
(* The tables of one server. *)

\* A server's tables may change together if its channels hold users it knows.
LEMMA TablesStep ==
  ASSUME TablesOK, NEW s \in Servers, NEW L \in SUBSET Nicks, NEW R \in SUBSET Nicks,
         NEW new \in [Chans -> Channel], \A c \in Chans : ChannelOf(new[c], L \cup R),
         online' = [online EXCEPT ![s] = L], remote' = [remote EXCEPT ![s] = R],
         chan' = [chan EXCEPT ![s] = new]
  PROVE  TablesOK'
<1>1. /\ online' \in [Servers -> SUBSET Nicks] /\ remote' \in [Servers -> SUBSET Nicks]
      /\ chan' \in [Servers -> [Chans -> Channel]]
  BY DEF TablesOK
<1>2. \A t \in Servers : \A c \in Chans : ChannelOf(chan'[t][c], online'[t] \cup remote'[t])
  <2>1. online'[s] = L /\ remote'[s] = R /\ chan'[s] = new
    BY DEF TablesOK
  <2>2. ASSUME NEW t \in Servers \ {s}
        PROVE  online'[t] = online[t] /\ remote'[t] = remote[t] /\ chan'[t] = chan[t]
    BY DEF TablesOK
  <2>. QED BY <2>1, <2>2 DEF TablesOK, KnownAt
<1>. QED BY <1>1, <1>2 DEF TablesOK, KnownAt

\* One of its channels alone may change.
LEMMA ChannelStep ==
  ASSUME TablesOK, NEW s \in Servers, NEW c \in Chans, NEW ch, ChannelOf(ch, KnownAt(s)),
         UNCHANGED <<online, remote>>, chan' = [chan EXCEPT ![s][c] = ch]
  PROVE  TablesOK'
<1>. DEFINE new == [chan[s] EXCEPT ![c] = ch]
<1>1. new \in [Chans -> Channel] /\ chan' = [chan EXCEPT ![s] = new]
  BY DEF TablesOK, ChannelOf
<1>2. \A d \in Chans : ChannelOf(new[d], online[s] \cup remote[s])
  BY DEF TablesOK, KnownAt
<1>3. online[s] \in SUBSET Nicks /\ remote[s] \in SUBSET Nicks
  BY DEF TablesOK
<1>4. online' = [online EXCEPT ![s] = online[s]] /\ remote' = [remote EXCEPT ![s] = remote[s]]
  BY DEF TablesOK
<1>. HIDE DEF new
<1>. QED BY <1>1, <1>2, <1>3, <1>4, TablesStep

-----------------------------------------------------------------------------
(* The wire. *)

LEMMA EmptyOK == ASSUME NEW S PROVE <<>> \in Seq(S)
OBVIOUS

LEMMA OneOK == ASSUME NEW S, NEW e \in S PROVE <<e>> \in Seq(S)
OBVIOUS

LEMMA ConcatOK ==
  ASSUME NEW S, NEW t \in Seq(S), NEW u \in Seq(S)
  PROVE  /\ t \o u \in Seq(S)
         /\ t # <<>> => t \o u # <<>> /\ Head(t \o u) = Head(t)
         /\ u = <<>> => t \o u = t
BY ConcatProperties

LEMMA TailOK == ASSUME NEW S, NEW t \in Seq(S), t # <<>> PROVE Tail(t) \in Seq(S) /\ Head(t) \in S
BY HeadTailProperties

LEMMA MessagesOK ==
  /\ SERVER \in WireMsgs
  /\ \A n \in Nicks : SNICK(n) \in WireMsgs /\ SQUITUSER(n) \in WireMsgs
  /\ \A n \in Nicks, c \in Chans : SJOIN(c, n) \in WireMsgs /\ SPART(c, n) \in WireMsgs
  /\ \A c \in Chans, x \in BOOLEAN : SROOMMETA(c, x) \in WireMsgs
  /\ \A N \in SUBSET Nicks, J \in [Chans -> SUBSET Nicks], M \in SUBSET (Chans \X BOOLEAN) :
       BURST(N, J, M) \in WireMsgs
BY DEF SERVER, SNICK, SQUITUSER, SJOIN, SPART, SROOMMETA, BURST, WireMsgs

\* What s may write: nothing to a peer it has not registered.
ToRegistered(s, out) ==
  \A q \in Servers : out[q] \in Seq(WireMsgs) /\ (state[s][q] # "linked" => out[q] = <<>>)

\* Written adds to the queues from s, and only after what is there.
LEMMA WrittenOK ==
  ASSUME NetOK, NEW s \in Servers, NEW out, \A q \in Servers : out[q] \in Seq(WireMsgs)
  PROVE  /\ Written(s, out) \in [Servers -> [Servers -> Seq(WireMsgs)]]
         /\ \A r \in Servers \ {s} : Written(s, out)[r] = wire[r]
         /\ \A q \in Servers :
              /\ wire[s][q] # <<>> => /\ Written(s, out)[s][q] # <<>>
                                      /\ Head(Written(s, out)[s][q]) = Head(wire[s][q])
              /\ out[q] = <<>> => Written(s, out)[s][q] = wire[s][q]
<1>. DEFINE row == [p \in Servers |-> IF state[p][s] # "down" THEN wire[s][p] \o out[p]
                                      ELSE wire[s][p]]
<1>1. ASSUME NEW q \in Servers
      PROVE  /\ row[q] \in Seq(WireMsgs)
             /\ wire[s][q] # <<>> => row[q] # <<>> /\ Head(row[q]) = Head(wire[s][q])
             /\ out[q] = <<>> => row[q] = wire[s][q]
  <2>1. wire[s][q] \in Seq(WireMsgs) /\ out[q] \in Seq(WireMsgs)
    BY DEF NetOK
  <2>2. LET t == wire[s][q] \o out[q] IN
          /\ t \in Seq(WireMsgs)
          /\ wire[s][q] # <<>> => t # <<>> /\ Head(t) = Head(wire[s][q])
          /\ out[q] = <<>> => t = wire[s][q]
    BY <2>1, ConcatOK
  <2>. QED BY <2>1, <2>2
<1>2. row \in [Servers -> Seq(WireMsgs)]
  BY <1>1
<1>3. Written(s, out) = [wire EXCEPT ![s] = row]
  BY DEF Written
<1>. HIDE DEF row
<1>. QED BY <1>1, <1>2, <1>3 DEF NetOK

\* What follows SERVER on the wire does not come before it.
LEMMA AnnounceOK ==
  ASSUME NetOK, HelloFirst, NEW s \in Servers, NEW out, ToRegistered(s, out), Announce(out, s)
  PROVE  NetOK' /\ HelloFirst'
<1>1. wire' = Written(s, out) /\ UNCHANGED <<state, dialed>>
  BY DEF Announce
<1>2. NetOK'
  BY <1>1, WrittenOK DEF NetOK, ToRegistered
<1>3. ASSUME NEW r \in Servers, NEW p \in Servers \ {r}
      PROVE  HelloAt(r, p)'
  <2>1. CASE p # s
    <3>1. wire'[p] = wire[p]
      BY <1>1, <2>1, WrittenOK DEF ToRegistered
    <3>. QED BY <1>1, <3>1 DEF HelloFirst, HelloAt
  <2>2. CASE p = s
    <3>1. /\ wire[s][r] # <<>> => wire'[s][r] # <<>> /\ Head(wire'[s][r]) = Head(wire[s][r])
          /\ state[s][r] # "linked" => wire'[s][r] = wire[s][r]
      BY <1>1, WrittenOK DEF ToRegistered
    <3>. QED BY <1>1, <2>2, <3>1 DEF HelloFirst, HelloAt
  <2>. QED BY <2>1, <2>2
<1>. QED BY <1>2, <1>3 DEF HelloFirst

\* What s announces to all its peers, or to those that policy lets see c.
LEMMA ToAllOK ==
  ASSUME NEW s \in Servers, NEW w \in WireMsgs
  PROVE  ToRegistered(s, ToAll(s, w))
BY EmptyOK, OneOK DEF ToRegistered, ToAll, Peers

LEMMA RelayedOK ==
  ASSUME NEW s \in Servers, NEW c, NEW w \in WireMsgs
  PROVE  ToRegistered(s, Relayed(s, c, w))
BY EmptyOK, OneOK DEF ToRegistered, Relayed, Peers

-----------------------------------------------------------------------------
(* The inductive invariant: clients. *)

LEMMA InitInv == Init => Inv /\ TracksOK
<1>. SUFFICES ASSUME Init PROVE Inv /\ TracksOK
  OBVIOUS
<1>1. TablesOK
  BY NoChannelOK DEF Init, TablesOK, KnownAt, ChannelOf
<1>2. NetOK
  BY EmptyOK DEF Init, NetOK
<1>3. HelloFirst /\ RemotesOK
  BY DEF Init, HelloFirst, HelloAt, RemotesOK, RemoteAt
<1>. QED BY <1>1, <1>2, <1>3 DEF Init, Inv, CountsOK, TracksOK

\* A step of a client changes one server's tables and announces, or not.
LEMMA ClientStep ==
  ASSUME Inv, Step, NEW s \in Servers, TablesOK', remote' = remote,
         odd' \in SUBSET Nicks,
         \/ UNCHANGED net
         \/ \E out : ToRegistered(s, out) /\ Announce(out, s)
  PROVE  Inv'
<1>1. NetOK' /\ HelloFirst' /\ UNCHANGED <<state, conns>>
  <2>1. CASE UNCHANGED net
    BY <2>1 DEF Inv, net, NetOK, HelloFirst, HelloAt
  <2>2. ASSUME NEW out, ToRegistered(s, out), Announce(out, s)
        PROVE  NetOK' /\ HelloFirst' /\ UNCHANGED <<state, conns>>
    BY <2>2, AnnounceOK DEF Inv, Announce
  <2>. QED BY <2>1, <2>2
<1>2. CountsOK'
  BY <1>1 DEF Inv, CountsOK, Step
<1>3. RemotesOK'
  BY <1>1 DEF Inv, RemotesOK, RemoteAt
<1>. QED BY <1>1, <1>2, <1>3 DEF Inv

LEMMA RegisterInv ==
  ASSUME Inv, NEW s \in Servers, NEW n \in Nicks, Register(s, n) PROVE Inv'
<1>1. TablesOK'
  <2>1. /\ online' = [online EXCEPT ![s] = online[s] \cup {n}]
        /\ remote' = [remote EXCEPT ![s] = remote[s]] /\ chan' = [chan EXCEPT ![s] = chan[s]]
    BY DEF Inv, TablesOK, Register
  <2>2. online[s] \cup {n} \in SUBSET Nicks /\ remote[s] \in SUBSET Nicks
    BY DEF Inv, TablesOK
  <2>3. /\ chan[s] \in [Chans -> Channel]
        /\ \A c \in Chans : ChannelOf(chan[s][c], (online[s] \cup {n}) \cup remote[s])
    BY DEF Inv, TablesOK, KnownAt, ChannelOf
  <2>. QED BY <2>1, <2>2, <2>3, TablesStep DEF Inv
<1>2. ToRegistered(s, ToAll(s, SNICK(n)))
  BY MessagesOK, ToAllOK
<1>3. Step /\ Announce(ToAll(s, SNICK(n)), s) /\ UNCHANGED <<remote, odd>>
  BY DEF Register
<1>. QED BY <1>1, <1>2, <1>3, ClientStep DEF Inv, CountsOK

LEMMA RenameInv ==
  ASSUME Inv, NEW s \in Servers, NEW n \in Nicks, NEW m \in Nicks, Rename(s, n, m) PROVE Inv'
<1>. DEFINE Now(N) == {IF x = n THEN m ELSE x : x \in N}
            new    == [c \in Chans |-> [chan[s][c] EXCEPT !.members = Now(@), !.operators = Now(@)]]
<1>1. TablesOK'
  <2>1. /\ online' = [online EXCEPT ![s] = Now(online[s])]
        /\ remote' = [remote EXCEPT ![s] = remote[s]] /\ chan' = [chan EXCEPT ![s] = new]
    BY DEF Inv, TablesOK, Rename
  <2>2. Now(online[s]) \in SUBSET Nicks /\ remote[s] \in SUBSET Nicks
    BY DEF Inv, TablesOK
  <2>3. ASSUME NEW c \in Chans
        PROVE  ChannelOf(new[c], Now(online[s]) \cup remote[s])
    <3>1. chan[s][c] \in Channel /\ chan[s][c].members \subseteq online[s] \cup remote[s]
      BY DEF Inv, TablesOK, KnownAt, ChannelOf
    <3>2. n \in online[s]
      BY DEF Rename
    <3>3. Now(chan[s][c].members) \subseteq Now(online[s]) \cup remote[s]
      BY <3>1, <3>2
    <3>4. Now(chan[s][c].members) \in SUBSET Nicks /\ Now(chan[s][c].operators) \in SUBSET Nicks
      BY <3>1 DEF Channel
    <3>. HIDE DEF Now
    <3>. QED BY <3>1, <3>3, <3>4 DEF ChannelOf, Channel
  <2>4. new \in [Chans -> Channel]
    BY <2>3 DEF ChannelOf
  <2>. HIDE DEF new
  <2>. HIDE DEF Now
  <2>. QED BY <2>1, <2>2, <2>3, <2>4, TablesStep DEF Inv
<1>2. Step /\ UNCHANGED net /\ UNCHANGED remote /\ odd' = odd \cup {n, m}
  BY DEF Rename
<1>. QED BY <1>1, <1>2, ClientStep DEF Inv, CountsOK

LEMMA JoinInv ==
  ASSUME Inv, NEW s \in Servers, NEW n \in Nicks, NEW c \in Chans, Join(s, n, c) PROVE Inv'
<1>. DEFINE out == [p \in Servers |-> IF p \in Peers(s) /\ Shared(s, p, chan[s][c])
                                      THEN <<SJOIN(c, n)>> ELSE <<>>]
<1>1. TablesOK'
  <2>1. n \in online[s] /\ ChannelOf(chan[s][c], KnownAt(s))
    BY DEF Join, Inv, TablesOK
  <2>2. ChannelOf(WithMember(s, chan[s][c], n), KnownAt(s) \cup {n})
    BY <2>1, WithMemberOK
  <2>3. KnownAt(s) \cup {n} = KnownAt(s)
    BY <2>1 DEF KnownAt
  <2>4. chan' = [chan EXCEPT ![s][c] = WithMember(s, chan[s][c], n)]
        /\ UNCHANGED <<online, remote>>
    BY DEF Join, Inv, TablesOK
  <2>. QED BY <2>2, <2>3, <2>4, ChannelStep DEF Inv
<1>2. ToRegistered(s, out)
  BY MessagesOK, EmptyOK, OneOK DEF ToRegistered, Peers
<1>3. Step /\ Announce(out, s) /\ UNCHANGED <<remote, odd>>
  BY DEF Join
<1>. HIDE DEF out
<1>. QED BY <1>1, <1>2, <1>3, ClientStep DEF Inv, CountsOK

LEMMA PartInv ==
  ASSUME Inv, NEW s \in Servers, NEW n \in Nicks, NEW c \in Chans, Part(s, n, c) PROVE Inv'
<1>1. TablesOK'
  <2>1. ChannelOf(chan[s][c], KnownAt(s))
    BY DEF Inv, TablesOK
  <2>2. ChannelOf(WithoutMember(s, chan[s][c], n), KnownAt(s))
    BY <2>1, WithoutMemberOK DEF ChannelOf
  <2>3. chan' = [chan EXCEPT ![s][c] = WithoutMember(s, chan[s][c], n)]
        /\ UNCHANGED <<online, remote>>
    BY DEF Part, Inv, TablesOK
  <2>. QED BY <2>2, <2>3, ChannelStep DEF Inv
<1>2. ToRegistered(s, Relayed(s, c, SPART(c, n)))
  BY MessagesOK, RelayedOK
<1>3. Step /\ Announce(Relayed(s, c, SPART(c, n)), s) /\ UNCHANGED <<remote, odd>>
  BY DEF Part
<1>. QED BY <1>1, <1>2, <1>3, ClientStep DEF Inv, CountsOK

\* Who is removed is in no channel of its server.
LEMMA RemovedOK ==
  ASSUME Inv, NEW s \in Servers, NEW n \in Nicks, Removed(s, n), remote' = remote
  PROVE  TablesOK'
<1>. DEFINE new == [c \in Chans |-> WithoutMember(s, chan[s][c], n)]
<1>1. /\ online' = [online EXCEPT ![s] = online[s] \ {n}]
      /\ remote' = [remote EXCEPT ![s] = remote[s]] /\ chan' = [chan EXCEPT ![s] = new]
  BY DEF Inv, TablesOK, Removed
<1>2. online[s] \ {n} \in SUBSET Nicks /\ remote[s] \in SUBSET Nicks
  BY DEF Inv, TablesOK
<1>3. ASSUME NEW c \in Chans
      PROVE  ChannelOf(new[c], (online[s] \ {n}) \cup remote[s])
  <2>1. ChannelOf(chan[s][c], KnownAt(s))
    BY DEF Inv, TablesOK
  <2>2. ChannelOf(WithoutMember(s, chan[s][c], n), KnownAt(s) \ {n})
    BY <2>1, WithoutMemberOK
  <2>. QED BY <2>2 DEF KnownAt, ChannelOf
<1>4. new \in [Chans -> Channel]
  BY <1>3 DEF ChannelOf
<1>. HIDE DEF new
<1>. QED BY <1>1, <1>2, <1>3, <1>4, TablesStep DEF Inv

LEMMA QuitInv ==
  ASSUME Inv, NEW s \in Servers, NEW n \in Nicks, Quit(s, n) PROVE Inv'
<1>1. TablesOK'
  BY RemovedOK DEF Quit
<1>2. ToRegistered(s, ToAll(s, SQUITUSER(n)))
  BY MessagesOK, ToAllOK
<1>3. Step /\ Announce(ToAll(s, SQUITUSER(n)), s) /\ UNCHANGED <<remote, odd>>
  BY DEF Quit
<1>. QED BY <1>1, <1>2, <1>3, ClientStep DEF Inv, CountsOK

LEMMA VanishInv ==
  ASSUME Inv, NEW s \in Servers, NEW n \in Nicks, Vanish(s, n) PROVE Inv'
<1>1. TablesOK'
  BY RemovedOK DEF Vanish
<1>2. Step /\ UNCHANGED net /\ UNCHANGED remote /\ odd' = odd \cup {n}
  BY DEF Vanish
<1>. QED BY <1>1, <1>2, ClientStep DEF Inv, CountsOK

LEMMA RoomCreateInv ==
  ASSUME Inv, NEW s \in Servers, NEW n \in Nicks, NEW c \in Chans, NEW x \in BOOLEAN,
         RoomCreate(s, n, c, x)
  PROVE  Inv'
<1>. DEFINE ch  == [WithMember(s, chan[s][c], n) EXCEPT !.managed = TRUE, !.persistent = x]
            out == [p \in Servers |-> IF p \in Peers(s) /\ Shared(s, p, NoChannel)
                                      THEN <<SROOMMETA(c, x)>> ELSE <<>>]
<1>1. TablesOK'
  <2>1. n \in online[s] /\ ChannelOf(chan[s][c], KnownAt(s))
    BY DEF RoomCreate, Inv, TablesOK
  <2>2. ChannelOf(WithMember(s, chan[s][c], n), KnownAt(s) \cup {n})
    BY <2>1, WithMemberOK
  <2>3. ChannelOf(ch, KnownAt(s))
    BY <2>1, <2>2 DEF ChannelOf, Channel, KnownAt
  <2>4. chan' = [chan EXCEPT ![s][c] = ch] /\ UNCHANGED <<online, remote>>
    BY DEF RoomCreate, Inv, TablesOK
  <2>. HIDE DEF ch
  <2>. QED BY <2>3, <2>4, ChannelStep DEF Inv
<1>2. ToRegistered(s, out)
  BY MessagesOK, EmptyOK, OneOK DEF ToRegistered, Peers
<1>3. Step /\ Announce(out, s) /\ UNCHANGED remote /\ odd' = odd \cup {n}
  BY DEF RoomCreate
<1>. HIDE DEF out
<1>. QED BY <1>1, <1>2, <1>3, ClientStep DEF Inv, CountsOK

\* MODE changes the policy or the operators of a channel that keeps its members,
\* and tells no link; CHANARCHIVE likewise.
LEMMA ModeStep ==
  ASSUME Inv, Step, NEW s \in Servers, NEW c \in Chans, NEW ch \in Channel,
         ch.members = chan[s][c].members, chan' = [chan EXCEPT ![s][c] = ch],
         UNCHANGED <<online, remote, odd, net>>
  PROVE  Inv'
<1>1. ChannelOf(ch, KnownAt(s))
  BY DEF Inv, TablesOK, ChannelOf
<1>2. TablesOK'
  BY <1>1, ChannelStep DEF Inv
<1>. QED BY <1>2, ClientStep DEF Inv, CountsOK

LEMMA SetPolicyInv ==
  ASSUME Inv, NEW s \in Servers, NEW n \in Nicks, NEW c \in Chans, NEW x \in BOOLEAN,
         NEW S \in SUBSET Servers, SetPolicy(s, n, c, x, S)
  PROVE  Inv'
<1>. DEFINE ch == [chan[s][c] EXCEPT !.restricted = x, !.shared_with = S]
<1>1. chan[s][c] \in Channel
  BY DEF Inv, TablesOK
<1>2. ch \in Channel /\ ch.members = chan[s][c].members
  BY <1>1 DEF Channel
<1>3. chan' = [chan EXCEPT ![s][c] = ch]
  BY DEF SetPolicy, Inv, TablesOK
<1>4. Step /\ UNCHANGED <<online, remote, odd, net>>
  BY DEF SetPolicy
<1>. HIDE DEF ch
<1>. QED BY <1>2, <1>3, <1>4, ModeStep

LEMMA SetOperatorsInv ==
  ASSUME Inv, NEW s \in Servers, NEW n \in Nicks, NEW c \in Chans, NEW m \in Nicks,
         SetOperators(s, n, c, m)
  PROVE  Inv'
<1>. DEFINE old == chan[s][c].operators
            ops == IF m \in old THEN Promoted(old \ {m}, chan[s][c].members) ELSE old \cup {m}
            ch  == [chan[s][c] EXCEPT !.operators = ops]
<1>1. chan[s][c] \in Channel
  BY DEF Inv, TablesOK
<1>2. ops \in SUBSET Nicks
  <2>1. old \in SUBSET Nicks /\ chan[s][c].members \in SUBSET Nicks
    BY <1>1 DEF Channel
  <2>. QED BY <2>1, PromotedType
<1>. HIDE DEF ops
<1>3. ch \in Channel /\ ch.members = chan[s][c].members
  BY <1>1, <1>2 DEF Channel
<1>4. chan' = [chan EXCEPT ![s][c] = ch]
  BY DEF SetOperators, Inv, TablesOK, ops
<1>5. Step /\ UNCHANGED <<online, remote, odd, net>>
  BY DEF SetOperators
<1>. HIDE DEF ch
<1>. QED BY <1>3, <1>4, <1>5, ModeStep

LEMMA ChanArchiveInv ==
  ASSUME Inv, NEW s \in Servers, NEW n \in Nicks, NEW c \in Chans, ChanArchive(s, n, c)
  PROVE  Inv'
<1>. DEFINE ch == [chan[s][c] EXCEPT !.archived = TRUE, !.persistent = TRUE]
<1>1. chan[s][c] \in Channel
  BY DEF Inv, TablesOK
<1>2. ch \in Channel /\ ch.members = chan[s][c].members
  BY <1>1 DEF Channel
<1>3. chan' = [chan EXCEPT ![s][c] = ch]
  BY DEF ChanArchive, Inv, TablesOK
<1>4. Step /\ UNCHANGED <<online, remote, odd, net>>
  BY DEF ChanArchive
<1>. HIDE DEF ch
<1>. QED BY <1>2, <1>3, <1>4, ModeStep

LEMMA ClientInv ==
  ASSUME Inv, NEW s \in Servers, NEW n \in Nicks, Client(s, n) PROVE Inv'
BY RegisterInv, QuitInv, VanishInv, RenameInv, JoinInv, PartInv, ChanArchiveInv, RoomCreateInv,
   SetPolicyInv, SetOperatorsInv DEF Client

-----------------------------------------------------------------------------
(* The inductive invariant: links. *)

LEMMA ConnectInv ==
  ASSUME Inv, NEW s \in Servers, NEW p \in Servers \ {s}, Connect(s, p) PROVE Inv'
<1>1. /\ state'  = [state EXCEPT ![s][p] = "open", ![p][s] = "open"]
      /\ dialed' = [dialed EXCEPT ![s] = dialed[s] \cup {p}, ![p] = dialed[p] \ {s}]
      /\ wire'   = [wire EXCEPT ![s][p] = <<SERVER>>, ![p][s] = <<>>]
      /\ state[s][p] = "down" /\ state[p][s] = "down"
  BY DEF Connect, Inv, NetOK
<1>2. NetOK'
  <2>1. <<SERVER>> \in Seq(WireMsgs) /\ <<>> \in Seq(WireMsgs)
    BY MessagesOK, OneOK, EmptyOK
  <2>. QED BY <1>1, <2>1 DEF Inv, NetOK
<1>3. HelloFirst'
  <2>. SUFFICES ASSUME NEW r \in Servers, NEW q \in Servers \ {r} PROVE HelloAt(r, q)'
    BY DEF HelloFirst
  <2>1. CASE r = p /\ q = s
    <3>1. wire'[s][p] = <<SERVER>>
      BY <1>1 DEF Inv, NetOK
    <3>. QED BY <2>1, <3>1 DEF HelloAt
  <2>2. CASE r = s /\ q = p
    <3>1. wire'[p][s] = <<>> /\ state'[p][s] = "open" /\ s \notin dialed'[p]
      BY <1>1 DEF Inv, NetOK
    <3>. QED BY <2>2, <3>1 DEF HelloAt
  <2>3. CASE ~(r = p /\ q = s) /\ ~(r = s /\ q = p)
    <3>1. /\ state'[r][q] = state[r][q] /\ state'[q][r] = state[q][r]
          /\ wire'[q][r] = wire[q][r] /\ (r \in dialed'[q] => r \in dialed[q])
      BY <1>1, <2>3 DEF Inv, NetOK
    <3>. QED BY <3>1 DEF Inv, HelloFirst, HelloAt
  <2>. QED BY <2>1, <2>2, <2>3
<1>4. RemotesOK'
  <2>. SUFFICES ASSUME NEW r \in Servers, NEW n \in remote[r]
                PROVE  Home[n] # r /\ state'[r][Home[n]] = "linked"
    BY DEF RemotesOK, RemoteAt, Connect, known
  <2>1. Home[n] # r /\ state[r][Home[n]] = "linked" /\ Home[n] \in Servers
    BY HomeAssumption DEF Inv, RemotesOK, RemoteAt, TablesOK
  <2>. QED BY <1>1, <2>1 DEF Inv, NetOK
<1>5. TablesOK' /\ CountsOK'
  <2>1. UNCHANGED <<online, remote, chan, steps, odd>> /\ conns' = conns + 1
    BY DEF Connect, known
  <2>2. TablesOK'
    BY <2>1 DEF Inv, TablesOK, KnownAt, ChannelOf
  <2>3. CountsOK'
    BY <2>1 DEF Inv, CountsOK
  <2>. QED BY <2>2, <2>3
<1>. QED BY <1>2, <1>3, <1>4, <1>5 DEF Inv

LEMMA CloseEndInv ==
  ASSUME Inv, NEW s \in Servers, NEW p \in Servers \ {s}, CloseEnd(s, p) PROVE Inv'
<1>. DEFINE gone == Behind(s, p)
            new  == [c \in Chans |-> WithoutRemote(chan[s][c], gone)]
<1>1. /\ state'  = [state EXCEPT ![s][p] = "down"]
      /\ wire'   = [wire EXCEPT ![p][s] = <<>>]
      /\ remote' = [remote EXCEPT ![s] = remote[s] \ gone]
      /\ chan'   = [chan EXCEPT ![s] = new]
      /\ UNCHANGED <<online, dialed, conns, steps, odd>>
  BY DEF CloseEnd, Inv, TablesOK
<1>2. TablesOK'
  <2>1. remote[s] \ gone \in SUBSET Nicks /\ online[s] \in SUBSET Nicks
    BY DEF Inv, TablesOK
  <2>2. online' = [online EXCEPT ![s] = online[s]]
    BY <1>1 DEF Inv, TablesOK
  <2>3. ASSUME NEW c \in Chans
        PROVE  ChannelOf(new[c], online[s] \cup (remote[s] \ gone))
    <3>1. ChannelOf(chan[s][c], KnownAt(s))
      BY DEF Inv, TablesOK
    <3>2. ChannelOf(WithoutRemote(chan[s][c], gone), KnownAt(s) \ gone)
      BY <3>1, WithoutRemoteOK
    <3>. QED BY <3>2 DEF KnownAt, ChannelOf
  <2>4. new \in [Chans -> Channel]
    BY <2>3 DEF ChannelOf
  <2>. HIDE DEF new
  <2>. HIDE DEF gone
  <2>. QED BY <1>1, <2>1, <2>2, <2>3, <2>4, TablesStep DEF Inv
<1>3. NetOK'
  BY <1>1, EmptyOK DEF Inv, NetOK
<1>4. HelloFirst'
  <2>. SUFFICES ASSUME NEW r \in Servers, NEW q \in Servers \ {r} PROVE HelloAt(r, q)'
    BY DEF HelloFirst
  <2>1. CASE r = s /\ q = p
    <3>1. state'[s][p] = "down"
      BY <1>1 DEF Inv, NetOK
    <3>. QED BY <2>1, <3>1 DEF HelloAt
  <2>2. CASE ~(r = s /\ q = p)
    <3>1. /\ state'[r][q] = state[r][q] /\ wire'[q][r] = wire[q][r] /\ dialed' = dialed
          /\ state'[q][r] = "linked" => state[q][r] = "linked"
      BY <1>1, <2>2 DEF Inv, NetOK
    <3>. QED BY <3>1 DEF Inv, HelloFirst, HelloAt
  <2>. QED BY <2>1, <2>2
<1>5. RemotesOK'
  <2>. SUFFICES ASSUME NEW r \in Servers, NEW n \in remote'[r]
                PROVE  Home[n] # r /\ state'[r][Home[n]] = "linked"
    BY DEF RemotesOK, RemoteAt
  <2>1. n \in remote[r] /\ (r = s => Home[n] # p)
    BY <1>1 DEF Inv, TablesOK, Behind
  <2>2. Home[n] # r /\ state[r][Home[n]] = "linked" /\ Home[n] \in Servers
    BY <2>1, HomeAssumption DEF Inv, RemotesOK, RemoteAt, TablesOK
  <2>. QED BY <1>1, <2>1, <2>2 DEF Inv, NetOK
<1>6. CountsOK'
  BY <1>1 DEF Inv, CountsOK
<1>. QED BY <1>2, <1>3, <1>4, <1>5, <1>6 DEF Inv

LEMMA BurstType ==
  ASSUME TablesOK, NEW s \in Servers, NEW p
  PROVE  Burst(s, p) \in WireMsgs /\ Burst(s, p) # SERVER
<1>. DEFINE C == {c \in Chans : ShouldRelay(s, p, c)}
            J == [c \in Chans |-> IF c \in C THEN Local(s, chan[s][c]) ELSE {}]
            M == {<<c, chan[s][c].persistent>> : c \in {r \in C : chan[s][r].managed}}
<1>1. online[s] \in SUBSET Nicks
  BY DEF TablesOK
<1>2. J \in [Chans -> SUBSET Nicks]
  <2>1. \A c \in Chans : chan[s][c] \in Channel
    BY DEF TablesOK
  <2>2. \A c \in Chans : Local(s, chan[s][c]) \in SUBSET Nicks
    BY <2>1, LocalType
  <2>. QED BY <2>2
<1>3. M \in SUBSET (Chans \X BOOLEAN)
  <2>1. \A c \in Chans : chan[s][c].persistent \in BOOLEAN
    BY DEF TablesOK, Channel
  <2>. QED BY <2>1
<1>4. Burst(s, p) = BURST(online[s], J, M)
  BY DEF Burst, BurstOf
<1>. HIDE DEF J, M
<1>. QED BY <1>1, <1>2, <1>3, <1>4, MessagesOK DEF BURST, SERVER

-----------------------------------------------------------------------------
(* The inductive invariant: what a peer has written. *)

\* What is read is a message, and the first one is SERVER.
LEMMA IncomingOK ==
  ASSUME Inv, NEW s \in Servers, NEW p \in Servers \ {s}, NEW type, Reads(s, p, type)
  PROVE  /\ Incoming(s, p) \in WireMsgs /\ Incoming(s, p).type = type
         /\ Tail(wire[p][s]) \in Seq(WireMsgs)
         /\ type # "SERVER" => state[s][p] = "linked"
<1>1. wire[p][s] \in Seq(WireMsgs) /\ wire[p][s] # <<>> /\ state[s][p] # "down"
  BY DEF Inv, NetOK, Reads
<1>2. Incoming(s, p) = Head(wire[p][s]) /\ Incoming(s, p).type = type
  BY DEF Incoming, Reads
<1>3. type # "SERVER" => state[s][p] # "open"
  BY <1>1, <1>2 DEF Inv, HelloFirst, HelloAt, SERVER
<1>4. state[s][p] \in {"down", "open", "linked"}
  BY DEF Inv, NetOK
<1>. QED BY <1>1, <1>2, <1>3, <1>4, TailOK

\* Reading on from a registered link keeps the wire in order.
LEMMA ReadOnOK ==
  ASSUME Inv, NEW s \in Servers, NEW p \in Servers \ {s}, state[s][p] = "linked",
         Tail(wire[p][s]) \in Seq(WireMsgs), ReadOn(s, p)
  PROVE  NetOK' /\ HelloFirst'
<1>1. wire' = [wire EXCEPT ![p][s] = Tail(wire[p][s])] /\ UNCHANGED <<state, dialed>>
  BY DEF ReadOn, Inv, NetOK
<1>2. NetOK'
  BY <1>1 DEF Inv, NetOK
<1>3. ASSUME NEW r \in Servers, NEW q \in Servers \ {r} PROVE HelloAt(r, q)'
  <2>1. CASE r = s /\ q = p
    BY <1>1, <2>1 DEF HelloAt
  <2>2. CASE ~(r = s /\ q = p)
    <3>1. wire'[q][r] = wire[q][r]
      BY <1>1, <2>2 DEF Inv, NetOK
    <3>. QED BY <1>1, <3>1 DEF Inv, HelloFirst, HelloAt
  <2>. QED BY <2>1, <2>2
<1>. QED BY <1>2, <1>3 DEF HelloFirst

\* A handler that reads on may learn of users of the peer, or forget users, and
\* change channels accordingly.
LEMMA ReadStep ==
  ASSUME Inv, NEW s \in Servers, NEW p \in Servers \ {s}, NEW type, type # "SERVER",
         Reads(s, p, type), ReadOn(s, p), UNCHANGED <<steps, odd>>,
         NEW R \in SUBSET Nicks, \A n \in R \ remote[s] : Home[n] = p,
         remote' = [remote EXCEPT ![s] = R],
         NEW new \in [Chans -> Channel], \A c \in Chans : ChannelOf(new[c], online[s] \cup R),
         chan' = [chan EXCEPT ![s] = new]
  PROVE  Inv'
<1>1. state[s][p] = "linked" /\ Tail(wire[p][s]) \in Seq(WireMsgs)
  BY IncomingOK
<1>2. NetOK' /\ HelloFirst'
  BY <1>1, ReadOnOK
<1>3. UNCHANGED <<state, conns, online>>
  BY DEF ReadOn
<1>4. TablesOK'
  <2>1. online[s] \in SUBSET Nicks /\ online' = [online EXCEPT ![s] = online[s]]
    BY <1>3 DEF Inv, TablesOK
  <2>. QED BY <2>1, TablesStep DEF Inv
<1>5. RemotesOK'
  <2>. SUFFICES ASSUME NEW r \in Servers, NEW n \in remote'[r]
                PROVE  Home[n] # r /\ state[r][Home[n]] = "linked"
    BY <1>3 DEF RemotesOK, RemoteAt
  <2>1. n \in remote[r] \/ (r = s /\ Home[n] = p)
    BY DEF Inv, TablesOK
  <2>. QED BY <1>1, <2>1 DEF Inv, RemotesOK, RemoteAt
<1>. QED BY <1>2, <1>3, <1>4, <1>5 DEF Inv, CountsOK

\* One channel changes.
LEMMA ReadChannelStep ==
  ASSUME Inv, NEW s \in Servers, NEW p \in Servers \ {s}, NEW type, type # "SERVER",
         Reads(s, p, type), ReadOn(s, p), UNCHANGED <<steps, odd, remote>>,
         NEW c \in Chans, NEW ch, ChannelOf(ch, KnownAt(s)), chan' = [chan EXCEPT ![s][c] = ch]
  PROVE  Inv'
<1>. DEFINE new == [chan[s] EXCEPT ![c] = ch]
<1>1. new \in [Chans -> Channel] /\ chan' = [chan EXCEPT ![s] = new]
  BY DEF Inv, TablesOK, ChannelOf
<1>2. \A d \in Chans : ChannelOf(new[d], online[s] \cup remote[s])
  BY DEF Inv, TablesOK, KnownAt
<1>3. remote[s] \in SUBSET Nicks /\ remote' = [remote EXCEPT ![s] = remote[s]]
  BY DEF Inv, TablesOK
<1>. HIDE DEF new
<1>. QED BY <1>1, <1>2, <1>3, ReadStep

\* No channel changes, and the remote users may.
LEMMA ReadUsersStep ==
  ASSUME Inv, NEW s \in Servers, NEW p \in Servers \ {s}, NEW type, type # "SERVER",
         Reads(s, p, type), ReadOn(s, p), UNCHANGED <<steps, odd, chan>>,
         NEW R \in SUBSET Nicks, \A n \in R \ remote[s] : Home[n] = p, remote[s] \subseteq R,
         remote' = [remote EXCEPT ![s] = R]
  PROVE  Inv'
<1>1. chan[s] \in [Chans -> Channel] /\ chan' = [chan EXCEPT ![s] = chan[s]]
  BY DEF Inv, TablesOK
<1>2. \A c \in Chans : ChannelOf(chan[s][c], online[s] \cup R)
  BY DEF Inv, TablesOK, KnownAt, ChannelOf
<1>. QED BY <1>1, <1>2, ReadStep

LEMMA RecvNickInv ==
  ASSUME Inv, NEW s \in Servers, NEW p \in Servers \ {s}, RecvNick(s, p),
         UNCHANGED <<steps, odd>>
  PROVE  Inv'
<1>. DEFINE n == Incoming(s, p).nick
            R == IF Home[n] = p THEN remote[s] \cup {n} ELSE remote[s]
<1>1. Reads(s, p, "SNICK") /\ ReadOn(s, p) /\ UNCHANGED chan
  BY DEF RecvNick
<1>2. n \in Nicks
  BY <1>1, IncomingOK DEF WireMsgs
<1>3. remote' = [remote EXCEPT ![s] = R]
  BY DEF RecvNick, Inv, TablesOK
<1>4. R \in SUBSET Nicks /\ remote[s] \subseteq R /\ \A m \in R \ remote[s] : Home[m] = p
  <2>. HIDE DEF n
  <2>. QED BY <1>2 DEF Inv, TablesOK
<1>. HIDE DEF R
<1>. QED BY <1>1, <1>3, <1>4, ReadUsersStep

LEMMA RecvJoinInv ==
  ASSUME Inv, NEW s \in Servers, NEW p \in Servers \ {s}, RecvJoin(s, p),
         UNCHANGED <<steps, odd>>
  PROVE  Inv'
<1>. DEFINE w  == Incoming(s, p)
            ch == Joined(s, p, chan[s][w.chan], {w.nick}, remote[s])
<1>1. Reads(s, p, "SJOIN") /\ ReadOn(s, p) /\ UNCHANGED remote
  BY DEF RecvJoin
<1>2. w.chan \in Chans /\ w.nick \in Nicks
  BY <1>1, IncomingOK DEF WireMsgs
<1>3. ChannelOf(ch, KnownAt(s))
  <2>1. ChannelOf(chan[s][w.chan], KnownAt(s)) /\ remote[s] \subseteq KnownAt(s)
    BY <1>2 DEF Inv, TablesOK, KnownAt
  <2>. HIDE DEF w
  <2>. QED BY <1>2, <2>1, JoinedOK
<1>4. chan' = [chan EXCEPT ![s][w.chan] = ch]
  BY <1>2 DEF RecvJoin, Inv, TablesOK
<1>. HIDE DEF ch, w
<1>. QED BY <1>1, <1>2, <1>3, <1>4, ReadChannelStep

LEMMA RecvRoomMetaInv ==
  ASSUME Inv, NEW s \in Servers, NEW p \in Servers \ {s}, RecvRoomMeta(s, p),
         UNCHANGED <<steps, odd>>
  PROVE  Inv'
<1>. DEFINE w  == Incoming(s, p)
            ch == WithMeta(s, p, chan[s][w.chan], w.persistent)
<1>1. Reads(s, p, "SROOMMETA") /\ ReadOn(s, p) /\ UNCHANGED remote
  BY DEF RecvRoomMeta
<1>2. w.chan \in Chans /\ w.persistent \in BOOLEAN
  BY <1>1, IncomingOK DEF WireMsgs
<1>3. ChannelOf(ch, KnownAt(s))
  <2>1. ChannelOf(chan[s][w.chan], KnownAt(s))
    BY <1>2 DEF Inv, TablesOK
  <2>. HIDE DEF w
  <2>. QED BY <1>2, <2>1, WithMetaOK
<1>4. chan' = [chan EXCEPT ![s][w.chan] = ch]
  BY <1>2 DEF RecvRoomMeta, Inv, TablesOK
<1>. HIDE DEF ch, w
<1>. QED BY <1>1, <1>2, <1>3, <1>4, ReadChannelStep

LEMMA RecvBurstInv ==
  ASSUME Inv, NEW s \in Servers, NEW p \in Servers \ {s}, RecvBurst(s, p),
         UNCHANGED <<steps, odd>>
  PROVE  Inv'
<1>. DEFINE w     == Incoming(s, p)
            users == remote[s] \cup {n \in w.nicks : Home[n] = p}
            Now(c) == LET ch == Joined(s, p, chan[s][c], w.joins[c], users) IN
                      IF \E x \in BOOLEAN : <<c, x>> \in w.rooms
                      THEN WithMeta(s, p, ch, <<c, TRUE>> \in w.rooms) ELSE ch
            new   == [c \in Chans |-> Now(c)]
<1>1. /\ Reads(s, p, "BURST") /\ ReadOn(s, p)
      /\ remote' = [remote EXCEPT ![s] = users] /\ chan' = [chan EXCEPT ![s] = new]
  BY DEF RecvBurst
<1>2. w.nicks \in SUBSET Nicks /\ w.joins \in [Chans -> SUBSET Nicks]
  <2>1. w \in WireMsgs /\ w.type = "BURST"
    BY <1>1, IncomingOK
  <2>. QED BY <2>1 DEF WireMsgs
<1>3. users \in SUBSET Nicks /\ \A n \in users \ remote[s] : Home[n] = p
  <2>. HIDE DEF w
  <2>. QED BY <1>2 DEF Inv, TablesOK
<1>4. ASSUME NEW c \in Chans PROVE ChannelOf(new[c], online[s] \cup users)
  <2>1. ChannelOf(chan[s][c], online[s] \cup users)
    BY DEF Inv, TablesOK, KnownAt, ChannelOf
  <2>2. w.joins[c] \in SUBSET Nicks /\ users \subseteq online[s] \cup users
    BY <1>2
  <2>. HIDE DEF w, users
  <2>3. ChannelOf(Joined(s, p, chan[s][c], w.joins[c], users), online[s] \cup users)
    BY <2>1, <2>2, JoinedOK
  <2>4. (<<c, TRUE>> \in w.rooms) \in BOOLEAN
    OBVIOUS
  <2>5. ChannelOf(WithMeta(s, p, Joined(s, p, chan[s][c], w.joins[c], users),
                           <<c, TRUE>> \in w.rooms), online[s] \cup users)
    BY <2>3, <2>4, WithMetaOK
  <2>. QED BY <2>3, <2>5
<1>5. new \in [Chans -> Channel]
  BY <1>4 DEF ChannelOf
<1>. HIDE DEF new, users
<1>. QED BY <1>1, <1>3, <1>4, <1>5, ReadStep

LEMMA RecvPartInv ==
  ASSUME Inv, NEW s \in Servers, NEW p \in Servers \ {s}, RecvPart(s, p),
         UNCHANGED <<steps, odd>>
  PROVE  Inv'
<1>. DEFINE w  == Incoming(s, p)
            ch == WithoutRemote(chan[s][w.chan], {w.nick})
<1>1. Reads(s, p, "SPART") /\ ReadOn(s, p) /\ UNCHANGED remote
  BY DEF RecvPart
<1>2. w.chan \in Chans
  BY <1>1, IncomingOK DEF WireMsgs
<1>3. ChannelOf(chan[s][w.chan], KnownAt(s))
  BY <1>2 DEF Inv, TablesOK
<1>4. ChannelOf(ch, KnownAt(s))
  <2>. HIDE DEF w
  <2>1. ChannelOf(ch, KnownAt(s) \ {w.nick})
    BY <1>3, WithoutRemoteOK
  <2>. QED BY <2>1 DEF ChannelOf
<1>5. \/ chan' = [chan EXCEPT ![s][w.chan] = ch]
      \/ chan' = [chan EXCEPT ![s][w.chan] = chan[s][w.chan]]
  BY <1>2 DEF RecvPart, Inv, TablesOK
<1>. HIDE DEF ch, w
<1>. QED BY <1>1, <1>2, <1>3, <1>4, <1>5, ReadChannelStep

LEMMA RecvQuitUserInv ==
  ASSUME Inv, NEW s \in Servers, NEW p \in Servers \ {s}, RecvQuitUser(s, p),
         UNCHANGED <<steps, odd>>
  PROVE  Inv'
<1>. DEFINE n   == Incoming(s, p).nick
            new == [c \in Chans |-> IF n \in remote[s] THEN WithoutRemote(chan[s][c], {n})
                                    ELSE chan[s][c]]
            R   == remote[s] \ {n}
<1>1. /\ Reads(s, p, "SQUITUSER") /\ ReadOn(s, p)
      /\ remote' = [remote EXCEPT ![s] = R] /\ chan' = [chan EXCEPT ![s] = new]
  BY DEF RecvQuitUser
<1>2. R \in SUBSET Nicks /\ \A m \in R \ remote[s] : Home[m] = p
  BY DEF Inv, TablesOK
<1>3. ASSUME NEW c \in Chans PROVE ChannelOf(new[c], online[s] \cup R)
  <2>. HIDE DEF n
  <2>1. ChannelOf(chan[s][c], KnownAt(s))
    BY DEF Inv, TablesOK
  <2>2. ChannelOf(WithoutRemote(chan[s][c], {n}), KnownAt(s) \ {n})
    BY <2>1, WithoutRemoteOK
  <2>. QED BY <2>1, <2>2 DEF KnownAt, ChannelOf
<1>4. new \in [Chans -> Channel]
  BY <1>3 DEF ChannelOf
<1>. HIDE DEF new, R
<1>. QED BY <1>1, <1>2, <1>3, <1>4, ReadStep

\* Completing the handshake registers the link, and writes SERVER if the peer
\* dialled and has not had it yet, and then the burst.
LEMMA RecvServerInv ==
  ASSUME Inv, NEW s \in Servers, NEW p \in Servers \ {s}, RecvServer(s, p),
         UNCHANGED <<steps, odd>>
  PROVE  Inv'
<1>. DEFINE answer == IF p \in dialed[s] THEN <<>> ELSE <<SERVER>>
            lines  == answer \o <<Burst(s, p)>>
            out    == [q \in Servers |-> IF q = p THEN lines ELSE <<>>]
            rest   == Tail(wire[p][s])
<1>1. /\ Reads(s, p, "SERVER")
      /\ state' = [state EXCEPT ![s][p] = "linked"]
      /\ wire' = [Written(s, out) EXCEPT ![p][s] = rest]
      /\ UNCHANGED <<known, dialed, conns>>
  BY DEF RecvServer, Inv, NetOK
<1>2. rest \in Seq(WireMsgs) /\ state[s][p] # "down"
  BY <1>1, IncomingOK DEF Reads
<1>3. /\ lines \in Seq(WireMsgs) /\ lines # <<>>
      /\ p \notin dialed[s] => Head(lines) = SERVER
  <2>1. Burst(s, p) \in WireMsgs
    BY BurstType DEF Inv
  <2>2. answer \in Seq(WireMsgs) /\ <<Burst(s, p)>> \in Seq(WireMsgs)
    BY <2>1, EmptyOK, OneOK, MessagesOK
  <2>3. p \notin dialed[s] => answer = <<SERVER>>
    OBVIOUS
  <2>4. lines \in Seq(WireMsgs) /\ Len(lines) = Len(answer) + 1
    BY <2>1, <2>2, ConcatProperties
  <2>5. p \notin dialed[s] => Head(lines) = SERVER
    <3>1. <<SERVER>> # <<>> /\ Head(<<SERVER>>) = SERVER
      OBVIOUS
    <3>. QED BY <2>2, <2>3, <3>1, ConcatOK
  <2>6. Len(answer) \in Nat
    BY <2>2, LenProperties
  <2>7. lines # <<>>
    <3>. HIDE DEF lines, answer
    <3>. QED BY <2>4, <2>6, LenProperties
  <2>. QED BY <2>4, <2>5, <2>7
<1>. HIDE DEF lines
<1>4. \A q \in Servers : out[q] \in Seq(WireMsgs)
  BY <1>3, EmptyOK
<1>5. /\ Written(s, out) \in [Servers -> [Servers -> Seq(WireMsgs)]]
      /\ \A r \in Servers \ {s} : Written(s, out)[r] = wire[r]
      /\ \A q \in Servers \ {p} : Written(s, out)[s][q] = wire[s][q]
  <2>1. \A q \in Servers \ {p} : out[q] = <<>>
    OBVIOUS
  <2>. HIDE DEF out
  <2>. QED BY <1>4, <2>1, WrittenOK DEF Inv
<1>6. NetOK'
  <2>1. state' \in [Servers -> [Servers -> {"down", "open", "linked"}]]
    BY <1>1 DEF Inv, NetOK
  <2>2. wire' \in [Servers -> [Servers -> Seq(WireMsgs)]]
    <3>. HIDE DEF out, rest
    <3>. QED BY <1>1, <1>2, <1>5
  <2>. QED BY <1>1, <2>1, <2>2 DEF Inv, NetOK
<1>7. HelloAt(p, s)'
  <2>. SUFFICES ASSUME state'[p][s] = "open"
                PROVE  wire'[s][p] # <<>> /\ Head(wire'[s][p]) = SERVER
    BY DEF HelloAt
  <2>1. state[p][s] = "open" /\ wire'[s][p] = Written(s, out)[s][p]
    <3>. HIDE DEF out, rest
    <3>. QED BY <1>1, <1>5 DEF Inv, NetOK
  <2>2. CASE wire[s][p] # <<>>
    <3>1. Head(wire[s][p]) = SERVER
      BY <2>1, <2>2 DEF Inv, HelloFirst, HelloAt
    <3>2. /\ Written(s, out)[s][p] # <<>>
          /\ Head(Written(s, out)[s][p]) = Head(wire[s][p])
      <4>. HIDE DEF out
      <4>. QED BY <1>4, <2>2, WrittenOK DEF Inv
    <3>. QED BY <2>1, <3>1, <3>2
  <2>3. CASE wire[s][p] = <<>>
    <3>1. p \notin dialed[s]
      BY <2>1, <2>3 DEF Inv, HelloFirst, HelloAt
    <3>2. Written(s, out)[s][p] = wire[s][p] \o lines
      BY <2>1 DEF Written, Inv, NetOK
    <3>3. wire[s][p] \o lines = lines
      BY <1>3, <2>3, ConcatProperties
    <3>. QED BY <1>3, <2>1, <3>1, <3>2, <3>3
  <2>. QED BY <2>2, <2>3
<1>. HIDE DEF out, rest
<1>8. HelloFirst'
  <2>. SUFFICES ASSUME NEW r \in Servers, NEW q \in Servers \ {r} PROVE HelloAt(r, q)'
    BY DEF HelloFirst
  <2>1. CASE r = p /\ q = s
    BY <1>7, <2>1
  <2>2. CASE r = s /\ q = p
    <3>1. state'[s][p] = "linked"
      BY <1>1 DEF Inv, NetOK
    <3>. QED BY <2>2, <3>1 DEF HelloAt
  <2>3. CASE ~(r = p /\ q = s) /\ ~(r = s /\ q = p)
    <3>1. /\ state'[r][q] = state[r][q] /\ state'[q][r] = state[q][r]
          /\ wire'[q][r] = wire[q][r] /\ dialed' = dialed
      BY <1>1, <1>5, <2>3 DEF Inv, NetOK
    <3>. QED BY <3>1 DEF Inv, HelloFirst, HelloAt
  <2>. QED BY <2>1, <2>2, <2>3
<1>9. RemotesOK'
  <2>. SUFFICES ASSUME NEW r \in Servers, NEW n \in remote[r]
                PROVE  Home[n] # r /\ state'[r][Home[n]] = "linked"
    BY <1>1 DEF RemotesOK, RemoteAt, known
  <2>1. Home[n] # r /\ state[r][Home[n]] = "linked" /\ Home[n] \in Servers
    BY HomeAssumption DEF Inv, RemotesOK, RemoteAt, TablesOK
  <2>. QED BY <1>1, <2>1 DEF Inv, NetOK
<1>10. TablesOK' /\ CountsOK'
  <2>1. UNCHANGED <<online, remote, chan, steps, odd, conns>>
    BY <1>1 DEF known
  <2>. QED BY <2>1 DEF Inv, TablesOK, CountsOK, KnownAt
<1>. QED BY <1>6, <1>8, <1>9, <1>10 DEF Inv

LEMMA ReceiveInv ==
  ASSUME Inv, NEW s \in Servers, NEW p \in Servers \ {s}, Receive(s, p), UNCHANGED <<steps, odd>>
  PROVE  Inv'
BY RecvServerInv, RecvBurstInv, RecvNickInv, RecvJoinInv, RecvPartInv, RecvQuitUserInv,
   RecvRoomMetaInv DEF Receive

LEMMA NextInv == Inv /\ TracksOK /\ [Next]_vars => Inv' /\ TracksOK'
<1>. SUFFICES ASSUME Inv, TracksOK, [Next]_vars PROVE Inv' /\ TracksOK'
  OBVIOUS
<1>1. CASE Next
  <2>1. Inv'
    BY <1>1, ClientInv, ConnectInv, CloseEndInv, ReceiveInv DEF Next, Act
  <2>2. TracksOK'
    <3>1. Track /\ Show
      BY <1>1 DEF Next
    <3>2. steady' \in [Servers -> [Servers -> SUBSET Chans]]
      BY <3>1 DEF Track, TracksOK
    <3>3. shown' \in [Servers -> [Servers -> SUBSET (Chans \X Nicks)]]
      BY <3>1 DEF Show, Visible, TracksOK
    <3>. QED BY <3>2, <3>3 DEF TracksOK
  <2>. QED BY <2>1, <2>2
<1>2. CASE UNCHANGED vars
  BY <1>2 DEF vars, Inv, TablesOK, KnownAt, NetOK, CountsOK, TracksOK, HelloFirst, HelloAt,
              RemotesOK, RemoteAt
<1>. QED BY <1>1, <1>2

-----------------------------------------------------------------------------
(* The theorems. *)

LEMMA Invariance == Spec => [](Inv /\ TracksOK)
<1>1. Init => Inv /\ TracksOK
  BY InitInv
<1>. QED BY <1>1, NextInv, PTL DEF Spec

\* Every variable always has its type, for any servers, users and bounds.
THEOREM TypeCorrect == Spec => []TypeOK
<1>1. Inv /\ TracksOK => TypeOK
  BY DEF Inv, TablesOK, NetOK, CountsOK, TracksOK, TypeOK
<1>. QED BY <1>1, Invariance, PTL

\* No channel ever keeps a member that its server does not know (IRCd._remove_client,
\* _disconnect_remote_clients, ServerLink._handle_squituser, Client._handle_nick).
THEOREM KnownMembers == Spec => []MembersKnown
<1>1. Inv => MembersKnown
  BY DEF Inv, TablesOK, KnownAt, ChannelOf, MembersKnown
<1>. QED BY <1>1, Invariance, PTL

\* A server holds remote users only of the peers it is linked to: none is accepted
\* before the handshake is complete, and none outlives the link.
THEOREM LinkedRemotes == Spec => []RemoteLinked
<1>1. Inv => RemoteLinked
  BY HomeAssumption DEF Inv, TablesOK, RemotesOK, RemoteAt, RemoteLinked, Peers
<1>. QED BY <1>1, Invariance, PTL

-----------------------------------------------------------------------------
(* What is told of whom.                                                    *)

\* The users of a server have its nicks.
LocalHome == \A s \in Servers : \A n \in online[s] : Home[n] = s

\* What s writes to p is about its own users, and says that one is in a channel only if
\* its policy has let p see it.
Own(s, p, w) ==
  /\ w.type \in {"SNICK", "SJOIN", "SPART", "SQUITUSER"} => Home[w.nick] = s
  /\ w.type = "SJOIN" => <<w.chan, w.nick>> \in shown[s][p]
  /\ w.type = "BURST" => \A c \in Chans : \A n \in w.joins[c] :
                           Home[n] = s /\ <<c, n>> \in shown[s][p]

On(t)   == {t[i] : i \in DOMAIN t}
OwnWire == \A s \in Servers : \A p \in Servers \ {s} : \A w \in On(wire[s][p]) : Own(s, p, w)

\* The inductive invariant of Private.
Discreet == LocalHome /\ OwnWire /\ Private

LEMMA OnFacts ==
  ASSUME NEW S, NEW t \in Seq(S), NEW u \in Seq(S)
  PROVE  /\ On(t \o u) \subseteq On(t) \cup On(u)
         /\ t # <<>> => On(Tail(t)) \subseteq On(t) /\ Head(t) \in On(t)
<1>1. On(t \o u) \subseteq On(t) \cup On(u)
  <2>. SUFFICES ASSUME NEW i \in DOMAIN (t \o u) PROVE (t \o u)[i] \in On(t) \cup On(u)
    BY DEF On
  <2>1. /\ Len(t) \in Nat /\ Len(u) \in Nat /\ i \in 1..(Len(t) + Len(u))
        /\ DOMAIN t = 1..Len(t) /\ DOMAIN u = 1..Len(u)
        /\ (t \o u)[i] = IF i <= Len(t) THEN t[i] ELSE u[i - Len(t)]
    BY ConcatProperties, LenProperties
  <2>2. CASE i <= Len(t)
    BY <2>1, <2>2 DEF On
  <2>3. CASE ~(i <= Len(t))
    <3>1. i - Len(t) \in DOMAIN u
      BY <2>1, <2>3
    <3>. QED BY <2>1, <2>3, <3>1 DEF On
  <2>. QED BY <2>2, <2>3
<1>2. ASSUME t # <<>> PROVE On(Tail(t)) \subseteq On(t) /\ Head(t) \in On(t)
  <2>1. Len(t) \in Nat \ {0} /\ DOMAIN t = 1..Len(t) /\ Head(t) = t[1]
    BY <1>2, LenProperties, EmptySeq
  <2>2. /\ Tail(t) \in Seq(S) /\ Len(Tail(t)) = Len(t) - 1
        /\ \A i \in 1..Len(Tail(t)) : Tail(t)[i] = t[i + 1]
    BY <1>2, HeadTailProperties
  <2>3. DOMAIN Tail(t) = 1..(Len(t) - 1)
    BY <2>2, LenProperties
  <2>. QED BY <2>1, <2>2, <2>3 DEF On
<1>. QED BY <1>1, <1>2

LEMMA OnOne == On(<<>>) = {} /\ \A w : On(<<w>>) = {w}
BY DEF On

\* Who is not touched stays where he is.
LEMMA WithoutMemberSame ==
  ASSUME NEW s, NEW n, NEW ch \in Channel, NEW m, m # n
  PROVE  m \in WithoutMember(s, ch, n).members <=> m \in ch.members
BY DEF WithoutMember, Channel, NoChannel

LEMMA WithoutRemoteSame ==
  ASSUME NEW N, NEW ch \in Channel, NEW m, m \notin N
  PROVE  m \in WithoutRemote(ch, N).members <=> m \in ch.members
BY DEF WithoutRemote, Channel, NoChannel

LEMMA JoinedSame ==
  ASSUME NEW s, NEW p, NEW N, NEW users, NEW ch \in Channel, NEW m, m \notin N
  PROVE  m \in Joined(s, p, ch, N, users).members <=> m \in ch.members
BY DEF Joined, Created, Channel

LEMMA WithMetaSame ==
  ASSUME NEW s, NEW p, NEW x, NEW ch \in Channel
  PROVE  WithMeta(s, p, ch, x).members = ch.members
BY DEF WithMeta, Created, Channel

LEMMA WithMemberSame ==
  ASSUME NEW s, NEW n, NEW ch \in Channel
  PROVE  WithMember(s, ch, n).members = ch.members \cup {n}
BY DEF WithMember, Created, Channel

-----------------------------------------------------------------------------
(* Who else is concerned: what a step leaves alone.                         *)

\* The tables of the other servers.
OthersSame(s) == \A r \in Servers \ {s} :
  online'[r] = online[r] /\ remote'[r] = remote[r] /\ chan'[r] = chan[r]

\* The members of the channels of s that do not come from h.
MembersSame(s, h) == \A c \in Chans : \A n \in Nicks :
  Home[n] # h => (n \in chan'[s][c].members <=> n \in chan[s][c].members)

\* A client changes the channels of its server, and those of nobody else; users from
\* elsewhere stay in them.
LEMMA ClientSame ==
  ASSUME Inv, LocalHome, NEW s \in Servers, NEW n \in Nicks, Client(s, n)
  PROVE  LocalHome' /\ remote' = remote /\ OthersSame(s) /\ MembersSame(s, s)
<1>. USE DEF OthersSame, MembersSame
<1>0. /\ \A c \in Chans : chan[s][c] \in Channel
      /\ online \in [Servers -> SUBSET Nicks] /\ chan \in [Servers -> [Chans -> Channel]]
  BY DEF Inv, TablesOK
<1>1. ASSUME UNCHANGED <<online, remote>>, NEW c \in Chans, NEW ch,
             chan' = [chan EXCEPT ![s][c] = ch],
             \A m \in Nicks : Home[m] # s => (m \in ch.members <=> m \in chan[s][c].members)
      PROVE  LocalHome' /\ remote' = remote /\ OthersSame(s) /\ MembersSame(s, s)
  <2>1. /\ \A r \in Servers \ {s} : chan'[r] = chan[r]
        /\ \A d \in Chans : chan'[s][d] = IF d = c THEN ch ELSE chan[s][d]
    BY <1>0, <1>1
  <2>. QED BY <1>1, <2>1 DEF LocalHome
<1>2. CASE Register(s, n)
  BY <1>0, <1>2 DEF Register, LocalHome
<1>3. ASSUME NEW m \in Nicks, Rename(s, n, m)
      PROVE  LocalHome' /\ remote' = remote /\ OthersSame(s) /\ MembersSame(s, s)
  <2>. DEFINE Now(N) == {IF x = n THEN m ELSE x : x \in N}
              new == [c \in Chans |-> [chan[s][c] EXCEPT !.members = Now(@), !.operators = Now(@)]]
  <2>1. /\ n \in online[s] /\ Home[m] = s /\ remote' = remote
        /\ online' = [online EXCEPT ![s] = Now(online[s])] /\ chan' = [chan EXCEPT ![s] = new]
    BY <1>0, <1>3 DEF Rename
  <2>2. Home[n] = s
    BY <2>1 DEF LocalHome
  <2>3. \A N \in SUBSET Nicks : \A x \in Nicks : Home[x] # s => (x \in Now(N) <=> x \in N)
    BY <2>1, <2>2
  <2>4. \A N \in SUBSET Nicks : \A x \in Now(N) : x = m \/ x \in N
    OBVIOUS
  <2>5. LocalHome'
    <3>. HIDE DEF Now, new
    <3>. SUFFICES ASSUME NEW r \in Servers, NEW x \in online'[r] PROVE Home[x] = r
      BY DEF LocalHome
    <3>. QED BY <1>0, <2>1, <2>4 DEF LocalHome
  <2>6. \A c \in Chans : new[c].members = Now(chan[s][c].members) /\ chan[s][c].members \in SUBSET Nicks
    BY <1>0 DEF Channel
  <2>7. chan'[s] = new
    BY <1>0, <2>1
  <2>. HIDE DEF Now, new
  <2>. QED BY <1>0, <2>1, <2>3, <2>5, <2>6, <2>7
<1>4. CASE Quit(s, n) \/ Vanish(s, n)
  <2>1. n \in online[s] /\ Removed(s, n) /\ remote' = remote
    BY <1>4 DEF Quit, Vanish
  <2>2. /\ \A r \in Servers \ {s} : online'[r] = online[r] /\ chan'[r] = chan[r]
        /\ online'[s] = online[s] \ {n}
        /\ \A c \in Chans : chan'[s][c] = WithoutMember(s, chan[s][c], n)
    BY <1>0, <2>1 DEF Removed
  <2>3. Home[n] = s
    BY <2>1 DEF LocalHome
  <2>4. LocalHome'
    BY <2>2 DEF LocalHome
  <2>. QED BY <1>0, <2>1, <2>2, <2>3, <2>4, WithoutMemberSame
<1>5. ASSUME NEW c \in Chans, Join(s, n, c) \/ Part(s, n, c)
      PROVE  LocalHome' /\ remote' = remote /\ OthersSame(s) /\ MembersSame(s, s)
  <2>1. Home[n] = s /\ UNCHANGED <<online, remote>>
    BY <1>5 DEF Join, Part, LocalHome
  <2>2. \/ chan' = [chan EXCEPT ![s][c] = WithMember(s, chan[s][c], n)]
        \/ chan' = [chan EXCEPT ![s][c] = WithoutMember(s, chan[s][c], n)]
    BY <1>0, <1>5 DEF Join, Part
  <2>3. \A m \in Nicks : Home[m] # s =>
          /\ m \in WithMember(s, chan[s][c], n).members <=> m \in chan[s][c].members
          /\ m \in WithoutMember(s, chan[s][c], n).members <=> m \in chan[s][c].members
    BY <1>0, <2>1, WithMemberSame, WithoutMemberSame
  <2>4. CASE chan' = [chan EXCEPT ![s][c] = WithMember(s, chan[s][c], n)]
    BY <1>1, <2>1, <2>3, <2>4
  <2>5. CASE chan' = [chan EXCEPT ![s][c] = WithoutMember(s, chan[s][c], n)]
    BY <1>1, <2>1, <2>3, <2>5
  <2>. QED BY <2>2, <2>4, <2>5
<1>6. ASSUME NEW c \in Chans, NEW x \in BOOLEAN, RoomCreate(s, n, c, x)
      PROVE  LocalHome' /\ remote' = remote /\ OthersSame(s) /\ MembersSame(s, s)
  <2>. DEFINE ch == [WithMember(s, chan[s][c], n) EXCEPT !.managed = TRUE, !.persistent = x]
  <2>1. Home[n] = s /\ UNCHANGED <<online, remote>> /\ chan' = [chan EXCEPT ![s][c] = ch]
    BY <1>0, <1>6 DEF RoomCreate, LocalHome
  <2>2. ch.members = chan[s][c].members \cup {n}
    BY <1>0 DEF WithMember, Created, Channel
  <2>. HIDE DEF ch
  <2>. QED BY <1>0, <1>1, <2>1, <2>2
<1>7. ASSUME NEW c \in Chans, UNCHANGED <<online, remote>>, NEW ch, ch.members = chan[s][c].members,
             chan' = [chan EXCEPT ![s][c] = ch]
      PROVE  LocalHome' /\ remote' = remote /\ OthersSame(s) /\ MembersSame(s, s)
  BY <1>1, <1>7
<1>8. ASSUME NEW c \in Chans, NEW x \in BOOLEAN, NEW S \in SUBSET (Servers \ {s}),
             SetPolicy(s, n, c, x, S)
      PROVE  LocalHome' /\ remote' = remote /\ OthersSame(s) /\ MembersSame(s, s)
  <2>. DEFINE ch == [chan[s][c] EXCEPT !.restricted = x, !.shared_with = S]
  <2>1. chan' = [chan EXCEPT ![s][c] = ch] /\ UNCHANGED <<online, remote>>
    BY <1>0, <1>8 DEF SetPolicy
  <2>2. ch.members = chan[s][c].members
    BY <1>0 DEF Channel
  <2>. HIDE DEF ch
  <2>. QED BY <1>7, <2>1, <2>2
<1>9. ASSUME NEW c \in Chans, NEW m \in Nicks, SetOperators(s, n, c, m)
      PROVE  LocalHome' /\ remote' = remote /\ OthersSame(s) /\ MembersSame(s, s)
  <2>. DEFINE ops == IF m \in chan[s][c].operators
                     THEN Promoted(chan[s][c].operators \ {m}, chan[s][c].members)
                     ELSE chan[s][c].operators \cup {m}
              ch == [chan[s][c] EXCEPT !.operators = ops]
  <2>1. chan' = [chan EXCEPT ![s][c] = ch] /\ UNCHANGED <<online, remote>>
    BY <1>0, <1>9 DEF SetOperators
  <2>2. ch.members = chan[s][c].members
    <3>. HIDE DEF ops
    <3>. QED BY <1>0 DEF Channel
  <2>. HIDE DEF ch
  <2>. QED BY <1>7, <2>1, <2>2
<1>10. ASSUME NEW c \in Chans, ChanArchive(s, n, c)
       PROVE  LocalHome' /\ remote' = remote /\ OthersSame(s) /\ MembersSame(s, s)
  <2>. DEFINE ch == [chan[s][c] EXCEPT !.archived = TRUE, !.persistent = TRUE]
  <2>1. chan' = [chan EXCEPT ![s][c] = ch] /\ UNCHANGED <<online, remote>>
    BY <1>0, <1>10 DEF ChanArchive
  <2>2. ch.members = chan[s][c].members
    BY <1>0 DEF Channel
  <2>. HIDE DEF ch
  <2>. QED BY <1>7, <2>1, <2>2
<1>. QED
  BY <1>2, <1>3, <1>4, <1>5, <1>6, <1>8, <1>9, <1>10 DEF Client

\* A link that goes down takes with it the users behind it, and no others.
LEMMA CloseSame ==
  ASSUME Inv, NEW s \in Servers, NEW p \in Servers \ {s}, CloseEnd(s, p)
  PROVE  /\ online' = online /\ OthersSame(s)
         /\ \A c \in Chans : \A n \in Nicks :
              /\ n \in chan'[s][c].members => n \in chan[s][c].members
              /\ n \notin Behind(s, p) => (n \in chan[s][c].members => n \in chan'[s][c].members)
         /\ \A n \in Nicks : n \in remote'[s] <=> n \in remote[s] /\ Home[n] # p
<1>. DEFINE gone == Behind(s, p)
<1>1. /\ online' = online /\ remote' = [remote EXCEPT ![s] = remote[s] \ gone]
      /\ chan' = [chan EXCEPT ![s] = [c \in Chans |-> WithoutRemote(chan[s][c], gone)]]
  BY DEF CloseEnd, Inv, TablesOK
<1>2. /\ \A c \in Chans : chan[s][c] \in Channel /\ chan'[s][c] = WithoutRemote(chan[s][c], gone)
      /\ remote'[s] = remote[s] \ gone
      /\ \A r \in Servers \ {s} : chan'[r] = chan[r] /\ remote'[r] = remote[r]
  BY <1>1 DEF Inv, TablesOK
<1>3. \A ch \in Channel : \A n : n \in WithoutRemote(ch, gone).members => n \in ch.members
  BY DEF WithoutRemote, Channel, NoChannel
<1>. HIDE DEF gone
<1>4. \A n \in Nicks : n \in remote'[s] <=> n \in remote[s] /\ Home[n] # p
  BY <1>2 DEF Behind, gone
<1>5. \A c \in Chans : \A n \in Nicks :
        /\ n \in chan'[s][c].members => n \in chan[s][c].members
        /\ n \notin gone => (n \in chan[s][c].members => n \in chan'[s][c].members)
  BY <1>2, <1>3, WithoutRemoteSame
<1>6. online' = online /\ OthersSame(s)
  BY <1>1, <1>2 DEF OthersSame
<1>. QED BY <1>4, <1>5, <1>6 DEF gone

\* What is read from a peer is about its own users: nobody else comes or goes by it.  A
\* user joins only if the message says so.
ReadSame(s, p) ==
  /\ online' = online /\ OthersSame(s) /\ MembersSame(s, p)
  /\ \A n \in Nicks : Home[n] # p => (n \in remote'[s] <=> n \in remote[s])

Lists(w, c, n) == \/ w.type = "SJOIN" /\ w.chan = c /\ w.nick = n
                  \/ w.type = "BURST" /\ n \in w.joins[c]

\* How the handlers change channels.
LEMMA OneSame ==
  ASSUME Inv, NEW s \in Servers, UNCHANGED <<online, remote>>, NEW p, NEW c \in Chans, NEW ch,
         chan' = [chan EXCEPT ![s][c] = ch],
         \A n \in Nicks : Home[n] # p => (n \in ch.members <=> n \in chan[s][c].members)
  PROVE  ReadSame(s, p)
<1>1. /\ \A r \in Servers \ {s} : chan'[r] = chan[r]
      /\ \A d \in Chans : chan'[s][d] = IF d = c THEN ch ELSE chan[s][d]
  BY DEF Inv, TablesOK
<1>. QED BY <1>1 DEF ReadSame, OthersSame, MembersSame

LEMMA AllSame ==
  ASSUME Inv, NEW s \in Servers, NEW p, NEW new, NEW R, online' = online,
         remote' = [remote EXCEPT ![s] = R], chan' = [chan EXCEPT ![s] = new],
         \A n \in Nicks : Home[n] # p => (n \in R <=> n \in remote[s]),
         \A c \in Chans : \A n \in Nicks :
           Home[n] # p => (n \in new[c].members <=> n \in chan[s][c].members)
  PROVE  ReadSame(s, p)
<1>1. /\ \A r \in Servers \ {s} : chan'[r] = chan[r] /\ remote'[r] = remote[r]
      /\ chan'[s] = new /\ remote'[s] = R
  BY DEF Inv, TablesOK
<1>. QED BY <1>1 DEF ReadSame, OthersSame, MembersSame

LEMMA ReceiveSame ==
  ASSUME Inv, OwnWire, NEW s \in Servers, NEW p \in Servers \ {s}, Receive(s, p)
  PROVE  /\ ReadSame(s, p)
         /\ \A c \in Chans : \A n \in chan'[s][c].members :
              n \in chan[s][c].members \/ Lists(Incoming(s, p), c, n)
<1>. DEFINE w == Incoming(s, p)
            Listed == \A c \in Chans : \A n \in chan'[s][c].members :
                        n \in chan[s][c].members \/ Lists(w, c, n)
<1>0. /\ \A c \in Chans : chan[s][c] \in Channel /\ chan[s][c].members \in SUBSET Nicks
      /\ remote \in [Servers -> SUBSET Nicks] /\ chan \in [Servers -> [Chans -> Channel]]
  BY DEF Inv, TablesOK, Channel
<1>1. Own(p, s, w) /\ w \in WireMsgs
  <2>1. wire[p][s] \in Seq(WireMsgs) /\ wire[p][s] # <<>>
    BY DEF Receive, RecvServer, RecvBurst, RecvNick, RecvJoin, RecvPart, RecvQuitUser,
           RecvRoomMeta, Reads, Inv, NetOK
  <2>2. w \in On(wire[p][s]) /\ w \in WireMsgs
    BY <2>1, OnFacts, TailOK DEF Incoming
  <2>. QED BY <2>2 DEF OwnWire
<1>. HIDE DEF w
<1>2. CASE RecvServer(s, p)
  BY <1>2 DEF RecvServer, known, ReadSame, OthersSame, MembersSame
<1>3. CASE RecvNick(s, p)
  <2>1. /\ w.type = "SNICK" /\ UNCHANGED <<online, chan>>
        /\ remote' = [remote EXCEPT ![s] = IF Home[w.nick] = p THEN @ \cup {w.nick} ELSE @]
    BY <1>3 DEF RecvNick, Reads, ReadOn, w
  <2>. QED BY <1>0, <2>1 DEF ReadSame, OthersSame, MembersSame
<1>4. CASE RecvJoin(s, p)
  <2>. DEFINE ch == Joined(s, p, chan[s][w.chan], {w.nick}, remote[s])
  <2>1. /\ w.type = "SJOIN" /\ UNCHANGED <<online, remote>>
        /\ chan' = [chan EXCEPT ![s][w.chan] = ch]
    BY <1>0, <1>4 DEF RecvJoin, Reads, ReadOn, w
  <2>2. w.chan \in Chans /\ Home[w.nick] = p
    BY <1>1, <2>1 DEF WireMsgs, Own
  <2>3. \A n \in Nicks : Home[n] # p => (n \in ch.members <=> n \in chan[s][w.chan].members)
    BY <1>0, <2>2, JoinedSame
  <2>4. ch.members \subseteq chan[s][w.chan].members \cup {w.nick}
    BY <1>0, <2>2 DEF Joined, Created, Channel
  <2>5. \A c \in Chans : chan'[s][c] = IF c = w.chan THEN ch ELSE chan[s][c]
    BY <1>0, <2>1
  <2>. HIDE DEF ch
  <2>6. Listed
    BY <2>1, <2>4, <2>5 DEF Lists
  <2>. QED BY <2>1, <2>2, <2>3, <2>6, OneSame DEF w
<1>5. CASE RecvRoomMeta(s, p)
  <2>. DEFINE ch == WithMeta(s, p, chan[s][w.chan], w.persistent)
  <2>1. /\ w.type = "SROOMMETA" /\ UNCHANGED <<online, remote>>
        /\ chan' = [chan EXCEPT ![s][w.chan] = ch]
    BY <1>0, <1>5 DEF RecvRoomMeta, Reads, ReadOn, w
  <2>2. w.chan \in Chans
    BY <1>1, <2>1 DEF WireMsgs
  <2>3. ch.members = chan[s][w.chan].members
    BY <1>0, <2>2, WithMetaSame
  <2>5. \A c \in Chans : chan'[s][c] = IF c = w.chan THEN ch ELSE chan[s][c]
    BY <1>0, <2>1
  <2>. HIDE DEF ch
  <2>6. Listed
    BY <2>3, <2>5
  <2>. QED BY <2>1, <2>2, <2>3, <2>6, OneSame DEF w
<1>6. CASE RecvPart(s, p)
  <2>. DEFINE ch == WithoutRemote(chan[s][w.chan], {w.nick})
  <2>1. /\ w.type = "SPART" /\ UNCHANGED <<online, remote>>
        /\ \/ chan' = [chan EXCEPT ![s][w.chan] = ch]
           \/ chan' = chan
    BY <1>0, <1>6 DEF RecvPart, Reads, ReadOn, w
  <2>2. w.chan \in Chans /\ Home[w.nick] = p
    BY <1>1, <2>1 DEF WireMsgs, Own
  <2>3. \A n \in Nicks : Home[n] # p => (n \in ch.members <=> n \in chan[s][w.chan].members)
    BY <1>0, <2>2, WithoutRemoteSame
  <2>4. ch.members \subseteq chan[s][w.chan].members
    BY <1>0, <2>2 DEF WithoutRemote, NoChannel, Channel
  <2>. HIDE DEF ch
  <2>5. CASE chan' = chan
    BY <2>1, <2>5 DEF ReadSame, OthersSame, MembersSame
  <2>6. CASE chan' = [chan EXCEPT ![s][w.chan] = ch]
    <3>1. \A c \in Chans : chan'[s][c] = IF c = w.chan THEN ch ELSE chan[s][c]
      BY <1>0, <2>6
    <3>2. Listed
      BY <2>4, <3>1
    <3>. QED BY <2>1, <2>2, <2>3, <2>6, <3>2, OneSame DEF w
  <2>. QED BY <2>1, <2>5, <2>6
<1>7. CASE RecvQuitUser(s, p)
  <2>. DEFINE new == [c \in Chans |-> IF w.nick \in remote[s] THEN WithoutRemote(chan[s][c], {w.nick})
                                      ELSE chan[s][c]]
              R   == remote[s] \ {w.nick}
  <2>1. /\ w.type = "SQUITUSER" /\ online' = online
        /\ remote' = [remote EXCEPT ![s] = R] /\ chan' = [chan EXCEPT ![s] = new]
    BY <1>0, <1>7 DEF RecvQuitUser, Reads, ReadOn, w
  <2>2. Home[w.nick] = p
    BY <1>1, <2>1 DEF Own
  <2>3. \A c \in Chans : \A n \in Nicks :
          Home[n] # p => (n \in new[c].members <=> n \in chan[s][c].members)
    BY <1>0, <2>2, WithoutRemoteSame
  <2>4. \A c \in Chans : new[c].members \subseteq chan[s][c].members
    BY <1>0 DEF WithoutRemote, NoChannel, Channel
  <2>5. chan'[s] = new
    BY <1>0, <2>1
  <2>6. Listed
    <3>. HIDE DEF new
    <3>. QED BY <2>4, <2>5
  <2>7. \A n \in Nicks : Home[n] # p => (n \in R <=> n \in remote[s])
    BY <2>2
  <2>. HIDE DEF new, R
  <2>. QED BY <2>1, <2>3, <2>6, <2>7, AllSame DEF w
<1>8. CASE RecvBurst(s, p)
  <2>. DEFINE users == remote[s] \cup {n \in w.nicks : Home[n] = p}
              In(c)  == Joined(s, p, chan[s][c], w.joins[c], users)
              Now(c) == IF \E x \in BOOLEAN : <<c, x>> \in w.rooms
                        THEN WithMeta(s, p, In(c), <<c, TRUE>> \in w.rooms) ELSE In(c)
              new   == [c \in Chans |-> Now(c)]
  <2>1. /\ w.type = "BURST" /\ online' = online
        /\ remote' = [remote EXCEPT ![s] = users] /\ chan' = [chan EXCEPT ![s] = new]
    BY <1>0, <1>8 DEF RecvBurst, Reads, ReadOn, w
  <2>2. w.joins \in [Chans -> SUBSET Nicks] /\ \A c \in Chans : \A n \in w.joins[c] : Home[n] = p
    BY <1>1, <2>1 DEF WireMsgs, Own
  <2>. HIDE DEF users
  <2>3. ASSUME NEW c \in Chans
        PROVE  /\ \A n \in Nicks : Home[n] # p => (n \in new[c].members <=> n \in chan[s][c].members)
               /\ new[c].members \subseteq chan[s][c].members \cup w.joins[c]
    <3>1. In(c) \in Channel /\ In(c).members \subseteq chan[s][c].members \cup w.joins[c]
      BY <1>0, <2>2 DEF Joined, Created, Channel
    <3>2. new[c].members = In(c).members
      <4>. HIDE DEF In
      <4>. QED BY <3>1, WithMetaSame
    <3>3. \A n \in Nicks : Home[n] # p => (n \in In(c).members <=> n \in chan[s][c].members)
      <4>. SUFFICES ASSUME NEW n \in Nicks, Home[n] # p
                    PROVE  n \in In(c).members <=> n \in chan[s][c].members
        OBVIOUS
      <4>1. n \notin w.joins[c] /\ chan[s][c] \in Channel
        BY <1>0, <2>2
      <4>. QED BY <4>1, JoinedSame
    <3>. HIDE DEF new
    <3>. QED BY <3>1, <3>2, <3>3
  <2>4. chan'[s] = new
    BY <1>0, <2>1
  <2>5. \A n \in Nicks : Home[n] # p => (n \in users <=> n \in remote[s])
    BY DEF users
  <2>. HIDE DEF new
  <2>6. Listed
    BY <2>1, <2>3, <2>4 DEF Lists
  <2>. QED BY <2>1, <2>3, <2>5, <2>6, AllSame DEF w
<1>. QED
  BY <1>2, <1>3, <1>4, <1>5, <1>6, <1>7, <1>8 DEF Receive, w

-----------------------------------------------------------------------------
(* Private: what is on the wire was shown.                                  *)

LEMMA ShowGrows ==
  ASSUME TracksOK, Show, NEW s \in Servers, NEW p \in Servers
  PROVE  shown[s][p] \subseteq shown'[s][p] /\ Visible(s, p)' \subseteq shown'[s][p]
BY DEF TracksOK, Show

LEMMA OwnStays ==
  ASSUME TracksOK, Show, OwnWire, NEW s \in Servers, NEW p \in Servers \ {s},
         NEW w \in On(wire[s][p])
  PROVE  Own(s, p, w)'
<1>1. shown[s][p] \subseteq shown'[s][p]
  BY ShowGrows
<1>. QED BY <1>1 DEF OwnWire, Own

LEMMA AnnounceOwn ==
  ASSUME Inv, TracksOK, Show, OwnWire, NEW s \in Servers, NEW out, ToRegistered(s, out),
         Announce(out, s), \A p \in Servers \ {s} : \A w \in On(out[p]) : Own(s, p, w)'
  PROVE  OwnWire'
<1>. SUFFICES ASSUME NEW r \in Servers, NEW p \in Servers \ {r}, NEW w \in On(wire'[r][p])
              PROVE  Own(r, p, w)'
  BY DEF OwnWire
<1>1. wire' = Written(s, out)
  BY DEF Announce
<1>2. CASE r # s
  <2>1. wire'[r] = wire[r]
    BY <1>1, <1>2, WrittenOK DEF Inv, ToRegistered
  <2>. QED BY <2>1, OwnStays
<1>3. CASE r = s
  <2>1. wire'[s][p] = IF state[p][s] # "down" THEN wire[s][p] \o out[p] ELSE wire[s][p]
    BY <1>1 DEF Written, Inv, NetOK
  <2>2. wire[s][p] \in Seq(WireMsgs) /\ out[p] \in Seq(WireMsgs)
    BY DEF Inv, NetOK, ToRegistered
  <2>3. On(wire[s][p] \o out[p]) \subseteq On(wire[s][p]) \cup On(out[p])
    BY <2>2, OnFacts
  <2>4. w \in On(wire[s][p]) \/ w \in On(out[p])
    BY <1>3, <2>1, <2>3
  <2>. QED BY <1>3, <2>4, OwnStays
<1>. QED BY <1>2, <1>3

LEMMA ClientOwn ==
  ASSUME Inv, TracksOK, Show, Discreet, NEW s \in Servers, NEW n \in Nicks, Client(s, n)
  PROVE  OwnWire'
<1>0. LocalHome /\ OwnWire
  BY DEF Discreet
<1>1. CASE UNCHANGED wire
  BY <1>0, <1>1, OwnStays DEF OwnWire
<1>2. CASE Register(s, n)
  <2>1. Home[n] = s /\ Announce(ToAll(s, SNICK(n)), s)
    BY <1>2 DEF Register
  <2>2. \A p : Own(s, p, SNICK(n))'
    BY <2>1 DEF Own, SNICK
  <2>3. \A p \in Servers : ToAll(s, SNICK(n))[p] = <<>> \/ ToAll(s, SNICK(n))[p] = <<SNICK(n)>>
    BY DEF ToAll
  <2>4. ToRegistered(s, ToAll(s, SNICK(n)))
    BY MessagesOK, ToAllOK
  <2>. HIDE DEF Own
  <2>5. \A p \in Servers \ {s} : \A x \in On(ToAll(s, SNICK(n))[p]) : Own(s, p, x)'
    BY <2>2, <2>3, OnOne
  <2>. QED BY <1>0, <2>1, <2>4, <2>5, AnnounceOwn
<1>3. CASE Quit(s, n)
  <2>1. Home[n] = s /\ Announce(ToAll(s, SQUITUSER(n)), s)
    BY <1>0, <1>3 DEF Quit, LocalHome
  <2>2. \A p : Own(s, p, SQUITUSER(n))'
    BY <2>1 DEF Own, SQUITUSER
  <2>3. \A p \in Servers : \/ ToAll(s, SQUITUSER(n))[p] = <<>>
                           \/ ToAll(s, SQUITUSER(n))[p] = <<SQUITUSER(n)>>
    BY DEF ToAll
  <2>4. ToRegistered(s, ToAll(s, SQUITUSER(n)))
    BY MessagesOK, ToAllOK
  <2>5. \A p \in Servers \ {s} : \A x \in On(ToAll(s, SQUITUSER(n))[p]) : Own(s, p, x)'
    BY <2>2, <2>3, OnOne
  <2>. QED BY <1>0, <2>1, <2>4, <2>5, AnnounceOwn
<1>4. ASSUME NEW c \in Chans, Join(s, n, c)
      PROVE  OwnWire'
  <2>. DEFINE out == [p \in Servers |-> IF p \in Peers(s) /\ Shared(s, p, chan[s][c])
                                        THEN <<SJOIN(c, n)>> ELSE <<>>]
  <2>1. Home[n] = s /\ n \in online[s] /\ Announce(out, s)
    BY <1>0, <1>4 DEF Join, LocalHome
  <2>2. ASSUME NEW p \in Servers, Shared(s, p, chan[s][c]) PROVE Own(s, p, SJOIN(c, n))'
    <3>1. /\ online' = online /\ chan'[s][c] = WithMember(s, chan[s][c], n)
          /\ chan[s][c] \in Channel
      BY <1>4 DEF Join, Inv, TablesOK
    <3>2. n \in Local(s, chan[s][c])' /\ Shared(s, p, chan[s][c])'
      BY <2>1, <2>2, <3>1 DEF Local, Shared, WithMember, Created, Channel
    <3>3. <<c, n>> \in Visible(s, p)'
      BY <3>2 DEF Visible
    <3>4. <<c, n>> \in shown'[s][p]
      BY <3>3, ShowGrows
    <3>. QED BY <2>1, <3>4 DEF Own, SJOIN
  <2>3. \A p \in Servers : \/ out[p] = <<>>
                           \/ out[p] = <<SJOIN(c, n)>> /\ Own(s, p, SJOIN(c, n))'
    BY <2>2
  <2>4. ToRegistered(s, out)
    BY MessagesOK, EmptyOK, OneOK DEF ToRegistered, Peers
  <2>. HIDE DEF out
  <2>5. \A p \in Servers \ {s} : \A x \in On(out[p]) : Own(s, p, x)'
    BY <2>3, OnOne
  <2>. QED BY <1>0, <2>1, <2>4, <2>5, AnnounceOwn
<1>5. ASSUME NEW c \in Chans, Part(s, n, c)
      PROVE  OwnWire'
  <2>. DEFINE out == Relayed(s, c, SPART(c, n))
  <2>1. Home[n] = s /\ Announce(out, s)
    BY <1>0, <1>5 DEF Part, LocalHome
  <2>2. \A p : Own(s, p, SPART(c, n))'
    BY <2>1 DEF Own, SPART
  <2>3. \A p \in Servers : out[p] = <<>> \/ out[p] = <<SPART(c, n)>>
    BY DEF Relayed
  <2>4. ToRegistered(s, out)
    BY MessagesOK, RelayedOK
  <2>. HIDE DEF out
  <2>5. \A p \in Servers \ {s} : \A x \in On(out[p]) : Own(s, p, x)'
    BY <2>2, <2>3, OnOne
  <2>. QED BY <1>0, <2>1, <2>4, <2>5, AnnounceOwn
<1>6. ASSUME NEW c \in Chans, NEW x \in BOOLEAN, RoomCreate(s, n, c, x)
      PROVE  OwnWire'
  <2>. DEFINE out == [p \in Servers |-> IF p \in Peers(s) /\ Shared(s, p, NoChannel)
                                        THEN <<SROOMMETA(c, x)>> ELSE <<>>]
  <2>1. Announce(out, s)
    BY <1>6 DEF RoomCreate
  <2>2. \A p : Own(s, p, SROOMMETA(c, x))'
    BY DEF Own, SROOMMETA
  <2>3. \A p \in Servers : out[p] = <<>> \/ out[p] = <<SROOMMETA(c, x)>>
    OBVIOUS
  <2>4. ToRegistered(s, out)
    BY MessagesOK, EmptyOK, OneOK DEF ToRegistered, Peers
  <2>. HIDE DEF out
  <2>5. \A p \in Servers \ {s} : \A y \in On(out[p]) : Own(s, p, y)'
    BY <2>2, <2>3, OnOne
  <2>. QED BY <1>0, <2>1, <2>4, <2>5, AnnounceOwn
<1>. QED
  BY <1>1, <1>2, <1>3, <1>4, <1>5, <1>6
  DEF Client, Vanish, Rename, ChanArchive, SetPolicy, SetOperators, net

LEMMA BurstOwn ==
  ASSUME Inv, TracksOK, Show, LocalHome, UNCHANGED <<online, chan>>, NEW s \in Servers,
         NEW p \in Servers \ {s}
  PROVE  \A w : w = Burst(s, p) => Own(s, p, w)'
<1>. DEFINE J == [c \in Chans |-> IF ShouldRelay(s, p, c) THEN Local(s, chan[s][c]) ELSE {}]
            b == Burst(s, p)
<1>1. b.type = "BURST" /\ \A c \in Chans : b.joins[c] = J[c]
  BY DEF Burst, BurstOf, BURST
<1>2. ASSUME NEW c \in Chans, NEW n \in J[c]
      PROVE  Home[n] = s /\ <<c, n>> \in shown'[s][p]
  <2>1. n \in online[s] /\ n \in Nicks /\ n \in Local(s, chan[s][c]) /\ Shared(s, p, chan[s][c])
    BY DEF Local, ShouldRelay, Inv, TablesOK
  <2>2. <<c, n>> \in Visible(s, p)'
    BY <2>1 DEF Visible, Local, Shared
  <2>. QED BY <2>1, <2>2, ShowGrows DEF LocalHome
<1>. HIDE DEF J, b
<1>3. ASSUME NEW w, w = b PROVE Own(s, p, w)'
  BY <1>1, <1>2, <1>3 DEF Own
<1>. QED BY <1>3 DEF b

\* Messages that are read, and a connection that is dialled or lost, add nothing of which
\* this would not hold.
LEMMA FewerOwn ==
  ASSUME TracksOK, Show, OwnWire,
         \A r \in Servers : \A p \in Servers \ {r} : \A w \in On(wire'[r][p]) :
           w \in On(wire[r][p]) \/ w = SERVER
  PROVE  OwnWire'
<1>. SUFFICES ASSUME NEW r \in Servers, NEW p \in Servers \ {r}, NEW w \in On(wire'[r][p])
              PROVE  Own(r, p, w)'
  BY DEF OwnWire
<1>1. CASE w = SERVER
  BY <1>1 DEF SERVER, Own
<1>2. CASE w \in On(wire[r][p])
  BY <1>2, OwnStays
<1>. QED BY <1>1, <1>2

LEMMA ReadOnOwn ==
  ASSUME Inv, TracksOK, Show, OwnWire, NEW s \in Servers, NEW p \in Servers \ {s}, NEW type,
         Reads(s, p, type), ReadOn(s, p)
  PROVE  OwnWire'
<1>1. wire' = [wire EXCEPT ![p][s] = Tail(wire[p][s])]
      /\ wire[p][s] \in Seq(WireMsgs) /\ wire[p][s] # <<>>
  BY DEF ReadOn, Inv, NetOK, Reads
<1>2. On(Tail(wire[p][s])) \subseteq On(wire[p][s])
  BY <1>1, OnFacts
<1>3. \A r \in Servers : \A q \in Servers \ {r} :
        wire'[r][q] = IF r = p /\ q = s THEN Tail(wire[p][s]) ELSE wire[r][q]
  BY <1>1 DEF Inv, NetOK
<1>4. \A r \in Servers : \A q \in Servers \ {r} : On(wire'[r][q]) \subseteq On(wire[r][q])
  BY <1>2, <1>3
<1>. QED BY <1>4, FewerOwn

LEMMA RecvServerOwn ==
  ASSUME Inv, TracksOK, Show, LocalHome, OwnWire, NEW s \in Servers, NEW p \in Servers \ {s},
         RecvServer(s, p)
  PROVE  OwnWire'
<1>. DEFINE answer == IF p \in dialed[s] THEN <<>> ELSE <<SERVER>>
            lines  == answer \o <<Burst(s, p)>>
            out    == [q \in Servers |-> IF q = p THEN lines ELSE <<>>]
            rest   == Tail(wire[p][s])
<1>1. wire' = [Written(s, out) EXCEPT ![p][s] = rest] /\ UNCHANGED <<online, chan>>
      /\ Reads(s, p, "SERVER")
  BY DEF RecvServer, known
<1>2. /\ rest \in Seq(WireMsgs) /\ On(rest) \subseteq On(wire[p][s])
      /\ wire[s][p] \in Seq(WireMsgs)
  BY <1>1, OnFacts, TailOK DEF Inv, NetOK, Reads
<1>3. lines \in Seq(WireMsgs) /\ On(lines) \subseteq {SERVER, Burst(s, p)}
  <2>1. Burst(s, p) \in WireMsgs /\ SERVER \in WireMsgs
    BY BurstType, MessagesOK DEF Inv
  <2>2. answer \in Seq(WireMsgs) /\ <<Burst(s, p)>> \in Seq(WireMsgs)
    BY <2>1, EmptyOK, OneOK
  <2>3. On(lines) \subseteq On(answer) \cup On(<<Burst(s, p)>>) /\ lines \in Seq(WireMsgs)
    BY <2>2, OnFacts, ConcatOK
  <2>4. On(answer) \subseteq {SERVER} /\ On(<<Burst(s, p)>>) = {Burst(s, p)}
    BY OnOne
  <2>. QED BY <2>3, <2>4
<1>4. \A w : w = Burst(s, p) => Own(s, p, w)'
  BY <1>1, BurstOwn
<1>. HIDE DEF lines
<1>5. \A q \in Servers : out[q] \in Seq(WireMsgs) /\ (q # p => out[q] = <<>>)
  BY <1>3, EmptyOK
<1>6. /\ Written(s, out) \in [Servers -> [Servers -> Seq(WireMsgs)]]
      /\ \A r \in Servers \ {s} : Written(s, out)[r] = wire[r]
      /\ \A q \in Servers : q # p => Written(s, out)[s][q] = wire[s][q]
  <2>. HIDE DEF out
  <2>. QED BY <1>5, WrittenOK DEF Inv
<1>7. On(Written(s, out)[s][p]) \subseteq On(wire[s][p]) \cup On(lines)
  <2>1. Written(s, out)[s][p] = IF state[p][s] # "down" THEN wire[s][p] \o lines ELSE wire[s][p]
    BY DEF Written, Inv, NetOK
  <2>2. On(wire[s][p] \o lines) \subseteq On(wire[s][p]) \cup On(lines)
    BY <1>2, <1>3, OnFacts
  <2>. QED BY <2>1, <2>2
<1>. HIDE DEF out, rest
<1>8. \A r \in Servers : \A q \in Servers \ {r} :
        wire'[r][q] = IF r = p /\ q = s THEN rest ELSE Written(s, out)[r][q]
  BY <1>1, <1>6
<1>. SUFFICES ASSUME NEW r \in Servers, NEW q \in Servers \ {r}, NEW w \in On(wire'[r][q])
              PROVE  Own(r, q, w)'
  BY DEF OwnWire
<1>9. CASE w \in On(wire[r][q])
  BY <1>9, OwnStays
<1>10. CASE w = SERVER
  BY <1>10 DEF SERVER, Own
<1>11. CASE r = s /\ q = p /\ w = Burst(s, p)
  BY <1>4, <1>11
<1>12. w \in On(wire[r][q]) \/ w = SERVER \/ (r = s /\ q = p /\ w = Burst(s, p))
  <2>1. CASE r = p /\ q = s
    BY <1>2, <1>8, <2>1
  <2>2. CASE r = s /\ q = p
    BY <1>3, <1>7, <1>8, <2>2
  <2>3. CASE ~(r = p /\ q = s) /\ ~(r = s /\ q = p)
    <3>1. wire'[r][q] = wire[r][q]
      BY <1>6, <1>8, <2>3
    <3>. QED BY <3>1
  <2>. QED BY <2>1, <2>2, <2>3
<1>. QED BY <1>9, <1>10, <1>11, <1>12

LEMMA LinkOwn ==
  ASSUME Inv, TracksOK, Show, OwnWire, NEW s \in Servers, NEW p \in Servers \ {s},
         Connect(s, p) \/ CloseEnd(s, p)
  PROVE  OwnWire'
<1>1. \A r \in Servers : \A q \in Servers \ {r} :
        wire'[r][q] = wire[r][q] \/ wire'[r][q] = <<>> \/ wire'[r][q] = <<SERVER>>
  <2>1. CASE Connect(s, p)
    <3>1. wire' = [wire EXCEPT ![s][p] = <<SERVER>>, ![p][s] = <<>>]
      BY <2>1 DEF Connect
    <3>2. \A r \in Servers : \A q \in Servers \ {r} :
            wire'[r][q] = IF r = p /\ q = s THEN <<>>
                          ELSE IF r = s /\ q = p THEN <<SERVER>> ELSE wire[r][q]
      BY <3>1 DEF Inv, NetOK
    <3>. QED BY <3>2
  <2>2. CASE CloseEnd(s, p)
    BY <2>2 DEF CloseEnd, Inv, NetOK
  <2>. QED BY <2>1, <2>2
<1>. QED BY <1>1, OnOne, FewerOwn

LEMMA ReceiveOwn ==
  ASSUME Inv, TracksOK, Show, LocalHome, OwnWire, NEW s \in Servers, NEW p \in Servers \ {s},
         Receive(s, p)
  PROVE  OwnWire'
BY ReadOnOwn, RecvServerOwn
DEF Receive, RecvBurst, RecvNick, RecvJoin, RecvPart, RecvQuitUser, RecvRoomMeta

\* A user of s that p newly lists was on the wire from s to p.
LEMMA DiscreetNext == Inv /\ TracksOK /\ Discreet /\ [Next]_vars => Discreet'
<1>. SUFFICES ASSUME Inv, TracksOK, Discreet, [Next]_vars PROVE Discreet'
  OBVIOUS
<1>0. LocalHome /\ OwnWire /\ Private
  BY DEF Discreet
<1>1. CASE UNCHANGED vars
  BY <1>1 DEF vars, Discreet, LocalHome, OwnWire, Own, Private, MembersAt
<1>2. ASSUME Show, \A p \in Servers : \A c \in Chans : \A n \in Nicks :
               n \in chan'[p][c].members /\ Home[n] # p =>
                 n \in chan[p][c].members \/ <<c, n>> \in shown[Home[n]][p]
      PROVE  Private'
  <2>. SUFFICES ASSUME NEW s \in Servers, NEW p \in Servers \ {s}, NEW c \in Chans,
                       NEW n \in chan'[p][c].members, Home[n] = s
                PROVE  <<c, n>> \in shown'[s][p]
    BY DEF Private, MembersAt
  <2>1. n \in Nicks
    <3>1. chan'[p][c].members \in SUBSET Nicks
      BY <1>0, NextInv DEF Inv, TablesOK, Channel
    <3>. QED BY <3>1
  <2>2. n \in chan[p][c].members \/ <<c, n>> \in shown[s][p]
    BY <1>2, <2>1
  <2>3. shown[s][p] \subseteq shown'[s][p]
    BY <1>2, ShowGrows
  <2>. QED BY <1>0, <2>2, <2>3 DEF Private, MembersAt
<1>3. ASSUME Next, NEW s \in Servers, NEW n \in Nicks, Client(s, n) PROVE Discreet'
  <2>1. Show /\ LocalHome' /\ OthersSame(s) /\ MembersSame(s, s)
    BY <1>0, <1>3, ClientSame DEF Next
  <2>2. Private'
    BY <1>2, <2>1 DEF OthersSame, MembersSame
  <2>. QED BY <1>3, <2>1, <2>2, ClientOwn DEF Discreet
<1>4. ASSUME Next, NEW s \in Servers, NEW p \in Servers \ {s}, Connect(s, p) \/ CloseEnd(s, p)
      PROVE  Discreet'
  <2>1. Show /\ online' = online
    BY <1>4 DEF Next, Connect, known, CloseEnd
  <2>2. \A q \in Servers : \A c \in Chans : \A n \in Nicks :
          n \in chan'[q][c].members => n \in chan[q][c].members
    BY <1>4, CloseSame DEF Connect, known, OthersSame
  <2>3. Private'
    BY <1>2, <2>1, <2>2
  <2>. QED BY <1>0, <1>4, <2>1, <2>3, LinkOwn DEF Discreet, LocalHome
<1>5. ASSUME Next, NEW s \in Servers, NEW p \in Servers \ {s}, Receive(s, p) PROVE Discreet'
  <2>1. Show
    BY <1>5 DEF Next
  <2>2. /\ ReadSame(s, p)
        /\ \A c \in Chans : \A n \in chan'[s][c].members :
             n \in chan[s][c].members \/ Lists(Incoming(s, p), c, n)
    BY <1>0, <1>5, ReceiveSame
  <2>3. Own(p, s, Incoming(s, p))
    <3>1. wire[p][s] \in Seq(WireMsgs) /\ wire[p][s] # <<>>
      BY <1>5 DEF Receive, RecvServer, RecvBurst, RecvNick, RecvJoin, RecvPart, RecvQuitUser,
                  RecvRoomMeta, Reads, Inv, NetOK
    <3>. QED BY <1>0, <3>1, OnFacts DEF Incoming, OwnWire
  <2>4. \A c \in Chans : \A n : Lists(Incoming(s, p), c, n) => Home[n] = p /\ <<c, n>> \in shown[p][s]
    BY <2>3 DEF Lists, Own
  <2>5. Private'
    BY <1>2, <2>1, <2>2, <2>4 DEF ReadSame, OthersSame
  <2>. QED BY <1>0, <1>5, <2>1, <2>2, <2>5, ReceiveOwn DEF Discreet, ReadSame, LocalHome
<1>. QED BY <1>1, <1>3, <1>4, <1>5 DEF Next, Act

LEMMA DiscreetInit == Init => Discreet
BY DEF Init, Discreet, LocalHome, OwnWire, On, Private, MembersAt, NoChannel

\* No server lists a user of a peer in a channel that the peer's policy has never let it
\* see with that user: nothing is sent, in a burst or by a relayed JOIN, but what the
\* policy lets through at that moment (ServerLink.should_relay, send_burst, _handle_sjoin).
THEOREM PolicyKept == Spec => []Private
<1>1. Init => Inv /\ TracksOK /\ Discreet
  BY InitInv, DiscreetInit
<1>2. Inv /\ TracksOK /\ Discreet /\ [Next]_vars => (Inv /\ TracksOK /\ Discreet)'
  BY NextInv, DiscreetNext
<1>3. Discreet => Private
  BY DEF Discreet
<1>. QED BY <1>1, <1>2, <1>3, PTL DEF Spec

-----------------------------------------------------------------------------
(* Synced: what a peer will have read.                                      *)

\* The messages after which the peer has n, or has it no longer; those after which it
\* lists n in channel c, or does not.
Hails(n)     == {w \in WireMsgs : \/ w.type = "SNICK" /\ w.nick = n
                                  \/ w.type = "BURST" /\ n \in w.nicks}
Byes(n)      == {w \in WireMsgs : w.type = "SQUITUSER" /\ w.nick = n}
Enters(c, n) == {w \in WireMsgs : Lists(w, c, n)}
Leaves(c, n) == {w \in WireMsgs : \/ w.type = "SPART" /\ w.chan = c /\ w.nick = n
                                  \/ w.type = "SQUITUSER" /\ w.nick = n}

\* Whether the last word on something is that it is so, once the first k messages of t
\* are read: A say so, R say not, and b is how it is now.
Holds(t, b, A, R, k) ==
  \/ \E i \in 1..k : t[i] \in A /\ \A j \in (i + 1)..k : t[j] \notin R
  \/ b /\ \A j \in 1..k : t[j] \notin R

\* What a server has of its user n, here and of the channels In, is what the peer will
\* have, which now has there and listed, once it has read t; as to channels, only those
\* of C.  A message never lists n before the peer has it.
Agree(n, t, here, in, there, listed, C) ==
  /\ n \in here <=> Holds(t, n \in there, Hails(n), Byes(n), Len(t))
  /\ \A c \in C : c \in in <=> Holds(t, c \in listed, Enters(c, n), Leaves(c, n), Len(t))
  /\ \A c \in Chans : \A k \in 1..Len(t) :
       t[k] \in Enters(c, n) => Holds(t, n \in there, Hails(n), Byes(n), k)

LEMMA HoldsWritten ==
  ASSUME NEW S, NEW t \in Seq(S), NEW w \in S, NEW x, NEW B, NEW A, NEW R
  PROVE  /\ \A k \in 0..Len(t) : Holds(t \o <<w>>, x \in B, A, R, k) <=> Holds(t, x \in B, A, R, k)
         /\ Holds(t \o <<w>>, x \in B, A, R, Len(t) + 1) <=>
              w \in A \/ (Holds(t, x \in B, A, R, Len(t)) /\ w \notin R)
<1>. DEFINE u == t \o <<w>>
            l == Len(t)
<1>1. l \in Nat /\ (\A i \in 1..l : u[i] = t[i]) /\ u[l + 1] = w
  BY AppendProperties, AppendIsConcat, LenProperties
<1>. HIDE DEF u, l
<1>2. ASSUME NEW k \in 0..l PROVE Holds(u, x \in B, A, R, k) <=> Holds(t, x \in B, A, R, k)
  <2>1. \A i \in 1..k : u[i] = t[i] /\ \A j \in (i + 1)..k : u[j] = t[j]
    BY <1>1
  <2>. QED BY <2>1 DEF Holds
<1>3. Holds(u, x \in B, A, R, l + 1) <=> w \in A \/ (Holds(u, x \in B, A, R, l) /\ w \notin R)
  <2>1. ASSUME Holds(u, x \in B, A, R, l + 1)
        PROVE  w \in A \/ (Holds(u, x \in B, A, R, l) /\ w \notin R)
    <3>1. CASE \E i \in 1..(l + 1) : u[i] \in A /\ \A j \in (i + 1)..(l + 1) : u[j] \notin R
      <4>1. PICK i \in 1..(l + 1) : u[i] \in A /\ \A j \in (i + 1)..(l + 1) : u[j] \notin R
        BY <3>1
      <4>2. CASE i = l + 1
        BY <1>1, <4>1, <4>2
      <4>3. CASE i # l + 1
        <5>1. i \in 1..l /\ l + 1 \in (i + 1)..(l + 1) /\ \A j \in (i + 1)..l : j \in (i + 1)..(l + 1)
          BY <1>1, <4>3
        <5>. QED BY <1>1, <4>1, <5>1 DEF Holds
      <4>. QED BY <4>2, <4>3
    <3>2. CASE x \in B /\ \A j \in 1..(l + 1) : u[j] \notin R
      <4>1. l + 1 \in 1..(l + 1) /\ \A j \in 1..l : j \in 1..(l + 1)
        BY <1>1
      <4>. QED BY <1>1, <3>2, <4>1 DEF Holds
    <3>. QED BY <2>1, <3>1, <3>2 DEF Holds
  <2>2. ASSUME w \in A PROVE Holds(u, x \in B, A, R, l + 1)
    <3>1. l + 1 \in 1..(l + 1) /\ \A j \in (l + 2)..(l + 1) : FALSE
      BY <1>1
    <3>. QED BY <1>1, <2>2, <3>1 DEF Holds
  <2>3. ASSUME Holds(u, x \in B, A, R, l), w \notin R PROVE Holds(u, x \in B, A, R, l + 1)
    <3>1. CASE \E i \in 1..l : u[i] \in A /\ \A j \in (i + 1)..l : u[j] \notin R
      <4>1. PICK i \in 1..l : u[i] \in A /\ \A j \in (i + 1)..l : u[j] \notin R
        BY <3>1
      <4>2. i \in 1..(l + 1) /\ \A j \in (i + 1)..(l + 1) : j \in (i + 1)..l \/ j = l + 1
        BY <1>1
      <4>. QED BY <1>1, <2>3, <4>1, <4>2 DEF Holds
    <3>2. CASE x \in B /\ \A j \in 1..l : u[j] \notin R
      <4>1. \A j \in 1..(l + 1) : j \in 1..l \/ j = l + 1
        BY <1>1
      <4>. QED BY <1>1, <2>3, <3>2, <4>1 DEF Holds
    <3>. QED BY <2>3, <3>1, <3>2 DEF Holds
  <2>. QED BY <2>1, <2>2, <2>3
<1>4. Holds(u, x \in B, A, R, l) <=> Holds(t, x \in B, A, R, l)
  BY <1>1, <1>2
<1>. QED BY <1>2, <1>3, <1>4 DEF u, l

LEMMA HoldsRead ==
  ASSUME NEW S, NEW t \in Seq(S), t # <<>>, NEW x, NEW B, NEW A, NEW R,
         NEW y, NEW D, y \in D <=> Head(t) \in A \/ (x \in B /\ Head(t) \notin R)
  PROVE  \A k \in 1..Len(t) : Holds(t, x \in B, A, R, k) <=> Holds(Tail(t), y \in D, A, R, k - 1)
<1>. DEFINE u == Tail(t)
            l == Len(t)
<1>1. l \in Nat \ {0} /\ (\A i \in 1..(l - 1) : u[i] = t[i + 1]) /\ Head(t) = t[1]
  BY HeadTailProperties, LenProperties, EmptySeq
<1>. HIDE DEF u, l
<1>. SUFFICES ASSUME NEW k \in 1..l PROVE Holds(t, x \in B, A, R, k) <=> Holds(u, y \in D, A, R, k - 1)
  BY DEF u, l
<1>2. \A i \in 1..(k - 1) : u[i] = t[i + 1]
  BY <1>1
<1>3. y \in D <=> t[1] \in A \/ (x \in B /\ t[1] \notin R)
  BY <1>1
<1>4. ASSUME Holds(t, x \in B, A, R, k) PROVE Holds(u, y \in D, A, R, k - 1)
  <2>1. CASE \E i \in 1..k : t[i] \in A /\ \A j \in (i + 1)..k : t[j] \notin R
    <3>1. PICK i \in 1..k : t[i] \in A /\ \A j \in (i + 1)..k : t[j] \notin R
      BY <2>1
    <3>2. CASE i = 1
      <4>1. y \in D /\ \A j \in 1..(k - 1) : j + 1 \in 2..k
        BY <1>3, <3>1, <3>2
      <4>. QED BY <1>2, <3>1, <3>2, <4>1 DEF Holds
    <3>3. CASE i # 1
      <4>1. i - 1 \in 1..(k - 1) /\ u[i - 1] = t[i]
        BY <1>2, <3>3
      <4>2. \A j \in ((i - 1) + 1)..(k - 1) : j \in 1..(k - 1) /\ j + 1 \in (i + 1)..k
        BY <3>3
      <4>. QED BY <1>2, <3>1, <4>1, <4>2 DEF Holds
    <3>. QED BY <3>2, <3>3
  <2>2. CASE x \in B /\ \A j \in 1..k : t[j] \notin R
    <3>1. 1 \in 1..k /\ \A j \in 1..(k - 1) : j + 1 \in 1..k
      OBVIOUS
    <3>. QED BY <1>2, <1>3, <2>2, <3>1 DEF Holds
  <2>. QED BY <1>4, <2>1, <2>2 DEF Holds
<1>5. ASSUME Holds(u, y \in D, A, R, k - 1) PROVE Holds(t, x \in B, A, R, k)
  <2>1. CASE \E i \in 1..(k - 1) : u[i] \in A /\ \A j \in (i + 1)..(k - 1) : u[j] \notin R
    <3>1. PICK i \in 1..(k - 1) : u[i] \in A /\ \A j \in (i + 1)..(k - 1) : u[j] \notin R
      BY <2>1
    <3>2. i + 1 \in 1..k /\ t[i + 1] \in A
      BY <1>2, <3>1
    <3>3. \A j \in ((i + 1) + 1)..k : j - 1 \in (i + 1)..(k - 1) /\ t[j] = u[j - 1]
      BY <1>2
    <3>. QED BY <3>1, <3>2, <3>3 DEF Holds
  <2>2. CASE y \in D /\ \A j \in 1..(k - 1) : u[j] \notin R
    <3>1. \A j \in 2..k : j - 1 \in 1..(k - 1) /\ t[j] = u[j - 1]
      BY <1>2
    <3>2. \A j \in 2..k : t[j] \notin R
      BY <2>2, <3>1
    <3>3. CASE t[1] \in A
      <4>1. 1 \in 1..k /\ (1 + 1)..k = 2..k
        OBVIOUS
      <4>. QED BY <3>2, <3>3, <4>1 DEF Holds
    <3>4. CASE x \in B /\ t[1] \notin R
      <4>1. \A j \in 1..k : j = 1 \/ j \in 2..k
        OBVIOUS
      <4>. QED BY <3>2, <3>4, <4>1 DEF Holds
    <3>. QED BY <1>3, <2>2, <3>3, <3>4
  <2>. QED BY <1>5, <2>1, <2>2 DEF Holds
<1>. QED BY <1>4, <1>5

LEMMA AgreeWritten ==
  ASSUME NEW n \in Nicks, NEW t \in Seq(WireMsgs), NEW w \in WireMsgs,
         NEW here, NEW in, NEW there, NEW listed, NEW C,
         Agree(n, t, here, in, there, listed, C),
         NEW now, NEW next, NEW D \in SUBSET C,
         n \in now <=> w \in Hails(n) \/ (n \in here /\ w \notin Byes(n)),
         \A c \in D : c \in next <=> w \in Enters(c, n) \/ (c \in in /\ w \notin Leaves(c, n)),
         \A c \in Chans : w \in Enters(c, n) => n \in now
  PROVE  Agree(n, t \o <<w>>, now, next, there, listed, D)
<1>. DEFINE u == t \o <<w>>
            l == Len(t)
<1>1. l \in Nat /\ Len(u) = l + 1 /\ (\A i \in 1..l : u[i] = t[i]) /\ u[l + 1] = w
  BY AppendProperties, AppendIsConcat, LenProperties
<1>2. /\ \A k \in 0..l : Holds(u, n \in there, Hails(n), Byes(n), k)
                           <=> Holds(t, n \in there, Hails(n), Byes(n), k)
      /\ Holds(u, n \in there, Hails(n), Byes(n), l + 1) <=>
           w \in Hails(n) \/ (Holds(t, n \in there, Hails(n), Byes(n), l) /\ w \notin Byes(n))
  BY HoldsWritten
<1>3. \A c \in D : Holds(u, c \in listed, Enters(c, n), Leaves(c, n), l + 1) <=>
        w \in Enters(c, n) \/ (Holds(t, c \in listed, Enters(c, n), Leaves(c, n), l)
                               /\ w \notin Leaves(c, n))
  <2>. SUFFICES ASSUME NEW c \in D
                PROVE  Holds(u, c \in listed, Enters(c, n), Leaves(c, n), l + 1) <=>
                         w \in Enters(c, n)
                         \/ (Holds(t, c \in listed, Enters(c, n), Leaves(c, n), l)
                             /\ w \notin Leaves(c, n))
    OBVIOUS
  <2>. QED BY HoldsWritten
<1>. HIDE DEF u, l
<1>4. n \in now <=> Holds(u, n \in there, Hails(n), Byes(n), Len(u))
  BY <1>1, <1>2 DEF Agree, l
<1>5. \A c \in D : c \in next <=> Holds(u, c \in listed, Enters(c, n), Leaves(c, n), Len(u))
  BY <1>1, <1>3 DEF Agree, l
<1>6. ASSUME NEW c \in Chans, NEW k \in 1..Len(u), u[k] \in Enters(c, n)
      PROVE  Holds(u, n \in there, Hails(n), Byes(n), k)
  <2>1. CASE k = l + 1
    BY <1>1, <1>4, <1>6, <2>1
  <2>2. CASE k # l + 1
    <3>1. k \in 1..l /\ k \in 0..l
      BY <1>1, <2>2
    <3>. QED BY <1>1, <1>2, <1>6, <3>1 DEF Agree, l
  <2>. QED BY <2>1, <2>2
<1>. QED BY <1>4, <1>5, <1>6 DEF Agree, u

LEMMA AgreeRead ==
  ASSUME NEW n \in Nicks, NEW t \in Seq(WireMsgs), t # <<>>,
         NEW here, NEW in, NEW there, NEW listed, NEW C,
         Agree(n, t, here, in, there, listed, C),
         NEW now, NEW next, NEW D \in SUBSET C,
         n \in now <=> Head(t) \in Hails(n) \/ (n \in there /\ Head(t) \notin Byes(n)),
         \A c \in D : c \in next <=>
           Head(t) \in Enters(c, n) \/ (c \in listed /\ Head(t) \notin Leaves(c, n))
  PROVE  Agree(n, Tail(t), here, in, now, next, D)
<1>. DEFINE u == Tail(t)
            l == Len(t)
<1>1. l \in Nat \ {0} /\ Len(u) = l - 1 /\ (\A i \in 1..(l - 1) : u[i] = t[i + 1])
  BY HeadTailProperties, LenProperties, EmptySeq
<1>2. \A k \in 1..l : Holds(t, n \in there, Hails(n), Byes(n), k)
                        <=> Holds(u, n \in now, Hails(n), Byes(n), k - 1)
  BY HoldsRead
<1>3. \A c \in D : \A k \in 1..l :
        Holds(t, c \in listed, Enters(c, n), Leaves(c, n), k)
          <=> Holds(u, c \in next, Enters(c, n), Leaves(c, n), k - 1)
  <2>. SUFFICES ASSUME NEW c \in D
                PROVE  \A k \in 1..l : Holds(t, c \in listed, Enters(c, n), Leaves(c, n), k)
                         <=> Holds(u, c \in next, Enters(c, n), Leaves(c, n), k - 1)
    OBVIOUS
  <2>1. c \in next <=> Head(t) \in Enters(c, n) \/ (c \in listed /\ Head(t) \notin Leaves(c, n))
    OBVIOUS
  <2>. QED BY <2>1, HoldsRead
<1>. HIDE DEF u, l
<1>4. l \in 1..l
  BY <1>1
<1>5. n \in here <=> Holds(u, n \in now, Hails(n), Byes(n), Len(u))
  BY <1>1, <1>2, <1>4 DEF Agree, l
<1>6. \A c \in D : c \in in <=> Holds(u, c \in next, Enters(c, n), Leaves(c, n), Len(u))
  BY <1>1, <1>3, <1>4 DEF Agree, l
<1>7. ASSUME NEW c \in Chans, NEW k \in 1..Len(u), u[k] \in Enters(c, n)
      PROVE  Holds(u, n \in now, Hails(n), Byes(n), k)
  <2>1. k + 1 \in 1..l /\ t[k + 1] \in Enters(c, n) /\ (k + 1) - 1 = k
    BY <1>1, <1>7
  <2>2. Holds(t, n \in there, Hails(n), Byes(n), k + 1)
    BY <2>1 DEF Agree, l
  <2>3. Holds(u, n \in now, Hails(n), Byes(n), (k + 1) - 1)
    BY <1>2, <2>1, <2>2
  <2>. QED BY <2>1, <2>3
<1>. QED BY <1>5, <1>6, <1>7 DEF Agree, u

\* It counts for fewer channels, and only what it says of those matters.
LEMMA AgreeSame ==
  ASSUME NEW n \in Nicks, NEW t \in Seq(WireMsgs),
         NEW here, NEW in, NEW there, NEW listed, NEW C,
         Agree(n, t, here, in, there, listed, C),
         NEW H, n \in H <=> n \in here, NEW T, n \in T <=> n \in there,
         NEW next, NEW lists, NEW D \in SUBSET C,
         \A c \in D : (c \in next <=> c \in in) /\ (c \in lists <=> c \in listed)
  PROVE  Agree(n, t, H, next, T, lists, D)
<1>1. \A A, R, k : Holds(t, n \in T, A, R, k) <=> Holds(t, n \in there, A, R, k)
  BY DEF Holds
<1>2. ASSUME NEW c \in D, NEW A, NEW R, NEW k
      PROVE  Holds(t, c \in lists, A, R, k) <=> Holds(t, c \in listed, A, R, k)
  BY DEF Holds
<1>3. \A c \in D : c \in next <=> Holds(t, c \in lists, Enters(c, n), Leaves(c, n), Len(t))
  <2>. SUFFICES ASSUME NEW c \in D
                PROVE  c \in next <=> Holds(t, c \in lists, Enters(c, n), Leaves(c, n), Len(t))
    OBVIOUS
  <2>1. c \in in <=> Holds(t, c \in listed, Enters(c, n), Leaves(c, n), Len(t))
    BY DEF Agree
  <2>. QED BY <1>2, <2>1
<1>. QED BY <1>1, <1>3 DEF Agree

\* Before anything is told nobody is known.
LEMMA AgreeAtFirst ==
  ASSUME NEW n \in Nicks, NEW t \in Seq(WireMsgs), \A i \in DOMAIN t : t[i] = SERVER,
         NEW there, n \notin there, NEW listed, NEW C, \A c \in C : c \notin listed
  PROVE  Agree(n, t, {}, {}, there, listed, C)
<1>1. DOMAIN t = 1..Len(t)
  BY LenProperties
<1>2. /\ SERVER \notin Hails(n)
      /\ \A c : SERVER \notin Enters(c, n)
  BY DEF SERVER, Hails, Enters, Lists
<1>. QED BY <1>1, <1>2 DEF Agree, Holds

LEMMA AgreeAtLast ==
  ASSUME NEW n, NEW here, NEW in, NEW there, NEW listed, NEW C,
         Agree(n, <<>>, here, in, there, listed, C)
  PROVE  (n \in here <=> n \in there) /\ \A c \in C : c \in in <=> c \in listed
<1>1. \A x, B, A, R : Holds(<<>>, x \in B, A, R, Len(<<>>)) <=> x \in B
  BY DEF Holds
<1>. QED BY <1>1 DEF Agree

-----------------------------------------------------------------------------
(* Channels that are there, and policy that has let them through.           *)

\* Only a channel that is there has members.
Solid(ch)   == ch.exists \/ ch.members = {}
AllSolid    == \A s \in Servers : \A c \in Chans : Solid(chan[s][c])

\* What steady counts does flow.
SteadyFlows == \A s, p \in Servers : \A c \in steady[s][p] : Flows(s, p, c)

LEMMA SolidOK ==
  ASSUME NEW ch \in Channel, Solid(ch)
  PROVE  /\ \A s, n : Solid(WithMember(s, ch, n)) /\ Solid(WithoutMember(s, ch, n))
         /\ \A N : Solid(WithoutRemote(ch, N))
         /\ \A s, p, N, users : Solid(Joined(s, p, ch, N, users))
         /\ \A s, p, x : Solid(WithMeta(s, p, ch, x))
BY DEF Solid, Channel, WithMember, WithoutMember, WithoutRemote, Joined, WithMeta, Created, NoChannel

\* The channels of one server change, or one of them.
LEMMA SolidStep ==
  ASSUME Inv, AllSolid, NEW s \in Servers, NEW new, chan' = [chan EXCEPT ![s] = new],
         \A c \in Chans : Solid(new[c])
  PROVE  AllSolid'
<1>1. \A r \in Servers : chan'[r] = IF r = s THEN new ELSE chan[r]
  BY DEF Inv, TablesOK
<1>. QED BY <1>1 DEF AllSolid, Solid

LEMMA SolidOne ==
  ASSUME Inv, AllSolid, NEW s \in Servers, NEW c \in Chans, NEW ch,
         chan' = [chan EXCEPT ![s][c] = ch], Solid(ch)
  PROVE  AllSolid'
<1>1. \A r \in Servers : \A d \in Chans : chan'[r][d] = IF r = s /\ d = c THEN ch ELSE chan[r][d]
  BY DEF Inv, TablesOK
<1>. QED BY <1>1 DEF AllSolid, Solid

LEMMA ClientSolid ==
  ASSUME Inv, AllSolid, NEW s \in Servers, NEW n \in Nicks, Client(s, n)
  PROVE  AllSolid'
<1>0. /\ \A c \in Chans : chan[s][c] \in Channel /\ Solid(chan[s][c])
      /\ chan \in [Servers -> [Chans -> Channel]]
  BY DEF Inv, TablesOK, AllSolid
<1>1. CASE Register(s, n)
  BY <1>1 DEF Register, AllSolid, Solid
<1>2. CASE Quit(s, n) \/ Vanish(s, n)
  <2>. DEFINE new == [c \in Chans |-> WithoutMember(s, chan[s][c], n)]
  <2>1. chan' = [chan EXCEPT ![s] = new]
    BY <1>2 DEF Quit, Vanish, Removed
  <2>2. \A c \in Chans : Solid(new[c])
    BY <1>0, SolidOK
  <2>. HIDE DEF new
  <2>. QED BY <2>1, <2>2, SolidStep
<1>3. ASSUME NEW m \in Nicks, Rename(s, n, m) PROVE AllSolid'
  <2>. DEFINE Now(N) == {IF x = n THEN m ELSE x : x \in N}
              new == [c \in Chans |-> [chan[s][c] EXCEPT !.members = Now(@), !.operators = Now(@)]]
  <2>1. chan' = [chan EXCEPT ![s] = new]
    BY <1>3 DEF Rename
  <2>2. \A N : N = {} => Now(N) = {}
    OBVIOUS
  <2>3. \A c \in Chans : Solid(new[c])
    <3>. HIDE DEF Now
    <3>. QED BY <1>0, <2>2 DEF Solid, Channel
  <2>. HIDE DEF new
  <2>. QED BY <2>1, <2>3, SolidStep
<1>4. ASSUME NEW c \in Chans, Join(s, n, c) \/ Part(s, n, c) PROVE AllSolid'
  <2>1. \/ chan' = [chan EXCEPT ![s][c] = WithMember(s, chan[s][c], n)]
        \/ chan' = [chan EXCEPT ![s][c] = WithoutMember(s, chan[s][c], n)]
    BY <1>0, <1>4 DEF Join, Part
  <2>2. Solid(WithMember(s, chan[s][c], n)) /\ Solid(WithoutMember(s, chan[s][c], n))
    BY <1>0, SolidOK
  <2>. QED BY <2>1, <2>2, SolidOne
<1>5. ASSUME NEW c \in Chans, NEW x \in BOOLEAN, RoomCreate(s, n, c, x) PROVE AllSolid'
  <2>. DEFINE ch == [WithMember(s, chan[s][c], n) EXCEPT !.managed = TRUE, !.persistent = x]
  <2>1. chan' = [chan EXCEPT ![s][c] = ch]
    BY <1>0, <1>5 DEF RoomCreate
  <2>2. Solid(ch)
    BY <1>0 DEF Solid, WithMember, Created, Channel
  <2>. HIDE DEF ch
  <2>. QED BY <2>1, <2>2, SolidOne
<1>6. ASSUME NEW c \in Chans, NEW x \in BOOLEAN, NEW S \in SUBSET (Servers \ {s}),
             SetPolicy(s, n, c, x, S)
      PROVE  AllSolid'
  <2>. DEFINE ch == [chan[s][c] EXCEPT !.restricted = x, !.shared_with = S]
  <2>1. chan' = [chan EXCEPT ![s][c] = ch]
    BY <1>0, <1>6 DEF SetPolicy
  <2>2. Solid(ch)
    BY <1>0 DEF Solid, Channel
  <2>. HIDE DEF ch
  <2>. QED BY <2>1, <2>2, SolidOne
<1>7. ASSUME NEW c \in Chans, NEW m \in Nicks, SetOperators(s, n, c, m) PROVE AllSolid'
  <2>. DEFINE ops == IF m \in chan[s][c].operators
                     THEN Promoted(chan[s][c].operators \ {m}, chan[s][c].members)
                     ELSE chan[s][c].operators \cup {m}
              ch == [chan[s][c] EXCEPT !.operators = ops]
  <2>1. chan' = [chan EXCEPT ![s][c] = ch]
    BY <1>0, <1>7 DEF SetOperators
  <2>2. Solid(ch)
    <3>. HIDE DEF ops
    <3>. QED BY <1>0 DEF Solid, Channel
  <2>. HIDE DEF ch
  <2>. QED BY <2>1, <2>2, SolidOne
<1>8. ASSUME NEW c \in Chans, ChanArchive(s, n, c) PROVE AllSolid'
  <2>. DEFINE ch == [chan[s][c] EXCEPT !.archived = TRUE, !.persistent = TRUE]
  <2>1. chan' = [chan EXCEPT ![s][c] = ch]
    BY <1>0, <1>8 DEF ChanArchive
  <2>2. Solid(ch)
    BY <1>0 DEF Solid, Channel
  <2>. HIDE DEF ch
  <2>. QED BY <2>1, <2>2, SolidOne
<1>. QED BY <1>1, <1>2, <1>3, <1>4, <1>5, <1>6, <1>7, <1>8 DEF Client

LEMMA ReceiveSolid ==
  ASSUME Inv, AllSolid, NEW s \in Servers, NEW p \in Servers \ {s}, Receive(s, p)
  PROVE  AllSolid'
<1>. DEFINE w == Incoming(s, p)
<1>0. /\ \A c \in Chans : chan[s][c] \in Channel /\ Solid(chan[s][c])
      /\ chan \in [Servers -> [Chans -> Channel]]
  BY DEF Inv, TablesOK, AllSolid
<1>1. CASE UNCHANGED chan
  BY <1>1 DEF AllSolid, Solid
<1>2. CASE RecvJoin(s, p)
  <2>1. w.chan \in Chans
    BY <1>2, IncomingOK DEF RecvJoin, WireMsgs
  <2>2. chan' = [chan EXCEPT ![s][w.chan] = Joined(s, p, chan[s][w.chan], {w.nick}, remote[s])]
    BY <1>0, <1>2, <2>1 DEF RecvJoin
  <2>3. Solid(Joined(s, p, chan[s][w.chan], {w.nick}, remote[s]))
    BY <1>0, <2>1, SolidOK
  <2>. HIDE DEF w
  <2>. QED BY <2>1, <2>2, <2>3, SolidOne
<1>3. CASE RecvRoomMeta(s, p)
  <2>1. w.chan \in Chans
    BY <1>3, IncomingOK DEF RecvRoomMeta, WireMsgs
  <2>2. chan' = [chan EXCEPT ![s][w.chan] = WithMeta(s, p, chan[s][w.chan], w.persistent)]
    BY <1>0, <1>3, <2>1 DEF RecvRoomMeta
  <2>3. Solid(WithMeta(s, p, chan[s][w.chan], w.persistent))
    BY <1>0, <2>1, SolidOK
  <2>. HIDE DEF w
  <2>. QED BY <2>1, <2>2, <2>3, SolidOne
<1>4. CASE RecvPart(s, p)
  <2>1. w.chan \in Chans
    BY <1>4, IncomingOK DEF RecvPart, WireMsgs
  <2>2. \/ chan' = [chan EXCEPT ![s][w.chan] = WithoutRemote(chan[s][w.chan], {w.nick})]
        \/ chan' = chan
    BY <1>0, <1>4, <2>1 DEF RecvPart
  <2>3. Solid(WithoutRemote(chan[s][w.chan], {w.nick}))
    BY <1>0, <2>1, SolidOK
  <2>. HIDE DEF w
  <2>. QED BY <1>1, <2>1, <2>2, <2>3, SolidOne
<1>5. CASE RecvQuitUser(s, p)
  <2>. DEFINE new == [c \in Chans |-> IF w.nick \in remote[s] THEN WithoutRemote(chan[s][c], {w.nick})
                                      ELSE chan[s][c]]
  <2>1. chan' = [chan EXCEPT ![s] = new]
    BY <1>5 DEF RecvQuitUser
  <2>2. \A c \in Chans : Solid(new[c])
    BY <1>0, SolidOK
  <2>. HIDE DEF new
  <2>. QED BY <2>1, <2>2, SolidStep
<1>6. CASE RecvBurst(s, p)
  <2>. DEFINE users == remote[s] \cup {n \in w.nicks : Home[n] = p}
              Now(c) == LET ch == Joined(s, p, chan[s][c], w.joins[c], users) IN
                        IF \E x \in BOOLEAN : <<c, x>> \in w.rooms
                        THEN WithMeta(s, p, ch, <<c, TRUE>> \in w.rooms) ELSE ch
              new == [c \in Chans |-> Now(c)]
  <2>1. chan' = [chan EXCEPT ![s] = new]
    BY <1>6 DEF RecvBurst
  <2>. HIDE DEF users, w
  <2>2. ASSUME NEW c \in Chans PROVE Solid(new[c])
    <3>. DEFINE ch == Joined(s, p, chan[s][c], w.joins[c], users)
    <3>1. Solid(ch)
      BY <1>0, SolidOK
    <3>. HIDE DEF ch
    <3>2. \A x : Solid(WithMeta(s, p, ch, x))
      BY <3>1 DEF Solid, WithMeta, Created
    <3>. QED BY <3>1, <3>2 DEF ch
  <2>. HIDE DEF new
  <2>. QED BY <2>1, <2>2, SolidStep
<1>. QED
  BY <1>1, <1>2, <1>3, <1>4, <1>5, <1>6 DEF Receive, RecvServer, RecvNick, known

LEMMA CloseSolid ==
  ASSUME Inv, AllSolid, NEW s \in Servers, NEW p \in Servers \ {s}, CloseEnd(s, p)
  PROVE  AllSolid'
<1>. DEFINE gone == Behind(s, p)
            new  == [c \in Chans |-> WithoutRemote(chan[s][c], gone)]
<1>1. chan' = [chan EXCEPT ![s] = new]
  BY DEF CloseEnd
<1>2. \A c \in Chans : Solid(new[c])
  BY SolidOK DEF Inv, TablesOK, AllSolid
<1>. HIDE DEF new
<1>. QED BY <1>1, <1>2, SolidStep

LEMMA TrackGives ==
  ASSUME TracksOK, Track, NEW s \in Servers, NEW p \in Servers
  PROVE  /\ \A c \in steady'[s][p] : Flows(s, p, c)'
         /\ state[s][p] = "linked" \/ state'[s][p] # "linked" => steady'[s][p] \subseteq steady[s][p]
         /\ steady'[s][p] \subseteq Chans
BY DEF TracksOK, Track

-----------------------------------------------------------------------------
(* Synced: both ends of a link.                                             *)

\* s has registered its link to p, which still reads from it.
Linked(s, p) == state[s][p] = "linked" /\ state[p][s] # "down"

\* The channels that n is in, as s has it.
In(s, n) == {c \in Chans : n \in chan[s][c].members}

\* The peer will have what s has of those who no unannounced change has touched.
View(s, p, n) == Agree(n, wire[s][p], online[s], In(s, n), remote[p], In(p, n), steady[s][p])
Told(s, p)    == Linked(s, p) => \A n \in Nicks \ odd : Home[n] = s => View(s, p, n)

\* Before s registers the link it has told p nothing.
Fresh(s, p) == state[s][p] = "open" => /\ \A w \in On(wire[s][p]) : w = SERVER
                                       /\ \A n \in remote[p] : Home[n] # s

\* The inductive invariant of Synced.
Aligned == /\ AllSolid /\ SteadyFlows
           /\ \A s \in Servers : \A p \in Servers \ {s} : Fresh(s, p) /\ Told(s, p)

LEMMA About ==
  ASSUME NEW n \in Nicks, NEW m \in Nicks, NEW c \in Chans, NEW d \in Chans
  PROVE  /\ SNICK(m) \in Hails(n) <=> m = n
         /\ SNICK(m) \notin Byes(n) \cup Enters(d, n) \cup Leaves(d, n)
         /\ SQUITUSER(m) \in Byes(n) <=> m = n
         /\ SQUITUSER(m) \in Leaves(d, n) <=> m = n
         /\ SQUITUSER(m) \notin Hails(n) \cup Enters(d, n)
         /\ SJOIN(c, m) \in Enters(d, n) <=> c = d /\ m = n
         /\ SJOIN(c, m) \notin Hails(n) \cup Byes(n) \cup Leaves(d, n)
         /\ SPART(c, m) \in Leaves(d, n) <=> c = d /\ m = n
         /\ SPART(c, m) \notin Hails(n) \cup Byes(n) \cup Enters(d, n)
         /\ \A x : SROOMMETA(c, x) \notin Hails(n) \cup Byes(n) \cup Enters(d, n) \cup Leaves(d, n)
         /\ SERVER \notin Hails(n) \cup Byes(n) \cup Enters(d, n) \cup Leaves(d, n)
BY MessagesOK
DEF Hails, Byes, Enters, Leaves, Lists, SNICK, SQUITUSER, SJOIN, SPART, SROOMMETA, SERVER

\* A step of s leaves n as it is, as far as p is concerned, or tells p of the change.
Keeps(s, p, n) ==
  /\ wire'[s][p] = wire[s][p]
  /\ n \in online'[s] <=> n \in online[s]
  /\ \A c \in steady'[s][p] : n \in chan'[s][c].members <=> n \in chan[s][c].members

Tells(s, p, n, w) ==
  /\ wire'[s][p] = wire[s][p] \o <<w>>
  /\ n \in online'[s] <=> w \in Hails(n) \/ (n \in online[s] /\ w \notin Byes(n))
  /\ \A c \in steady'[s][p] : n \in chan'[s][c].members <=>
       w \in Enters(c, n) \/ (n \in chan[s][c].members /\ w \notin Leaves(c, n))
  /\ \A c \in Chans : w \in Enters(c, n) => n \in online'[s]

LEMMA Sends ==
  ASSUME Inv, NEW s \in Servers, NEW p \in Servers \ {s}, Linked(s, p), NEW out,
         ToRegistered(s, out), Announce(out, s)
  PROVE  /\ \A w : out[p] = <<w>> => wire'[s][p] = wire[s][p] \o <<w>>
         /\ out[p] = <<>> => wire'[s][p] = wire[s][p]
<1>1. wire'[s][p] = wire[s][p] \o out[p]
  BY DEF Announce, Written, Linked, Inv, NetOK
<1>2. wire[s][p] \in Seq(WireMsgs)
  BY DEF Inv, NetOK
<1>3. ASSUME NEW w, out[p] = <<w>> PROVE wire'[s][p] = wire[s][p] \o <<w>>
  <2>. DEFINE u == <<w>>
  <2>1. out[p] = u
    BY <1>3
  <2>. HIDE DEF u
  <2>2. wire'[s][p] = wire[s][p] \o u
    BY <1>1, <2>1
  <2>. QED BY <2>2 DEF u
<1>. QED BY <1>1, <1>2, <1>3, ConcatEmptySeq

LEMMA ClientTells ==
  ASSUME Inv, TracksOK, LocalHome, AllSolid, SteadyFlows, Track,
         NEW s \in Servers, NEW m \in Nicks, Client(s, m), NEW p \in Servers \ {s}, Linked(s, p),
         NEW n \in Nicks, n \notin odd', Home[n] = s
  PROVE  Keeps(s, p, n) \/ \E w \in WireMsgs : Tells(s, p, n, w)
<1>0. /\ \A c \in Chans : chan[s][c] \in Channel /\ Solid(chan[s][c])
      /\ chan \in [Servers -> [Chans -> Channel]] /\ online \in [Servers -> SUBSET Nicks]
      /\ p \in Peers(s)
  BY DEF Inv, TablesOK, AllSolid, Linked, Peers
<1>1. state' = state
  BY DEF Client, Register, Quit, Vanish, Rename, Join, Part, RoomCreate, SetPolicy, SetOperators,
         ChanArchive, Announce, net
<1>2. /\ steady'[s][p] \subseteq Chans
      /\ \A c \in steady'[s][p] : Shared(s, p, chan[s][c])
  <2>1. steady'[s][p] \subseteq steady[s][p] /\ steady'[s][p] \subseteq Chans
    BY <1>1, TrackGives DEF Linked
  <2>. QED BY <2>1 DEF SteadyFlows, Flows
<1>3. ASSUME UNCHANGED net, n \in online'[s] <=> n \in online[s],
             \A c \in Chans : n \in chan'[s][c].members <=> n \in chan[s][c].members
      PROVE  Keeps(s, p, n)
  BY <1>2, <1>3 DEF Keeps, net
<1>4. CASE Register(s, m)
  <2>1. /\ online' = [online EXCEPT ![s] = online[s] \cup {m}] /\ chan' = chan
        /\ Announce(ToAll(s, SNICK(m)), s)
    BY <1>4 DEF Register
  <2>2. ToRegistered(s, ToAll(s, SNICK(m))) /\ ToAll(s, SNICK(m))[p] = <<SNICK(m)>>
    BY <1>0, MessagesOK, ToAllOK DEF ToAll
  <2>3. wire'[s][p] = wire[s][p] \o <<SNICK(m)>>
    BY <2>1, <2>2, Sends
  <2>4. online'[s] = online[s] \cup {m}
    BY <1>0, <2>1
  <2>5. n \in online'[s] <=> SNICK(m) \in Hails(n) \/ (n \in online[s] /\ SNICK(m) \notin Byes(n))
    <3>1. (SNICK(m) \in Hails(n) <=> m = n) /\ SNICK(m) \notin Byes(n)
      BY MessagesOK DEF Hails, Byes, SNICK
    <3>. QED BY <2>4, <3>1
  <2>6. \A c \in Chans : SNICK(m) \notin Enters(c, n) /\ SNICK(m) \notin Leaves(c, n)
    BY About
  <2>7. Tells(s, p, n, SNICK(m))
    BY <1>2, <2>1, <2>3, <2>5, <2>6 DEF Tells
  <2>. QED BY <2>7, MessagesOK
<1>5. CASE Quit(s, m)
  <2>1. Announce(ToAll(s, SQUITUSER(m)), s) /\ Removed(s, m)
    BY <1>5 DEF Quit
  <2>2. ToRegistered(s, ToAll(s, SQUITUSER(m))) /\ ToAll(s, SQUITUSER(m))[p] = <<SQUITUSER(m)>>
    BY <1>0, MessagesOK, ToAllOK DEF ToAll
  <2>3. wire'[s][p] = wire[s][p] \o <<SQUITUSER(m)>>
    BY <2>1, <2>2, Sends
  <2>4. /\ online'[s] = online[s] \ {m}
        /\ \A c \in Chans : chan'[s][c] = WithoutMember(s, chan[s][c], m)
    BY <1>0, <2>1 DEF Removed
  <2>5. \A c \in Chans : n \in chan'[s][c].members <=> n \in chan[s][c].members /\ n # m
    <3>1. \A ch \in Channel : n \in WithoutMember(s, ch, m).members <=> n \in ch.members /\ n # m
      BY DEF WithoutMember, NoChannel, Channel
    <3>. QED BY <1>0, <2>4, <3>1
  <2>6. n \in online'[s] <=>
          SQUITUSER(m) \in Hails(n) \/ (n \in online[s] /\ SQUITUSER(m) \notin Byes(n))
    <3>1. (SQUITUSER(m) \in Byes(n) <=> m = n) /\ SQUITUSER(m) \notin Hails(n)
      BY MessagesOK DEF Hails, Byes, SQUITUSER
    <3>. QED BY <2>4, <3>1
  <2>7. \A c \in Chans : /\ SQUITUSER(m) \notin Enters(c, n)
                         /\ SQUITUSER(m) \in Leaves(c, n) <=> m = n
    BY About
  <2>8. Tells(s, p, n, SQUITUSER(m))
    BY <1>2, <2>3, <2>5, <2>6, <2>7 DEF Tells
  <2>. QED BY <2>8, MessagesOK
<1>6. CASE Vanish(s, m)
  <2>1. n # m /\ UNCHANGED net /\ Removed(s, m)
    BY <1>6 DEF Vanish
  <2>2. /\ online'[s] = online[s] \ {m}
        /\ \A c \in Chans : chan'[s][c] = WithoutMember(s, chan[s][c], m)
    BY <1>0, <2>1 DEF Removed
  <2>3. \A c \in Chans : n \in chan'[s][c].members <=> n \in chan[s][c].members
    BY <1>0, <2>1, <2>2, WithoutMemberSame
  <2>. QED BY <1>3, <2>1, <2>2, <2>3
<1>7. ASSUME NEW k \in Nicks, Rename(s, m, k) PROVE Keeps(s, p, n)
  <2>. DEFINE Now(N) == {IF x = m THEN k ELSE x : x \in N}
              new == [c \in Chans |-> [chan[s][c] EXCEPT !.members = Now(@), !.operators = Now(@)]]
  <2>1. /\ n # m /\ n # k /\ UNCHANGED net
        /\ online' = [online EXCEPT ![s] = Now(online[s])] /\ chan' = [chan EXCEPT ![s] = new]
    BY <1>7 DEF Rename
  <2>2. \A N : n \in Now(N) <=> n \in N
    BY <2>1
  <2>3. \A c \in Chans : new[c].members = Now(chan[s][c].members)
    BY <1>0 DEF Channel
  <2>4. online'[s] = Now(online[s]) /\ chan'[s] = new
    BY <1>0, <2>1
  <2>. HIDE DEF Now, new
  <2>. QED BY <1>3, <2>1, <2>2, <2>3, <2>4
<1>8. ASSUME NEW c \in Chans, Join(s, m, c)
      PROVE  Keeps(s, p, n) \/ \E w \in WireMsgs : Tells(s, p, n, w)
  <2>. DEFINE out == [q \in Servers |-> IF q \in Peers(s) /\ Shared(s, q, chan[s][c])
                                        THEN <<SJOIN(c, m)>> ELSE <<>>]
  <2>1. /\ m \in online[s] /\ online' = online /\ Announce(out, s)
        /\ chan' = [chan EXCEPT ![s][c] = WithMember(s, chan[s][c], m)]
    BY <1>0, <1>8 DEF Join
  <2>2. ToRegistered(s, out)
    BY MessagesOK, EmptyOK, OneOK DEF ToRegistered, Peers
  <2>3. \A d \in Chans : n \in chan'[s][d].members <=> (d = c /\ n = m) \/ n \in chan[s][d].members
    BY <1>0, <2>1, WithMemberSame
  <2>4. CASE Shared(s, p, chan[s][c])
    <3>1. out[p] = <<SJOIN(c, m)>>
      BY <1>0, <2>4
    <3>. HIDE DEF out
    <3>2. wire'[s][p] = wire[s][p] \o <<SJOIN(c, m)>>
      BY <2>1, <2>2, <3>1, Sends
    <3>3. Tells(s, p, n, SJOIN(c, m))
      BY <1>2, <2>1, <2>3, <3>2, About DEF Tells
    <3>. QED BY <3>3, MessagesOK
  <2>5. CASE ~Shared(s, p, chan[s][c])
    <3>1. out[p] = <<>> /\ c \notin steady'[s][p]
      BY <1>2, <2>5
    <3>. HIDE DEF out
    <3>2. wire'[s][p] = wire[s][p]
      BY <2>1, <2>2, <3>1, Sends
    <3>. QED BY <1>2, <2>1, <2>3, <3>1, <3>2 DEF Keeps
  <2>. QED BY <2>4, <2>5
<1>9. ASSUME NEW c \in Chans, Part(s, m, c)
      PROVE  Keeps(s, p, n) \/ \E w \in WireMsgs : Tells(s, p, n, w)
  <2>. DEFINE out == Relayed(s, c, SPART(c, m))
  <2>1. /\ m \in chan[s][c].members /\ online' = online /\ Announce(out, s)
        /\ chan' = [chan EXCEPT ![s][c] = WithoutMember(s, chan[s][c], m)]
    BY <1>0, <1>9 DEF Part
  <2>2. ToRegistered(s, out)
    BY MessagesOK, RelayedOK
  <2>3. \A d \in Chans : n \in chan'[s][d].members <=> ~(d = c /\ n = m) /\ n \in chan[s][d].members
    <3>1. n \in WithoutMember(s, chan[s][c], m).members <=> n \in chan[s][c].members /\ n # m
      BY <1>0 DEF WithoutMember, NoChannel, Channel
    <3>2. \A d \in Chans : chan'[s][d] = IF d = c THEN WithoutMember(s, chan[s][c], m) ELSE chan[s][d]
      BY <1>0, <2>1
    <3>. QED BY <3>1, <3>2
  <2>4. CASE Shared(s, p, chan[s][c])
    <3>1. out[p] = <<SPART(c, m)>>
      BY <1>0, <2>1, <2>4 DEF Relayed, ShouldRelay, Solid
    <3>. HIDE DEF out
    <3>2. wire'[s][p] = wire[s][p] \o <<SPART(c, m)>>
      BY <2>1, <2>2, <3>1, Sends
    <3>3. Tells(s, p, n, SPART(c, m))
      BY <1>2, <2>1, <2>3, <3>2, About DEF Tells
    <3>. QED BY <3>3, MessagesOK
  <2>5. CASE ~Shared(s, p, chan[s][c])
    <3>1. out[p] = <<>> /\ c \notin steady'[s][p]
      BY <1>2, <2>5 DEF Relayed, ShouldRelay
    <3>. HIDE DEF out
    <3>2. wire'[s][p] = wire[s][p]
      BY <2>1, <2>2, <3>1, Sends
    <3>. QED BY <1>2, <2>1, <2>3, <3>1, <3>2 DEF Keeps
  <2>. QED BY <2>4, <2>5
<1>10. ASSUME NEW c \in Chans, NEW x \in BOOLEAN, RoomCreate(s, m, c, x)
       PROVE  Keeps(s, p, n) \/ \E w \in WireMsgs : Tells(s, p, n, w)
  <2>. DEFINE ch  == [WithMember(s, chan[s][c], m) EXCEPT !.managed = TRUE, !.persistent = x]
              out == [q \in Servers |-> IF q \in Peers(s) /\ Shared(s, q, NoChannel)
                                        THEN <<SROOMMETA(c, x)>> ELSE <<>>]
  <2>1. /\ n # m /\ online' = online /\ Announce(out, s) /\ chan' = [chan EXCEPT ![s][c] = ch]
    BY <1>0, <1>10 DEF RoomCreate
  <2>2. ch.members = chan[s][c].members \cup {m}
    BY <1>0 DEF WithMember, Created, Channel
  <2>. HIDE DEF ch
  <2>3. \A d \in Chans : n \in chan'[s][d].members <=> n \in chan[s][d].members
    BY <1>0, <2>1, <2>2
  <2>4. ToRegistered(s, out)
    BY MessagesOK, EmptyOK, OneOK DEF ToRegistered, Peers
  <2>5. out[p] = <<>> \/ out[p] = <<SROOMMETA(c, x)>>
    OBVIOUS
  <2>. HIDE DEF out
  <2>6. CASE out[p] = <<>>
    BY <1>2, <2>1, <2>3, <2>4, <2>6, Sends DEF Keeps
  <2>7. CASE out[p] = <<SROOMMETA(c, x)>>
    <3>1. wire'[s][p] = wire[s][p] \o <<SROOMMETA(c, x)>>
      BY <2>1, <2>4, <2>7, Sends
    <3>2. Tells(s, p, n, SROOMMETA(c, x))
      BY <1>2, <2>1, <2>3, <3>1, About DEF Tells
    <3>. QED BY <3>2, MessagesOK
  <2>. QED BY <2>5, <2>6, <2>7
<1>11. ASSUME NEW c \in Chans, NEW ch, UNCHANGED net, online' = online,
              chan' = [chan EXCEPT ![s][c] = ch], ch.members = chan[s][c].members
       PROVE  Keeps(s, p, n)
  <2>1. \A d \in Chans : n \in chan'[s][d].members <=> n \in chan[s][d].members
    BY <1>0, <1>11
  <2>. QED BY <1>3, <1>11, <2>1
<1>12. ASSUME NEW c \in Chans, NEW x \in BOOLEAN, NEW S \in SUBSET (Servers \ {s}),
              SetPolicy(s, m, c, x, S)
       PROVE  Keeps(s, p, n)
  <2>. DEFINE ch == [chan[s][c] EXCEPT !.restricted = x, !.shared_with = S]
  <2>1. chan' = [chan EXCEPT ![s][c] = ch] /\ UNCHANGED net /\ online' = online
    BY <1>0, <1>12 DEF SetPolicy
  <2>2. ch.members = chan[s][c].members
    BY <1>0 DEF Channel
  <2>. HIDE DEF ch
  <2>. QED BY <1>11, <2>1, <2>2
<1>13. ASSUME NEW c \in Chans, NEW k \in Nicks, SetOperators(s, m, c, k)
       PROVE  Keeps(s, p, n)
  <2>. DEFINE ops == IF k \in chan[s][c].operators
                     THEN Promoted(chan[s][c].operators \ {k}, chan[s][c].members)
                     ELSE chan[s][c].operators \cup {k}
              ch == [chan[s][c] EXCEPT !.operators = ops]
  <2>1. chan' = [chan EXCEPT ![s][c] = ch] /\ UNCHANGED net /\ online' = online
    BY <1>0, <1>13 DEF SetOperators
  <2>2. ch.members = chan[s][c].members
    <3>. HIDE DEF ops
    <3>. QED BY <1>0 DEF Channel
  <2>. HIDE DEF ch
  <2>. QED BY <1>11, <2>1, <2>2
<1>14. ASSUME NEW c \in Chans, ChanArchive(s, m, c) PROVE Keeps(s, p, n)
  <2>. DEFINE ch == [chan[s][c] EXCEPT !.archived = TRUE, !.persistent = TRUE]
  <2>1. chan' = [chan EXCEPT ![s][c] = ch] /\ UNCHANGED net /\ online' = online
    BY <1>0, <1>14 DEF ChanArchive
  <2>2. ch.members = chan[s][c].members
    BY <1>0 DEF Channel
  <2>. HIDE DEF ch
  <2>. QED BY <1>11, <2>1, <2>2
<1>. QED
  BY <1>4, <1>5, <1>6, <1>7, <1>8, <1>9, <1>10, <1>12, <1>13, <1>14 DEF Client

\* A step that neither end of a link takes for its users changes nothing about it.
LEMMA Kept ==
  ASSUME TracksOK, Track, Inv, NEW s \in Servers, NEW p \in Servers \ {s}, Told(s, p),
         Linked(s, p)' => Linked(s, p), odd \subseteq odd', wire'[s][p] = wire[s][p],
         \A n \in Nicks : Home[n] = s =>
           /\ n \in online'[s] <=> n \in online[s]
           /\ n \in remote'[p] <=> n \in remote[p]
           /\ \A c \in Chans : /\ n \in chan'[s][c].members <=> n \in chan[s][c].members
                               /\ n \in chan'[p][c].members <=> n \in chan[p][c].members
  PROVE  Told(s, p)'
<1>. SUFFICES ASSUME Linked(s, p)', NEW n \in Nicks, n \notin odd', Home[n] = s
              PROVE  View(s, p, n)'
  BY DEF Told
<1>1. View(s, p, n) /\ wire[s][p] \in Seq(WireMsgs)
  BY DEF Told, Inv, NetOK
<1>2. steady'[s][p] \subseteq steady[s][p] /\ steady'[s][p] \subseteq Chans
  BY TrackGives DEF Linked
<1>3. \A c \in steady'[s][p] : /\ c \in In(s, n)' <=> c \in In(s, n)
                               /\ c \in In(p, n)' <=> c \in In(p, n)
  BY <1>2 DEF In
<1>4. n \in online'[s] <=> n \in online[s]
  OBVIOUS
<1>5. n \in remote'[p] <=> n \in remote[p]
  OBVIOUS
<1>6. Agree(n, wire[s][p], online[s], In(s, n), remote[p], In(p, n), steady[s][p])
  BY <1>1 DEF View
<1>7. Agree(n, wire[s][p], online'[s], In(s, n)', remote'[p], In(p, n)', steady'[s][p])
  BY <1>1, <1>2, <1>3, <1>4, <1>5, <1>6, AgreeSame
<1>. QED BY <1>7 DEF View

LEMMA ClientNet ==
  ASSUME Inv, NEW s \in Servers, NEW n \in Nicks, Client(s, n)
  PROVE  /\ state' = state /\ odd \subseteq odd'
         /\ \A r \in Servers \ {s} : wire'[r] = wire[r]
         /\ \A p \in Servers : state[s][p] # "linked" => wire'[s][p] = wire[s][p]
<1>1. odd \subseteq odd'
  BY DEF Client, Register, Quit, Vanish, Rename, Join, Part, RoomCreate, SetPolicy, SetOperators,
         ChanArchive
<1>2. UNCHANGED net \/ \E out : ToRegistered(s, out) /\ Announce(out, s)
  <2>1. CASE Register(s, n)
    BY <2>1, MessagesOK, ToAllOK DEF Register
  <2>2. CASE Quit(s, n)
    BY <2>2, MessagesOK, ToAllOK DEF Quit
  <2>3. ASSUME NEW c \in Chans, Join(s, n, c) PROVE \E out : ToRegistered(s, out) /\ Announce(out, s)
    <3>. DEFINE out == [p \in Servers |-> IF p \in Peers(s) /\ Shared(s, p, chan[s][c])
                                          THEN <<SJOIN(c, n)>> ELSE <<>>]
    <3>1. Announce(out, s)
      BY <2>3 DEF Join
    <3>2. ToRegistered(s, out)
      BY MessagesOK, EmptyOK, OneOK DEF ToRegistered, Peers
    <3>. HIDE DEF out
    <3>. QED BY <3>1, <3>2
  <2>4. ASSUME NEW c \in Chans, Part(s, n, c) PROVE \E out : ToRegistered(s, out) /\ Announce(out, s)
    BY <2>4, MessagesOK, RelayedOK DEF Part
  <2>5. ASSUME NEW c \in Chans, NEW x \in BOOLEAN, RoomCreate(s, n, c, x)
        PROVE  \E out : ToRegistered(s, out) /\ Announce(out, s)
    <3>. DEFINE out == [p \in Servers |-> IF p \in Peers(s) /\ Shared(s, p, NoChannel)
                                          THEN <<SROOMMETA(c, x)>> ELSE <<>>]
    <3>1. Announce(out, s)
      BY <2>5 DEF RoomCreate
    <3>2. ToRegistered(s, out)
      BY MessagesOK, EmptyOK, OneOK DEF ToRegistered, Peers
    <3>. HIDE DEF out
    <3>. QED BY <3>1, <3>2
  <2>. QED
    BY <2>1, <2>2, <2>3, <2>4, <2>5
    DEF Client, Vanish, Rename, SetPolicy, SetOperators, ChanArchive
<1>3. CASE UNCHANGED net
  BY <1>1, <1>3 DEF net
<1>4. ASSUME NEW out, ToRegistered(s, out), Announce(out, s)
      PROVE  /\ state' = state
             /\ \A r \in Servers \ {s} : wire'[r] = wire[r]
             /\ \A p \in Servers : state[s][p] # "linked" => wire'[s][p] = wire[s][p]
  BY <1>4, WrittenOK DEF Announce, ToRegistered, Inv
<1>. QED BY <1>1, <1>2, <1>3, <1>4

LEMMA ClientAligned ==
  ASSUME Inv, TracksOK, LocalHome, Aligned, Track, NEW r \in Servers, NEW m \in Nicks, Client(r, m)
  PROVE  Aligned'
<1>1. /\ AllSolid' /\ SteadyFlows'
  BY ClientSolid, TrackGives DEF Aligned, SteadyFlows
<1>2. /\ state' = state /\ odd \subseteq odd' /\ remote' = remote
      /\ OthersSame(r) /\ MembersSame(r, r)
      /\ \A s \in Servers \ {r} : wire'[s] = wire[s]
      /\ \A p \in Servers : state[r][p] # "linked" => wire'[r][p] = wire[r][p]
  BY ClientNet, ClientSame
<1>3. ASSUME NEW s \in Servers, NEW p \in Servers \ {s} PROVE Fresh(s, p)'
  <2>1. state[s][p] = "open" => wire'[s][p] = wire[s][p]
    BY <1>2
  <2>. QED BY <1>2, <2>1 DEF Aligned, Fresh
<1>4. ASSUME NEW s \in Servers, NEW p \in Servers \ {s} PROVE Told(s, p)'
  <2>1. CASE r # s
    <3>1. wire'[s][p] = wire[s][p] /\ online'[s] = online[s] /\ chan'[s] = chan[s]
      BY <1>2, <2>1 DEF OthersSame
    <3>2. \A n \in Nicks : Home[n] = s => \A c \in Chans :
            n \in chan'[p][c].members <=> n \in chan[p][c].members
      BY <1>2, <2>1 DEF OthersSame, MembersSame
    <3>3. Linked(s, p)' => Linked(s, p)
      BY <1>2 DEF Linked
    <3>4. Told(s, p)
      BY DEF Aligned
    <3>. QED BY <1>2, <3>1, <3>2, <3>3, <3>4, Kept
  <2>2. CASE r = s
    <3>. SUFFICES ASSUME Linked(s, p)', NEW n \in Nicks, n \notin odd', Home[n] = s
                  PROVE  View(s, p, n)'
      BY DEF Told
    <3>1. Linked(s, p) /\ n \notin odd /\ wire[s][p] \in Seq(WireMsgs)
      BY <1>2 DEF Linked, Inv, NetOK
    <3>2. Agree(n, wire[s][p], online[s], In(s, n), remote[p], In(p, n), steady[s][p])
      BY <3>1 DEF Aligned, Told, View
    <3>3. steady'[s][p] \in SUBSET steady[s][p] /\ steady'[s][p] \subseteq Chans
      BY <3>1, <1>2, TrackGives DEF Linked
    <3>4. remote'[p] = remote[p] /\ In(p, n)' = In(p, n)
      BY <1>2, <2>2 DEF OthersSame, In
    <3>5. CASE Keeps(s, p, n)
      <4>1. \A c \in steady'[s][p] : c \in In(s, n)' <=> c \in In(s, n)
        BY <3>3, <3>5 DEF Keeps, In
      <4>2. (n \in online'[s] <=> n \in online[s]) /\ wire'[s][p] = wire[s][p]
        BY <3>5 DEF Keeps
      <4>3. Agree(n, wire[s][p], online'[s], In(s, n)', remote[p], In(p, n), steady'[s][p])
        BY <3>1, <3>2, <3>3, <4>1, <4>2, AgreeSame
      <4>. QED BY <3>4, <4>2, <4>3 DEF View
    <3>6. ASSUME NEW w \in WireMsgs, Tells(s, p, n, w) PROVE View(s, p, n)'
      <4>1. \A c \in steady'[s][p] : c \in In(s, n)' <=>
              w \in Enters(c, n) \/ (c \in In(s, n) /\ w \notin Leaves(c, n))
        BY <3>3, <3>6 DEF Tells, In
      <4>2. /\ n \in online'[s] <=> w \in Hails(n) \/ (n \in online[s] /\ w \notin Byes(n))
            /\ \A c \in Chans : w \in Enters(c, n) => n \in online'[s]
            /\ wire'[s][p] = wire[s][p] \o <<w>>
        BY <3>6 DEF Tells
      <4>3. Agree(n, wire[s][p] \o <<w>>, online'[s], In(s, n)', remote[p], In(p, n), steady'[s][p])
        BY <3>1, <3>2, <3>3, <4>1, <4>2, AgreeWritten
      <4>. QED BY <3>4, <4>2, <4>3 DEF View
    <3>. QED BY <2>2, <3>1, <3>5, <3>6, ClientTells DEF Aligned
  <2>. QED BY <2>1, <2>2
<1>. QED BY <1>1, <1>3, <1>4 DEF Aligned

-----------------------------------------------------------------------------
(* Synced: what is read.                                                    *)

\* A handler takes one message off its wire.  Only SERVER registers a link and writes.
LEMMA ReceiveNet ==
  ASSUME Inv, NEW a \in Servers, NEW b \in Servers \ {a}, Receive(a, b)
  PROVE  /\ state[a][b] # "down" /\ state'[a][b] # "down"
         /\ wire[b][a] \in Seq(WireMsgs) /\ wire[b][a] # <<>> /\ Incoming(a, b) = Head(wire[b][a])
         /\ wire'[b][a] = Tail(wire[b][a]) /\ Incoming(a, b) \in WireMsgs
         /\ \A s, p \in Servers : ~(s = a /\ p = b) => state'[s][p] = state[s][p]
         /\ \A s, p \in Servers : ~(s = a /\ p = b) /\ ~(s = b /\ p = a) => wire'[s][p] = wire[s][p]
         /\ \/ RecvServer(a, b) /\ state'[a][b] = "linked" /\ UNCHANGED known
            \/ state' = state /\ wire'[a][b] = wire[a][b] /\ Incoming(a, b).type # "SERVER"
<1>1. CASE RecvServer(a, b)
  <2>. DEFINE answer == IF b \in dialed[a] THEN <<>> ELSE <<SERVER>>
              lines  == answer \o <<Burst(a, b)>>
              out    == [q \in Servers |-> IF q = b THEN lines ELSE <<>>]
  <2>1. /\ wire' = [Written(a, out) EXCEPT ![b][a] = Tail(wire[b][a])] /\ UNCHANGED known
        /\ state' = [state EXCEPT ![a][b] = "linked"] /\ Reads(a, b, "SERVER")
    BY <1>1 DEF RecvServer
  <2>2. lines \in Seq(WireMsgs)
    <3>1. Burst(a, b) \in WireMsgs /\ SERVER \in WireMsgs
      BY BurstType, MessagesOK DEF Inv
    <3>2. answer \in Seq(WireMsgs) /\ <<Burst(a, b)>> \in Seq(WireMsgs)
      BY <3>1, EmptyOK, OneOK
    <3>. QED BY <3>2, ConcatOK
  <2>. HIDE DEF lines
  <2>3. \A q \in Servers : out[q] \in Seq(WireMsgs) /\ (q # b => out[q] = <<>>)
    BY <2>2, EmptyOK
  <2>. HIDE DEF out
  <2>4. /\ Written(a, out) \in [Servers -> [Servers -> Seq(WireMsgs)]]
        /\ \A r \in Servers \ {a} : Written(a, out)[r] = wire[r]
        /\ \A q \in Servers : q # b => Written(a, out)[a][q] = wire[a][q]
    BY <2>3, WrittenOK DEF Inv
  <2>5. \A s, p \in Servers : ~(s = a /\ p = b) /\ ~(s = b /\ p = a) => wire'[s][p] = wire[s][p]
    BY <2>1, <2>4
  <2>6. wire'[b][a] = Tail(wire[b][a])
    BY <2>1, <2>4
  <2>7. /\ state'[a][b] = "linked" /\ state[a][b] # "down"
        /\ \A s, p \in Servers : ~(s = a /\ p = b) => state'[s][p] = state[s][p]
    BY <2>1 DEF Inv, NetOK, Reads
  <2>8. wire[b][a] \in Seq(WireMsgs) /\ wire[b][a] # <<>>
    BY <2>1 DEF Reads, Inv, NetOK
  <2>. QED BY <1>1, <2>1, <2>5, <2>6, <2>7, <2>8, TailOK DEF Incoming
<1>2. ASSUME NEW type, type # "SERVER", Reads(a, b, type), ReadOn(a, b)
      PROVE  /\ state[a][b] # "down" /\ state' = state
             /\ wire[b][a] \in Seq(WireMsgs) /\ wire[b][a] # <<>>
             /\ wire'[b][a] = Tail(wire[b][a])
             /\ \A s, p \in Servers : ~(s = b /\ p = a) => wire'[s][p] = wire[s][p]
             /\ Incoming(a, b) \in WireMsgs /\ Incoming(a, b).type # "SERVER"
  BY <1>2, TailOK DEF ReadOn, Reads, Incoming, Inv, NetOK
<1>3. \/ RecvServer(a, b)
      \/ \E type \in {"BURST", "SNICK", "SJOIN", "SPART", "SQUITUSER", "SROOMMETA"} :
           Reads(a, b, type) /\ ReadOn(a, b)
  BY DEF Receive, RecvBurst, RecvNick, RecvJoin, RecvPart, RecvQuitUser, RecvRoomMeta
<1>4. CASE \E type \in {"BURST", "SNICK", "SJOIN", "SPART", "SQUITUSER", "SROOMMETA"} :
             Reads(a, b, type) /\ ReadOn(a, b)
  <2>1. PICK type \in {"BURST", "SNICK", "SJOIN", "SPART", "SQUITUSER", "SROOMMETA"} :
          Reads(a, b, type) /\ ReadOn(a, b)
    BY <1>4
  <2>2. type # "SERVER"
    OBVIOUS
  <2>. QED BY <1>2, <2>1, <2>2 DEF Incoming
<1>. QED BY <1>1, <1>3, <1>4

\* What the reader makes of a message about n.
Hears(a, b, n, w) ==
  /\ n \in remote'[a] <=> w \in Hails(n) \/ (n \in remote[a] /\ w \notin Byes(n))
  /\ \A c \in steady'[b][a] : n \in chan'[a][c].members <=>
       w \in Enters(c, n) \/ (n \in chan[a][c].members /\ w \notin Leaves(c, n))

LEMMA ReceiveHears ==
  ASSUME Inv, LocalHome, OwnWire, AllSolid, NEW a \in Servers, NEW b \in Servers \ {a},
         Receive(a, b), NEW n \in Nicks, Home[n] = b,
         \A c \in Chans : Incoming(a, b) \in Enters(c, n) =>
           Incoming(a, b) \in Hails(n) \/ n \in remote[a],
         steady'[b][a] \subseteq Chans,
         \A c \in steady'[b][a] : Shared(a, b, chan[a][c])
  PROVE  Hears(a, b, n, Incoming(a, b))
<1>. DEFINE w == Incoming(a, b)
            D == steady'[b][a]
<1>0. /\ \A c \in Chans : chan[a][c] \in Channel /\ Solid(chan[a][c])
                          /\ (n \in chan[a][c].members => n \in remote[a])
      /\ remote \in [Servers -> SUBSET Nicks] /\ chan \in [Servers -> [Chans -> Channel]]
      /\ w \in WireMsgs
  BY ReceiveNet DEF Inv, TablesOK, AllSolid, KnownAt, ChannelOf, LocalHome
<1>00. /\ \A c \in Chans : w \in Enters(c, n) => w \in Hails(n) \/ n \in remote[a]
       /\ D \subseteq Chans /\ \A c \in D : Shared(a, b, chan[a][c])
  OBVIOUS
<1>. HIDE DEF w, D
<1>1. CASE RecvServer(a, b)
  <2>1. w.type = "SERVER" /\ UNCHANGED known
    BY <1>1 DEF RecvServer, Reads, w
  <2>2. w \notin Hails(n) /\ w \notin Byes(n) /\ \A c : w \notin Enters(c, n) /\ w \notin Leaves(c, n)
    BY <2>1 DEF Hails, Byes, Enters, Leaves, Lists
  <2>. QED BY <2>1, <2>2 DEF Hears, known, w
<1>2. CASE RecvNick(a, b)
  <2>1. /\ w.type = "SNICK" /\ chan' = chan
        /\ remote' = [remote EXCEPT ![a] = IF Home[w.nick] = b THEN @ \cup {w.nick} ELSE @]
    BY <1>2 DEF RecvNick, Reads, w
  <2>2. /\ w \in Hails(n) <=> w.nick = n
        /\ w \notin Byes(n) /\ \A c : w \notin Enters(c, n) /\ w \notin Leaves(c, n)
    BY <1>0, <2>1 DEF Hails, Byes, Enters, Leaves, Lists
  <2>3. n \in remote'[a] <=> w.nick = n \/ n \in remote[a]
    BY <1>0, <2>1
  <2>. QED BY <2>1, <2>2, <2>3 DEF Hears, w
<1>3. CASE RecvJoin(a, b)
  <2>1. w.type = "SJOIN" /\ remote' = remote
    BY <1>3 DEF RecvJoin, Reads, w
  <2>2. w.chan \in Chans /\ w.nick \in Nicks
    BY <1>0, <2>1 DEF WireMsgs
  <2>3. chan' = [chan EXCEPT ![a][w.chan] = Joined(a, b, chan[a][w.chan], {w.nick}, remote[a])]
    BY <1>0, <1>3, <2>2 DEF RecvJoin, w
  <2>4. /\ \A c \in Chans : w \in Enters(c, n) <=> c = w.chan /\ w.nick = n
        /\ w \notin Hails(n) /\ w \notin Byes(n) /\ \A c : w \notin Leaves(c, n)
    BY <1>0, <2>1 DEF Hails, Byes, Enters, Leaves, Lists
  <2>5. w.nick = n => n \in remote[a]
    BY <1>00, <2>2, <2>4
  <2>6. ASSUME NEW c \in D
        PROVE  n \in chan'[a][c].members <=> (c = w.chan /\ w.nick = n) \/ n \in chan[a][c].members
    <3>1. CASE c # w.chan
      <4>1. c \in Chans /\ chan'[a][c] = chan[a][c]
        BY <1>0, <1>00, <2>3, <3>1
      <4>. QED BY <3>1, <4>1
    <3>2. CASE c = w.chan
      <4>1. chan'[a][c].members = chan[a][c].members \cup ({w.nick} \cap remote[a])
        BY <1>0, <1>00, <2>2, <2>3, <3>2 DEF Joined, Created, Channel
      <4>. QED BY <2>5, <3>2, <4>1
    <3>. QED BY <3>1, <3>2
  <2>. QED BY <1>00, <2>1, <2>4, <2>6 DEF Hears, w, D
<1>4. CASE RecvRoomMeta(a, b)
  <2>1. w.type = "SROOMMETA" /\ remote' = remote
    BY <1>4 DEF RecvRoomMeta, Reads, w
  <2>2. w.chan \in Chans
    BY <1>0, <2>1 DEF WireMsgs
  <2>3. chan' = [chan EXCEPT ![a][w.chan] = WithMeta(a, b, chan[a][w.chan], w.persistent)]
    BY <1>0, <1>4, <2>2 DEF RecvRoomMeta, w
  <2>4. w \notin Hails(n) /\ w \notin Byes(n) /\ \A c : w \notin Enters(c, n) /\ w \notin Leaves(c, n)
    BY <2>1 DEF Hails, Byes, Enters, Leaves, Lists
  <2>5. WithMeta(a, b, chan[a][w.chan], w.persistent).members = chan[a][w.chan].members
    BY <1>0, <2>2, WithMetaSame
  <2>6. \A c \in D : chan'[a][c].members = chan[a][c].members
    BY <1>0, <1>00, <2>2, <2>3, <2>5
  <2>. QED BY <2>1, <2>4, <2>6 DEF Hears, w, D
<1>5. CASE RecvPart(a, b)
  <2>1. w.type = "SPART" /\ remote' = remote
    BY <1>5 DEF RecvPart, Reads, w
  <2>2. w.chan \in Chans /\ w.nick \in Nicks
    BY <1>0, <2>1 DEF WireMsgs
  <2>3. chan' = IF w.nick \in remote[a] /\ chan[a][w.chan].exists /\ Shared(a, b, chan[a][w.chan])
                THEN [chan EXCEPT ![a][w.chan] = WithoutRemote(chan[a][w.chan], {w.nick})]
                ELSE chan
    BY <1>0, <1>5, <2>2 DEF RecvPart, Accepted, w
  <2>4. /\ \A c \in Chans : w \in Leaves(c, n) <=> c = w.chan /\ w.nick = n
        /\ w \notin Hails(n) /\ w \notin Byes(n) /\ \A c : w \notin Enters(c, n)
    BY <1>0, <2>1 DEF Hails, Byes, Enters, Leaves, Lists
  <2>5. \A ch \in Channel : n \in WithoutRemote(ch, {w.nick}).members <=> n \in ch.members /\ n # w.nick
    BY DEF WithoutRemote, NoChannel, Channel
  <2>6. ASSUME NEW c \in D
        PROVE  n \in chan'[a][c].members <=> n \in chan[a][c].members /\ ~(c = w.chan /\ w.nick = n)
    <3>0. c \in Chans /\ Shared(a, b, chan[a][c])
      BY <1>00
    <3>1. CASE c # w.chan
      <4>1. chan'[a][c] = chan[a][c]
        BY <1>0, <2>3, <3>0, <3>1
      <4>. QED BY <3>1, <4>1
    <3>2. CASE c = w.chan /\ w.nick \in remote[a] /\ chan[a][c].exists
      <4>1. chan'[a][c] = WithoutRemote(chan[a][c], {w.nick})
        BY <1>0, <2>3, <3>0, <3>2
      <4>. QED BY <1>0, <2>5, <3>0, <3>2, <4>1
    <3>3. CASE c = w.chan /\ ~(w.nick \in remote[a] /\ chan[a][c].exists)
      <4>1. chan'[a][c] = chan[a][c]
        BY <2>3, <3>3
      <4>2. w.nick = n => n \notin chan[a][c].members
        BY <1>0, <3>0, <3>3 DEF Solid
      <4>. QED BY <4>1, <4>2
    <3>. QED BY <3>1, <3>2, <3>3
  <2>. QED BY <1>00, <2>1, <2>4, <2>6 DEF Hears, w, D
<1>6. CASE RecvQuitUser(a, b)
  <2>. DEFINE new == [c \in Chans |-> IF w.nick \in remote[a] THEN WithoutRemote(chan[a][c], {w.nick})
                                      ELSE chan[a][c]]
  <2>1. /\ w.type = "SQUITUSER" /\ remote' = [remote EXCEPT ![a] = remote[a] \ {w.nick}]
        /\ chan' = [chan EXCEPT ![a] = new]
    BY <1>0, <1>6 DEF RecvQuitUser, Reads, w
  <2>2. /\ w \in Byes(n) <=> w.nick = n
        /\ \A c : w \in Leaves(c, n) <=> w.nick = n
        /\ w \notin Hails(n) /\ \A c : w \notin Enters(c, n)
    BY <1>0, <2>1 DEF Hails, Byes, Enters, Leaves, Lists
  <2>3. \A ch \in Channel : n \in WithoutRemote(ch, {w.nick}).members <=> n \in ch.members /\ n # w.nick
    BY DEF WithoutRemote, NoChannel, Channel
  <2>4. \A c \in Chans : n \in new[c].members <=> n \in chan[a][c].members /\ n # w.nick
    BY <1>0, <2>3
  <2>5. chan'[a] = new /\ remote'[a] = remote[a] \ {w.nick}
    BY <1>0, <2>1
  <2>. HIDE DEF new
  <2>. QED BY <1>00, <2>2, <2>4, <2>5 DEF Hears, w, D
<1>7. CASE RecvBurst(a, b)
  <2>. DEFINE users == remote[a] \cup {m \in w.nicks : Home[m] = b}
              Now(c) == LET ch == Joined(a, b, chan[a][c], w.joins[c], users) IN
                        IF \E x \in BOOLEAN : <<c, x>> \in w.rooms
                        THEN WithMeta(a, b, ch, <<c, TRUE>> \in w.rooms) ELSE ch
              new == [c \in Chans |-> Now(c)]
  <2>1. /\ w.type = "BURST" /\ remote' = [remote EXCEPT ![a] = users]
        /\ chan' = [chan EXCEPT ![a] = new]
    BY <1>0, <1>7 DEF RecvBurst, Reads, w
  <2>2. /\ w \in Hails(n) <=> n \in w.nicks
        /\ \A c : w \in Enters(c, n) <=> n \in w.joins[c]
        /\ w \notin Byes(n) /\ \A c : w \notin Leaves(c, n)
    BY <1>0, <2>1 DEF Hails, Byes, Enters, Leaves, Lists
  <2>3. n \in users <=> n \in w.nicks \/ n \in remote[a]
    OBVIOUS
  <2>4. w.joins \in [Chans -> SUBSET Nicks]
    BY <1>0, <2>1 DEF WireMsgs
  <2>. HIDE DEF users
  <2>5. ASSUME NEW c \in D
        PROVE  n \in new[c].members <=> n \in w.joins[c] \/ n \in chan[a][c].members
    <3>. DEFINE ch == Joined(a, b, chan[a][c], w.joins[c], users)
    <3>1. c \in Chans /\ Shared(a, b, chan[a][c]) /\ chan[a][c] \in Channel
      BY <1>0, <1>00
    <3>2. ch \in Channel /\ ch.members = chan[a][c].members \cup (w.joins[c] \cap users)
      BY <2>4, <3>1 DEF Joined, Created, Channel
    <3>3. n \in w.joins[c] => n \in users
      BY <1>00, <2>2, <2>3, <3>1
    <3>. HIDE DEF ch
    <3>4. \A x : WithMeta(a, b, ch, x).members = ch.members
      BY <3>2, WithMetaSame
    <3>5. new[c].members = ch.members
      BY <3>1, <3>4 DEF ch
    <3>. HIDE DEF new
    <3>. QED BY <3>2, <3>3, <3>5
  <2>6. chan'[a] = new /\ remote'[a] = users
    BY <1>0, <2>1
  <2>. HIDE DEF new
  <2>. QED BY <2>2, <2>3, <2>5, <2>6 DEF Hears, w, D
<1>. QED BY <1>1, <1>2, <1>3, <1>4, <1>5, <1>6, <1>7 DEF Receive

-----------------------------------------------------------------------------
(* Synced: the burst.                                                       *)

\* A burst names the users and the members of what may be shared.
LEMMA BurstSays ==
  ASSUME Inv, LocalHome, AllSolid, NEW s \in Servers, NEW p \in Servers \ {s},
         NEW n \in Nicks, Home[n] = s, NEW w, w = Burst(s, p)
  PROVE  /\ w \in WireMsgs
         /\ w \in Hails(n) <=> n \in online[s]
         /\ w \notin Byes(n)
         /\ \A c \in Chans : /\ w \in Enters(c, n) <=> c \in In(s, n) /\ Shared(s, p, chan[s][c])
                             /\ w \notin Leaves(c, n)
         /\ \A c \in Chans : w \in Enters(c, n) => n \in online[s]
<1>. DEFINE J == [c \in Chans |-> IF ShouldRelay(s, p, c) THEN Local(s, chan[s][c]) ELSE {}]
<1>1. w.type = "BURST" /\ w.nicks = online[s] /\ \A c \in Chans : w.joins[c] = J[c]
  BY DEF Burst, BurstOf, BURST
<1>2. w \in WireMsgs
  BY BurstType DEF Inv
<1>3. ASSUME NEW c \in Chans
      PROVE  /\ n \in J[c] <=> n \in chan[s][c].members /\ Shared(s, p, chan[s][c])
             /\ n \in J[c] => n \in online[s]
  <2>1. n \in chan[s][c].members => n \in online[s] /\ chan[s][c].exists
    BY DEF Inv, TablesOK, ChannelOf, KnownAt, RemotesOK, RemoteAt, AllSolid, Solid
  <2>. QED BY <2>1 DEF Local, ShouldRelay
<1>. HIDE DEF J
<1>4. w \in Hails(n) <=> n \in online[s]
  BY <1>1, <1>2 DEF Hails
<1>5. w \notin Byes(n) /\ \A c \in Chans : w \notin Leaves(c, n)
  BY <1>1 DEF Byes, Leaves
<1>6. \A c \in Chans : w \in Enters(c, n) <=> n \in J[c]
  BY <1>1, <1>2 DEF Enters, Lists
<1>. QED BY <1>2, <1>3, <1>4, <1>5, <1>6 DEF In

LEMMA AgreeBurst ==
  ASSUME Inv, LocalHome, AllSolid, NEW s \in Servers, NEW p \in Servers \ {s},
         NEW n \in Nicks, Home[n] = s, NEW t \in Seq(WireMsgs),
         NEW here, NEW in, NEW there, NEW listed, NEW C,
         Agree(n, t, here, in, there, listed, C),
         n \in here => n \in online[s],
         NEW D \in SUBSET C, D \subseteq Chans,
         \A c \in D : (c \in in => c \in In(s, n)) /\ Shared(s, p, chan[s][c]),
         NEW w, w = Burst(s, p), NEW u, u = t \/ u = t \o <<SERVER>>
  PROVE  Agree(n, u \o <<w>>, online[s], In(s, n), there, listed, D)
<1>1. SERVER \in WireMsgs /\ t \o <<SERVER>> \in Seq(WireMsgs)
  BY MessagesOK, OneOK, ConcatOK
<1>2. /\ SERVER \notin Hails(n) /\ SERVER \notin Byes(n)
      /\ \A c \in Chans : SERVER \notin Enters(c, n) /\ SERVER \notin Leaves(c, n)
  BY DEF SERVER, Hails, Byes, Enters, Leaves, Lists
<1>3. Agree(n, t, here, in, there, listed, D)
  BY AgreeSame
<1>4. ASSUME NEW x, x = SERVER PROVE Agree(n, t \o <<x>>, here, in, there, listed, D)
  <2>1. /\ x \in WireMsgs /\ D \in SUBSET D
        /\ n \in here <=> x \in Hails(n) \/ (n \in here /\ x \notin Byes(n))
        /\ \A c \in D : c \in in <=> x \in Enters(c, n) \/ (c \in in /\ x \notin Leaves(c, n))
        /\ \A c \in Chans : x \in Enters(c, n) => n \in here
    BY <1>1, <1>2, <1>4
  <2>. QED BY <1>3, <2>1, AgreeWritten
<1>5. Agree(n, u, here, in, there, listed, D) /\ u \in Seq(WireMsgs)
  BY <1>1, <1>3, <1>4
<1>6. /\ w \in WireMsgs
      /\ n \in online[s] <=> w \in Hails(n) \/ (n \in here /\ w \notin Byes(n))
      /\ \A c \in D : c \in In(s, n) <=> w \in Enters(c, n) \/ (c \in in /\ w \notin Leaves(c, n))
      /\ \A c \in Chans : w \in Enters(c, n) => n \in online[s]
  BY BurstSays
<1>. QED BY <1>5, <1>6, AgreeWritten

LEMMA ServerWrites ==
  ASSUME Inv, NEW a \in Servers, NEW b \in Servers \ {a}, RecvServer(a, b), state[b][a] # "down",
         NEW w, w = Burst(a, b)
  PROVE  \E u : (u = wire[a][b] \/ u = wire[a][b] \o <<SERVER>>) /\ wire'[a][b] = u \o <<w>>
<1>. DEFINE answer == IF b \in dialed[a] THEN <<>> ELSE <<SERVER>>
            lines  == answer \o <<Burst(a, b)>>
            out    == [q \in Servers |-> IF q = b THEN lines ELSE <<>>]
            v      == <<w>>
<1>1. wire' = [Written(a, out) EXCEPT ![b][a] = Tail(wire[b][a])]
  BY DEF RecvServer
<1>2. answer \in Seq(WireMsgs) /\ v \in Seq(WireMsgs) /\ wire[a][b] \in Seq(WireMsgs)
  <2>1. w \in WireMsgs /\ SERVER \in WireMsgs
    BY BurstType, MessagesOK DEF Inv
  <2>. QED BY <2>1, EmptyOK, OneOK DEF Inv, NetOK
<1>3. lines = answer \o v
  OBVIOUS
<1>4. answer = <<>> \/ answer = <<SERVER>>
  OBVIOUS
<1>5. lines \in Seq(WireMsgs)
  BY <1>2, <1>3, ConcatOK
<1>. HIDE DEF lines
<1>6. \A q \in Servers : out[q] \in Seq(WireMsgs) /\ out[b] = lines
  BY <1>5, EmptyOK
<1>. HIDE DEF out
<1>7. /\ Written(a, out) \in [Servers -> [Servers -> Seq(WireMsgs)]]
      /\ \A r \in Servers \ {a} : Written(a, out)[r] = wire[r]
  BY <1>6, WrittenOK DEF Inv
<1>8. Written(a, out)[a][b] = wire[a][b] \o lines
  BY <1>6 DEF Written, Inv, NetOK
<1>9. wire'[a][b] = wire[a][b] \o lines
  BY <1>1, <1>7, <1>8
<1>. HIDE DEF answer, v
<1>10. \A x, y, z \in Seq(WireMsgs) : x \o (y \o z) = (x \o y) \o z
  BY ConcatAssociative
<1>11. wire'[a][b] = (wire[a][b] \o answer) \o v
  BY <1>2, <1>3, <1>9, <1>10
<1>12. wire[a][b] \o answer = wire[a][b] \/ wire[a][b] \o answer = wire[a][b] \o <<SERVER>>
  BY <1>2, <1>4, ConcatEmptySeq
<1>. QED BY <1>11, <1>12 DEF v

-----------------------------------------------------------------------------
(* Synced: the steps of links.                                              *)

\* What is read of the users of b was the first that was on the wire about them.
LEMMA ReaderTold ==
  ASSUME Inv, TracksOK, LocalHome, OwnWire, Aligned, Track, NEW a \in Servers,
         NEW b \in Servers \ {a}, Receive(a, b), odd' = odd
  PROVE  Told(b, a)'
<1>. SUFFICES ASSUME Linked(b, a)', NEW n \in Nicks, n \notin odd, Home[n] = b
              PROVE  View(b, a, n)'
  BY DEF Told
<1>. DEFINE t == wire[b][a]
            w == Incoming(a, b)
            D == steady'[b][a]
<1>1. /\ state[a][b] # "down" /\ state'[b][a] = state[b][a]
      /\ t \in Seq(WireMsgs) /\ t # <<>> /\ w = Head(t) /\ wire'[b][a] = Tail(t) /\ w \in WireMsgs
  BY ReceiveNet
<1>2. Linked(b, a)
  BY <1>1 DEF Linked
<1>3. Agree(n, t, online[b], In(b, n), remote[a], In(a, n), steady[b][a])
  BY <1>2 DEF Aligned, Told, View
<1>4. /\ D \in SUBSET steady[b][a] /\ D \subseteq Chans
      /\ \A c \in D : Shared(a, b, chan[a][c])
  <2>1. D \subseteq steady[b][a] /\ D \subseteq Chans
    BY <1>2, TrackGives DEF Linked
  <2>. QED BY <2>1 DEF Aligned, SteadyFlows, Flows
<1>5. \A c \in Chans : w \in Enters(c, n) => w \in Hails(n) \/ n \in remote[a]
  <2>. SUFFICES ASSUME NEW c \in Chans, w \in Enters(c, n) PROVE w \in Hails(n) \/ n \in remote[a]
    OBVIOUS
  <2>1. 1 \in 1..Len(t) /\ t[1] = w
    BY <1>1, LenProperties, EmptySeq
  <2>2. Holds(t, n \in remote[a], Hails(n), Byes(n), 1)
    BY <1>3, <2>1 DEF Agree
  <2>. QED BY <2>1, <2>2 DEF Holds
<1>6. Hears(a, b, n, w)
  BY <1>4, <1>5, ReceiveHears DEF Aligned
<1>. HIDE DEF t, w
<1>7. /\ n \in remote'[a] <=> Head(t) \in Hails(n) \/ (n \in remote[a] /\ Head(t) \notin Byes(n))
      /\ \A c \in D : c \in In(a, n)' <=>
           Head(t) \in Enters(c, n) \/ (c \in In(a, n) /\ Head(t) \notin Leaves(c, n))
  BY <1>1, <1>4, <1>6 DEF Hears, In
<1>8. Agree(n, Tail(t), online[b], In(b, n), remote'[a], In(a, n)', D)
  BY <1>1, <1>3, <1>4, <1>7, AgreeRead
<1>9. online'[b] = online[b] /\ In(b, n)' = In(b, n)
  BY ReceiveSame DEF ReadSame, OthersSame, In
<1>. QED BY <1>1, <1>8, <1>9 DEF View, t

\* A burst makes good whatever was not told before.
LEMMA WriterTold ==
  ASSUME Inv, TracksOK, LocalHome, OwnWire, Aligned, Track, NEW a \in Servers,
         NEW b \in Servers \ {a}, Receive(a, b), odd' = odd
  PROVE  Told(a, b)'
<1>1. CASE ~RecvServer(a, b)
  <2>1. state' = state /\ wire'[a][b] = wire[a][b]
    BY <1>1, ReceiveNet
  <2>2. ReadSame(a, b)
    BY ReceiveSame
  <2>3. Told(a, b) /\ (Linked(a, b)' => Linked(a, b))
    BY <2>1 DEF Aligned, Linked
  <2>4. \A n \in Nicks : Home[n] = a =>
          /\ n \in online'[a] <=> n \in online[a]
          /\ n \in remote'[b] <=> n \in remote[b]
          /\ \A c \in Chans : /\ n \in chan'[a][c].members <=> n \in chan[a][c].members
                              /\ n \in chan'[b][c].members <=> n \in chan[b][c].members
    BY <2>2 DEF ReadSame, OthersSame, MembersSame
  <2>. QED BY <2>1, <2>3, <2>4, Kept
<1>2. CASE RecvServer(a, b)
  <2>. SUFFICES ASSUME Linked(a, b)', NEW n \in Nicks, n \notin odd, Home[n] = a
                PROVE  View(a, b, n)'
    BY DEF Told
  <2>. DEFINE D == steady'[a][b]
  <2>1. UNCHANGED known /\ state[a][b] # "down" /\ state'[b][a] = state[b][a]
    <3>1. UNCHANGED known
      BY <1>2 DEF RecvServer
    <3>2. state[a][b] # "down" /\ state'[b][a] = state[b][a]
      BY ReceiveNet
    <3>. QED BY <3>1, <3>2
  <2>2. state[b][a] # "down" /\ (state[a][b] = "open" \/ state[a][b] = "linked")
    BY <2>1 DEF Linked, Inv, NetOK
  <2>3. D \subseteq Chans /\ \A c \in D : Shared(a, b, chan[a][c])
    BY <2>1, TrackGives DEF Flows, known, Shared
  <2>4. wire[a][b] \in Seq(WireMsgs)
    BY DEF Inv, NetOK
  <2>5. \A w : w = Burst(a, b) => \A u : u = wire[a][b] \/ u = wire[a][b] \o <<SERVER>> =>
          Agree(n, u \o <<w>>, online[a], In(a, n), remote[b], In(b, n), D)
    <3>. SUFFICES ASSUME NEW w, w = Burst(a, b),
                         NEW u, u = wire[a][b] \/ u = wire[a][b] \o <<SERVER>>
                  PROVE  Agree(n, u \o <<w>>, online[a], In(a, n), remote[b], In(b, n), D)
      OBVIOUS
    <3>. HIDE DEF D
    <3>1. CASE state[a][b] = "open"
      <4>1. Fresh(a, b)
        BY DEF Aligned
      <4>2. \A i \in DOMAIN wire[a][b] : wire[a][b][i] = SERVER
        BY <3>1, <4>1 DEF Fresh, On
      <4>3. n \notin remote[b]
        BY <3>1, <4>1 DEF Fresh
      <4>4. \A c \in Chans : c \notin In(b, n)
        <5>1. n \notin online[b]
          BY DEF LocalHome
        <5>. QED BY <4>3, <5>1 DEF In, Inv, TablesOK, ChannelOf, KnownAt
      <4>5. Agree(n, wire[a][b], {}, {}, remote[b], In(b, n), Chans)
        BY <2>4, <4>2, <4>3, <4>4, AgreeAtFirst
      <4>6. PICK none : none = {}
        OBVIOUS
      <4>7. /\ Agree(n, wire[a][b], none, none, remote[b], In(b, n), Chans)
            /\ n \in none => n \in online[a]
            /\ \A c \in D : (c \in none => c \in In(a, n)) /\ Shared(a, b, chan[a][c])
        BY <2>3, <4>5, <4>6
      <4>8. AllSolid /\ D \in SUBSET Chans
        BY <2>3 DEF Aligned
      <4>. HIDE <4>6
      <4>. QED BY <2>3, <2>4, <4>7, <4>8, AgreeBurst, ZenonT(60)
    <3>2. CASE state[a][b] = "linked"
      <4>1. Linked(a, b)
        BY <2>2, <3>2 DEF Linked
      <4>2. Agree(n, wire[a][b], online[a], In(a, n), remote[b], In(b, n), steady[a][b])
        BY <4>1 DEF Aligned, Told, View
      <4>3. D \in SUBSET steady[a][b]
        BY <3>2, TrackGives DEF D
      <4>. QED BY <2>3, <2>4, <4>2, <4>3, AgreeBurst DEF Aligned
    <3>. QED BY <2>2, <3>1, <3>2
  <2>6. \A w : w = Burst(a, b) => \E u : (u = wire[a][b] \/ u = wire[a][b] \o <<SERVER>>)
                                         /\ wire'[a][b] = u \o <<w>>
    BY <1>2, <2>2, ServerWrites
  <2>7. Agree(n, wire'[a][b], online[a], In(a, n), remote[b], In(b, n), D)
    <3>1. PICK w : w = Burst(a, b)
      OBVIOUS
    <3>. HIDE DEF D
    <3>. QED BY <2>5, <2>6, <3>1
  <2>8. In(a, n)' = In(a, n) /\ In(b, n)' = In(b, n) /\ online' = online /\ remote' = remote
    BY <2>1 DEF known, In
  <2>. QED BY <2>7, <2>8 DEF View
<1>. QED BY <1>1, <1>2

LEMMA ReceiveAligned ==
  ASSUME Inv, TracksOK, LocalHome, OwnWire, Aligned, Track, NEW a \in Servers,
         NEW b \in Servers \ {a}, Receive(a, b), UNCHANGED <<steps, odd>>
  PROVE  Aligned'
<1>1. AllSolid' /\ SteadyFlows'
  BY ReceiveSolid, TrackGives DEF Aligned, SteadyFlows
<1>2. ReadSame(a, b)
  BY ReceiveSame
<1>3. ASSUME NEW s \in Servers, NEW p \in Servers \ {s}, ~(s = a /\ p = b), ~(s = b /\ p = a)
      PROVE  Told(s, p)'
  <2>1. /\ state'[s][p] = state[s][p] /\ state'[p][s] = state[p][s]
        /\ wire'[s][p] = wire[s][p]
    BY <1>3, ReceiveNet
  <2>2. Told(s, p) /\ (Linked(s, p)' => Linked(s, p))
    BY <2>1 DEF Aligned, Linked
  <2>3. ASSUME NEW n \in Nicks, Home[n] = s
        PROVE  /\ n \in online'[s] <=> n \in online[s]
               /\ n \in remote'[p] <=> n \in remote[p]
               /\ \A c \in Chans : /\ n \in chan'[s][c].members <=> n \in chan[s][c].members
                                   /\ n \in chan'[p][c].members <=> n \in chan[p][c].members
    <3>1. \A r \in Servers : r = a => Home[n] # b \/ r \notin {s, p}
      BY <1>3, <2>3
    <3>. QED BY <1>2, <1>3, <2>3, <3>1 DEF ReadSame, OthersSame, MembersSame
  <2>. QED BY <2>1, <2>2, <2>3, Kept
<1>4. ASSUME NEW s \in Servers, NEW p \in Servers \ {s} PROVE Fresh(s, p)'
  <2>. SUFFICES ASSUME state'[s][p] = "open"
                PROVE  /\ \A w \in On(wire'[s][p]) : w = SERVER
                       /\ \A n \in remote'[p] : Home[n] # s
    BY DEF Fresh
  <2>1. ~(s = a /\ p = b) /\ state[s][p] = "open"
    <3>1. ~(s = a /\ p = b) => state'[s][p] = state[s][p]
      BY ReceiveNet
    <3>2. CASE s = a /\ p = b
      <4>1. state'[a][b] = "open"
        BY <3>2
      <4>2. state' = state /\ Incoming(a, b).type # "SERVER"
        BY <4>1, ReceiveNet
      <4>3. \E type \in {"BURST", "SNICK", "SJOIN", "SPART", "SQUITUSER", "SROOMMETA"} :
              Reads(a, b, type)
        BY <4>2 DEF Receive, RecvServer, Reads, RecvBurst, RecvNick, RecvJoin, RecvPart,
                    RecvQuitUser, RecvRoomMeta
      <4>4. state[a][b] = "linked"
        BY <4>3, IncomingOK
      <4>. QED BY <4>1, <4>2, <4>4
    <3>. QED BY <3>1, <3>2
  <2>2. (\A w \in On(wire[s][p]) : w = SERVER) /\ (\A n \in remote[p] : Home[n] # s)
    BY <2>1 DEF Aligned, Fresh
  <2>3. CASE s = b /\ p = a
    <3>1. /\ wire[b][a] \in Seq(WireMsgs) /\ wire[b][a] # <<>> /\ wire'[b][a] = Tail(wire[b][a])
          /\ Incoming(a, b) = Head(wire[b][a])
      BY ReceiveNet
    <3>2. On(wire'[b][a]) \subseteq On(wire[b][a]) /\ Incoming(a, b) \in On(wire[b][a])
      BY <3>1, OnFacts
    <3>3. Incoming(a, b).type = "SERVER"
      BY <2>2, <2>3, <3>2 DEF SERVER
    <3>4. UNCHANGED known
      BY <3>3, ReceiveNet
    <3>. QED BY <2>2, <2>3, <3>2, <3>4 DEF known
  <2>4. CASE ~(s = b /\ p = a)
    <3>1. wire'[s][p] = wire[s][p]
      BY <2>1, <2>4, ReceiveNet
    <3>2. \A n \in Nicks : Home[n] = s => (n \in remote'[p] <=> n \in remote[p])
      BY <1>2, <2>1, <2>4 DEF ReadSame, OthersSame
    <3>3. remote'[p] \subseteq Nicks
      BY ReceiveInv DEF Inv, TablesOK
    <3>. QED BY <2>2, <3>1, <3>2, <3>3
  <2>. QED BY <2>3, <2>4
<1>. QED BY <1>1, <1>3, <1>4, ReaderTold, WriterTold DEF Aligned

LEMMA ConnectAligned ==
  ASSUME Inv, TracksOK, Aligned, Track, NEW a \in Servers, NEW b \in Servers \ {a}, Connect(a, b)
  PROVE  Aligned'
<1>1. /\ state'  = [state EXCEPT ![a][b] = "open", ![b][a] = "open"]
      /\ wire'   = [wire EXCEPT ![a][b] = <<SERVER>>, ![b][a] = <<>>]
      /\ state[a][b] = "down" /\ state[b][a] = "down" /\ odd' = odd
      /\ online' = online /\ remote' = remote /\ chan' = chan
  BY DEF Connect, known
<1>2. /\ \A s, p \in Servers : state'[s][p] = IF (s = a /\ p = b) \/ (s = b /\ p = a) THEN "open"
                                              ELSE state[s][p]
      /\ \A s, p \in Servers : ~(s = a /\ p = b) /\ ~(s = b /\ p = a) => wire'[s][p] = wire[s][p]
      /\ wire'[a][b] = <<SERVER>> /\ wire'[b][a] = <<>>
  BY <1>1 DEF Inv, NetOK
<1>3. AllSolid' /\ SteadyFlows'
  BY <1>1, TrackGives DEF Aligned, SteadyFlows, AllSolid, Solid
<1>4. ASSUME NEW s \in Servers, NEW p \in Servers \ {s} PROVE Told(s, p)'
  <2>1. CASE (s = a /\ p = b) \/ (s = b /\ p = a)
    BY <1>2, <2>1 DEF Told, Linked
  <2>2. CASE ~(s = a /\ p = b) /\ ~(s = b /\ p = a)
    <3>1. wire'[s][p] = wire[s][p] /\ (Linked(s, p)' => Linked(s, p)) /\ Told(s, p)
      BY <1>2, <2>2 DEF Aligned, Linked
    <3>. QED BY <1>1, <3>1, Kept
  <2>. QED BY <2>1, <2>2
<1>5. ASSUME NEW s \in Servers, NEW p \in Servers \ {s} PROVE Fresh(s, p)'
  <2>1. CASE (s = a /\ p = b) \/ (s = b /\ p = a)
    <3>1. \A w \in On(wire'[s][p]) : w = SERVER
      <4>1. \A t : t = wire'[s][p] => On(t) = {SERVER} \/ On(t) = {}
        <5>1. CASE s = a /\ p = b
          BY <1>2, <5>1, OnOne
        <5>2. CASE s = b /\ p = a
          BY <1>2, <5>2, OnOne
        <5>. QED BY <2>1, <5>1, <5>2
      <4>. QED BY <4>1
    <3>2. \A n \in remote[p] : Home[n] # s
      BY <1>1, <2>1 DEF Inv, RemotesOK, RemoteAt
    <3>. QED BY <1>1, <3>1, <3>2 DEF Fresh
  <2>2. CASE ~(s = a /\ p = b) /\ ~(s = b /\ p = a)
    <3>1. wire'[s][p] = wire[s][p] /\ state'[s][p] = state[s][p] /\ Fresh(s, p)
      BY <1>2, <2>2 DEF Aligned
    <3>. QED BY <1>1, <3>1 DEF Fresh
  <2>. QED BY <2>1, <2>2
<1>. QED BY <1>3, <1>4, <1>5 DEF Aligned

LEMMA CloseAligned ==
  ASSUME Inv, TracksOK, LocalHome, Aligned, Track, NEW a \in Servers, NEW b \in Servers \ {a},
         CloseEnd(a, b)
  PROVE  Aligned'
<1>1. /\ state' = [state EXCEPT ![a][b] = "down"] /\ wire' = [wire EXCEPT ![b][a] = <<>>]
      /\ odd' = odd
  BY DEF CloseEnd
<1>2. /\ \A s, p \in Servers : state'[s][p] = IF s = a /\ p = b THEN "down" ELSE state[s][p]
      /\ \A s, p \in Servers : wire'[s][p] = IF s = b /\ p = a THEN <<>> ELSE wire[s][p]
  BY <1>1 DEF Inv, NetOK
<1>3. AllSolid' /\ SteadyFlows'
  BY CloseSolid, TrackGives DEF Aligned, SteadyFlows
<1>4. /\ online' = online /\ OthersSame(a)
      /\ \A n \in Nicks : Home[n] # b =>
           /\ n \in remote'[a] <=> n \in remote[a]
           /\ \A c \in Chans : n \in chan'[a][c].members <=> n \in chan[a][c].members
      /\ remote'[a] \subseteq remote[a]
  BY CloseSame DEF Behind, CloseEnd, Inv, TablesOK
<1>5. ASSUME NEW s \in Servers, NEW p \in Servers \ {s} PROVE Told(s, p)'
  <2>1. CASE (s = a /\ p = b) \/ (s = b /\ p = a)
    BY <1>2, <2>1 DEF Told, Linked
  <2>2. CASE ~(s = a /\ p = b) /\ ~(s = b /\ p = a)
    <3>1. wire'[s][p] = wire[s][p] /\ (Linked(s, p)' => Linked(s, p)) /\ Told(s, p)
      BY <1>2, <2>2 DEF Aligned, Linked
    <3>2. ASSUME NEW n \in Nicks, Home[n] = s
          PROVE  /\ n \in online'[s] <=> n \in online[s]
                 /\ n \in remote'[p] <=> n \in remote[p]
                 /\ \A c \in Chans : /\ n \in chan'[s][c].members <=> n \in chan[s][c].members
                                     /\ n \in chan'[p][c].members <=> n \in chan[p][c].members
      <4>1. s = a \/ p = a => Home[n] # b
        BY <2>2, <3>2
      <4>. QED BY <1>4, <4>1 DEF OthersSame
    <3>. QED BY <1>1, <3>1, <3>2, Kept
  <2>. QED BY <2>1, <2>2
<1>6. ASSUME NEW s \in Servers, NEW p \in Servers \ {s} PROVE Fresh(s, p)'
  <2>1. Fresh(s, p) /\ remote'[p] \subseteq remote[p]
    BY <1>4 DEF Aligned, OthersSame
  <2>2. state'[s][p] = "open" => state[s][p] = "open"
    BY <1>2
  <2>3. On(wire'[s][p]) \subseteq On(wire[s][p])
    BY <1>2, OnOne
  <2>. QED BY <2>1, <2>2, <2>3 DEF Fresh
<1>. QED BY <1>3, <1>5, <1>6 DEF Aligned

-----------------------------------------------------------------------------
(* Synced: the theorem.                                                     *)

LEMMA AlignedInit == Init => Aligned
BY DEF Init, Aligned, AllSolid, Solid, NoChannel, SteadyFlows, Fresh, Told, Linked

LEMMA AlignedNext == Inv /\ TracksOK /\ Discreet /\ Aligned /\ [Next]_vars => Aligned'
<1>. SUFFICES ASSUME Inv, TracksOK, Discreet, Aligned, [Next]_vars PROVE Aligned'
  OBVIOUS
<1>0. LocalHome /\ OwnWire
  BY DEF Discreet
<1>1. CASE UNCHANGED vars
  <2>1. UNCHANGED <<online, remote, chan, state, wire, odd, steady>>
    BY <1>1 DEF vars
  <2>2. AllSolid' /\ SteadyFlows'
    BY <2>1 DEF Aligned, AllSolid, Solid, SteadyFlows, Flows, Shared
  <2>3. ASSUME NEW s \in Servers, NEW p \in Servers \ {s} PROVE Fresh(s, p)' /\ Told(s, p)'
    <3>1. Fresh(s, p) /\ Told(s, p)
      BY DEF Aligned
    <3>2. \A n \in Nicks : In(s, n)' = In(s, n) /\ In(p, n)' = In(p, n)
      BY <2>1 DEF In
    <3>. QED BY <2>1, <3>1, <3>2 DEF Fresh, Told, Linked, View
  <2>. QED BY <2>2, <2>3 DEF Aligned
<1>2. ASSUME Track, NEW s \in Servers, NEW n \in Nicks, Client(s, n) PROVE Aligned'
  BY <1>0, <1>2, ClientAligned
<1>3. ASSUME Track, NEW s \in Servers, NEW p \in Servers \ {s}, Connect(s, p) \/ CloseEnd(s, p)
      PROVE  Aligned'
  BY <1>0, <1>3, ConnectAligned, CloseAligned
<1>4. ASSUME Track, NEW s \in Servers, NEW p \in Servers \ {s}, Receive(s, p),
             UNCHANGED <<steps, odd>>
      PROVE  Aligned'
  BY <1>0, <1>4, ReceiveAligned
<1>. QED BY <1>1, <1>2, <1>3, <1>4 DEF Next, Act

LEMMA AlignedSynced ==
  ASSUME Inv, TracksOK, Discreet, Aligned, NEW s \in Servers, NEW p \in Servers \ {s}, Quiet(s, p)
  PROVE  /\ UsersAt(s, p) \ odd = online[s] \ odd
         /\ \A c \in steady[s][p] : MembersAt(s, p, c) \ odd = Local(s, chan[s][c]) \ odd
<1>1. wire[s][p] = <<>> /\ Linked(s, p) /\ steady[s][p] \subseteq Chans
  BY DEF Quiet, Linked, TracksOK
<1>2. /\ online[s] \subseteq Nicks /\ remote[p] \subseteq Nicks
      /\ \A n \in online[s] : Home[n] = s
      /\ \A r \in Servers : \A c \in Chans : /\ chan[r][c].members \subseteq Nicks
                                             /\ chan[r][c].members \subseteq online[r] \cup remote[r]
      /\ \A n \in remote[s] : Home[n] # s
  BY DEF Inv, TablesOK, ChannelOf, Channel, KnownAt, Discreet, LocalHome, RemotesOK, RemoteAt
<1>3. ASSUME NEW n \in Nicks, n \notin odd, Home[n] = s
      PROVE  /\ n \in online[s] <=> n \in remote[p]
             /\ \A c \in steady[s][p] : n \in chan[s][c].members <=> n \in chan[p][c].members
  <2>1. Agree(n, <<>>, online[s], In(s, n), remote[p], In(p, n), steady[s][p])
    BY <1>1, <1>3 DEF Aligned, Told, View
  <2>. QED BY <1>1, <2>1, AgreeAtLast DEF In
<1>4. UsersAt(s, p) \ odd = online[s] \ odd
  BY <1>2, <1>3 DEF UsersAt, Behind
<1>5. ASSUME NEW c \in steady[s][p]
      PROVE  MembersAt(s, p, c) \ odd = Local(s, chan[s][c]) \ odd
  BY <1>1, <1>2, <1>3 DEF MembersAt, Local
<1>. QED BY <1>4, <1>5

\* Whenever a peer has read all that a server wrote to it, it has the server's users, and
\* the members of each channel that the policies of both have let through since the link
\* was registered, however users, joins, parts and quits fell before, within or after the
\* burst (ServerLink.send_burst, relay_event and the handlers of what they send), but for
\* the nicks that a change the code announces to nobody has touched.
THEOREM Synchronised == Spec => []Synced
<1>1. Init => Inv /\ TracksOK /\ Discreet /\ Aligned
  BY InitInv, DiscreetInit, AlignedInit
<1>2. Inv /\ TracksOK /\ Discreet /\ Aligned /\ [Next]_vars =>
        (Inv /\ TracksOK /\ Discreet /\ Aligned)'
  BY NextInv, DiscreetNext, AlignedNext
<1>3. Inv /\ TracksOK /\ Discreet /\ Aligned => Synced
  BY AlignedSynced DEF Synced
<1>. QED BY <1>1, <1>2, <1>3, PTL DEF Spec

=============================================================================
