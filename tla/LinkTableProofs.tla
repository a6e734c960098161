--------------------------- MODULE LinkTableProofs ---------------------------
(***************************************************************************)
(* Proofs about LinkTable, for any servers, configuration, reachability    *)
(* and bounds, and whether or not handshakes are prompt.                   *)
(***************************************************************************)
EXTENDS LinkTable, WellFoundedInduction, TLAPS

\* An end that is not closed is one of two ends, and the connection still says
\* which servers they belong to.
EndAt(c, s) == phase[c][s] # "closed" =>
                 /\ ends[c].from \in Servers /\ ends[c].to \in Servers
                 /\ ends[c].from # ends[c].to
                 /\ s \in {ends[c].from, ends[c].to}

\* RegisteredIsUp for one entry of the table.
EntryAt(s, p) == link[s][p] # None =>
                   phase[link[s][p]][s] = "up" /\ Peer(link[s][p], s) = p

ConnInv == /\ ends  \in [Conns -> [from : ServerNames, to : ServerNames, shut : BOOLEAN]]
           /\ phase \in [Conns -> [Servers -> Phases]]
           /\ inbox \in [Conns -> [Servers -> {<<>>, <<"HELLO">>}]]
           /\ link  \in [Servers -> [Servers -> Conns \cup {None}]]
           /\ \A c \in Conns : \A s \in Servers : EndAt(c, s)
           /\ \A s \in Servers : \A p \in Servers : EntryAt(s, p)

\* A task that is not over is for two servers.
TaskAt(t) == task[t].at # "free" => \E s \in Servers : \E p \in Servers \ {s} :
                                      task[t].of = <<s, p>>

\* The loop that is recorded for a peer is one that has not been told to stop.
RecordAt(s, p) == retry[s][p] # None => Trying(retry[s][p], s, p)

TaskInv == /\ retry \in [Servers -> [Servers -> Tasks \cup {None}]]
           /\ task  \in [Tasks -> [of : ServerNames \X ServerNames,
                                   at : {"free", "sleeping", "polling", "cancelled"},
                                   conn : Conns \cup {None}]]
           /\ \A t \in Tasks : TaskAt(t)
           /\ \A s \in Servers : \A p \in Servers : RecordAt(s, p)

RestOK == /\ running \in SUBSET Servers
          /\ booted  \in [Servers -> SUBSET Servers]
          /\ known   \in [Servers -> SUBSET Servers]
          /\ faults  \in Nat

\* The inductive invariant.
IInv == ConnInv /\ TaskInv /\ RestOK /\ NeverGivenUp

LEMMA IInvGives == IInv => TypeOK /\ RegisteredIsUp /\ NeverGivenUp
BY DEF IInv, ConnInv, TaskInv, RestOK, TypeOK, RegisteredIsUp, EntryAt

-----------------------------------------------------------------------------
(* Slots. *)

\* Of any slots one is the least.
LEMMA LeastIn ==
  ASSUME NEW S, S \subseteq Nat, S # {}
  PROVE  Least(S) \in S
<1>. DEFINE Lt == OpToRel(<, Nat)
<1>1. PICK x \in S : \A y \in S : ~(<<y, x>> \in Lt)
  <2>1. IsWellFoundedOn(Lt, Nat)
    BY NatLessThanWellFounded
  <2>. HIDE DEF Lt
  <2>. QED BY <2>1, WFMin
<1>. HIDE DEF Lt
<1>2. \A y \in S : x <= y
  <2>. SUFFICES ASSUME NEW y \in S PROVE x <= y
    OBVIOUS
  <2>1. x \in Nat /\ y \in Nat /\ ~(<<y, x>> \in Lt)
    BY <1>1
  <2>2. ~(y < x)
    BY <2>1 DEF OpToRel, Lt
  <2>. QED BY <2>1, <2>2
<1>. QED BY <1>2 DEF Least

LEMMA FreeConn == FreeConns # {} => Least(FreeConns) \in FreeConns /\ FreeConns \subseteq Conns
<1>1. FreeConns \subseteq Conns
  BY DEF FreeConns
<1>. QED BY <1>1, LeastIn, BoundsAssumption

LEMMA FreeTask == FreeTasks # {} => Least(FreeTasks) \in FreeTasks /\ FreeTasks \subseteq Tasks
<1>1. FreeTasks \subseteq Tasks
  BY DEF FreeTasks
<1>. QED BY <1>1, LeastIn, BoundsAssumption

LEMMA SlotNotNone == None \notin Conns /\ None \notin Tasks
BY BoundsAssumption DEF None

-----------------------------------------------------------------------------
(* Retries. *)

\* A peer of the configuration is retried after maybe_retry_link, and no loop
\* that tried another is disturbed.
LEMMA MaybeRetryOK ==
  ASSUME TaskInv, NEW s \in Servers, NEW p \in Servers \ {s}, MaybeRetry(s, p)
  PROVE  /\ TaskInv'
         /\ \A t \in Tasks : \A a, b \in Servers : Trying(t, a, b) => Trying(t, a, b)'
         /\ p \in Config[s] => \E t \in Tasks : Trying(t, s, p)'
<1>1. CASE RetryStarted(s, p)
  <2>. DEFINE new == [of |-> <<s, p>>, at |-> "sleeping", conn |-> None]
  <2>0. PICK n : /\ n = Least(FreeTasks)
                 /\ FreeTasks # {}
                 /\ retry' = [retry EXCEPT ![s][p] = n]
                 /\ task' = [task EXCEPT ![n] = new]
    BY <1>1 DEF MaybeRetry
  <2>1. /\ retry' = [retry EXCEPT ![s][p] = n]
        /\ task' = [task EXCEPT ![n] = new]
    BY <2>0
  <2>2. n \in Tasks /\ task[n].at = "free"
    BY <2>0, FreeTask DEF FreeTasks
  <2>3. new \in [of : ServerNames \X ServerNames,
                 at : {"free", "sleeping", "polling", "cancelled"}, conn : Conns \cup {None}]
    BY DEF ServerNames
  <2>4. /\ retry' \in [Servers -> [Servers -> Tasks \cup {None}]]
        /\ task' \in [Tasks -> [of : ServerNames \X ServerNames,
                                at : {"free", "sleeping", "polling", "cancelled"},
                                conn : Conns \cup {None}]]
    BY <2>1, <2>2, <2>3 DEF TaskInv
  <2>5. task'[n] = new /\ \A t \in Tasks : t # n => task'[t] = task[t]
    BY <2>1, <2>2 DEF TaskInv
  <2>6. \A t \in Tasks : \A a, b \in Servers : Trying(t, a, b) => Trying(t, a, b)'
    BY <2>2, <2>5 DEF Trying
  <2>7. Trying(n, s, p)'
    BY <2>5 DEF Trying
  <2>8. \A t \in Tasks : TaskAt(t)'
    BY <2>5 DEF TaskInv, TaskAt
  <2>9. ASSUME NEW a \in Servers, NEW b \in Servers PROVE RecordAt(a, b)'
    <3>1. CASE a = s /\ b = p
      <4>1. retry'[s][p] = n
        BY <2>1 DEF TaskInv
      <4>. QED BY <3>1, <4>1, <2>7 DEF RecordAt, Trying
    <3>2. CASE ~(a = s /\ b = p)
      <4>1. retry'[a][b] = retry[a][b] /\ retry[a][b] \in Tasks \cup {None}
        BY <3>2, <2>1 DEF TaskInv
      <4>2. RecordAt(a, b)
        BY DEF TaskInv
      <4>3. retry[a][b] # None => retry[a][b] \in Tasks /\ Trying(retry[a][b], a, b)
        BY <4>1, <4>2 DEF RecordAt
      <4>. QED BY <4>1, <4>3, <2>6 DEF RecordAt, Trying
    <3>. QED BY <3>1, <3>2
  <2>. QED BY <2>2, <2>4, <2>6, <2>7, <2>8, <2>9 DEF TaskInv
<1>2. CASE ~RetryStarted(s, p)
  <2>1. retry' = retry /\ task' = task
    BY <1>2 DEF MaybeRetry
  <2>2. TaskInv' /\ \A t \in Tasks : \A a, b \in Servers : Trying(t, a, b) => Trying(t, a, b)'
    BY <2>1 DEF TaskInv, TaskAt, RecordAt, Trying
  <2>3. ASSUME p \in Config[s] PROVE \E t \in Tasks : Trying(t, s, p)'
    <3>1. retry[s][p] # None
      BY <1>2, <2>3 DEF RetryStarted
    <3>2. retry[s][p] \in Tasks /\ RecordAt(s, p)
      BY <3>1 DEF TaskInv
    <3>. QED BY <3>1, <3>2, <2>2 DEF RecordAt
  <2>. QED BY <2>2, <2>3
<1>. QED BY <1>1, <1>2

\* cancel_link_retry stops only loops for the peer it is called for.
LEMMA CancelRetryOK ==
  ASSUME TaskInv, NEW s \in Servers, NEW p \in Servers, CancelRetry(s, p)
  PROVE  /\ TaskInv'
         /\ \A t \in Tasks : \A a, b \in Servers :
              ~(a = s /\ b = p) /\ Trying(t, a, b) => Trying(t, a, b)'
<1>0. PICK r : r = retry[s][p]
  OBVIOUS
<1>1. retry' \in [Servers -> [Servers -> Tasks \cup {None}]]
  BY DEF CancelRetry, TaskInv
<1>2. retry'[s][p] = None /\ \A a, b \in Servers : ~(a = s /\ b = p) => retry'[a][b] = retry[a][b]
  BY DEF CancelRetry, TaskInv
<1>3. CASE r = None
  <2>1. task' = task
    BY <1>0, <1>3 DEF CancelRetry
  <2>2. \A t, a, b : Trying(t, a, b) => Trying(t, a, b)'
    BY <2>1 DEF Trying
  <2>3. \A a, b \in Servers : RecordAt(a, b)'
    BY <1>2, <2>2 DEF TaskInv, RecordAt
  <2>. QED BY <1>1, <2>1, <2>2, <2>3 DEF TaskInv, TaskAt
<1>4. CASE r # None
  <2>1. r \in Tasks /\ Trying(r, s, p)
    BY <1>0, <1>4 DEF TaskInv, RecordAt
  <2>2. task' = [task EXCEPT ![r].at = "cancelled", ![r].conn = None]
    BY <1>0, <1>4 DEF CancelRetry
  <2>3. task' \in [Tasks -> [of : ServerNames \X ServerNames,
                             at : {"free", "sleeping", "polling", "cancelled"},
                             conn : Conns \cup {None}]]
    BY <2>1, <2>2 DEF TaskInv
  <2>4. /\ task'[r].of = <<s, p>> /\ task'[r].at = "cancelled"
        /\ \A t \in Tasks : t # r => task'[t] = task[t]
    BY <2>1, <2>2 DEF TaskInv, Trying
  <2>5. \A t \in Tasks : TaskAt(t)'
    BY <2>1, <2>4 DEF TaskInv, TaskAt, Trying
  <2>6. \A t \in Tasks : \A a, b \in Servers :
          ~(a = s /\ b = p) /\ Trying(t, a, b) => Trying(t, a, b)'
    BY <2>1, <2>4 DEF Trying
  <2>7. ASSUME NEW a \in Servers, NEW b \in Servers PROVE RecordAt(a, b)'
    <3>1. CASE a = s /\ b = p
      BY <1>2, <3>1 DEF RecordAt
    <3>2. CASE ~(a = s /\ b = p)
      <4>1. retry'[a][b] = retry[a][b] /\ retry[a][b] \in Tasks \cup {None} /\ RecordAt(a, b)
        BY <1>2, <3>2 DEF TaskInv
      <4>. QED BY <2>6, <3>2, <4>1 DEF RecordAt, Trying
    <3>. QED BY <3>1, <3>2
  <2>. QED BY <1>1, <2>3, <2>5, <2>6, <2>7 DEF TaskInv
<1>. QED BY <1>3, <1>4

\* A loop that ends was the only one to be forgotten, but for the record of its
\* peer, which may have been another's.
LEMMA FinishTaskOK ==
  ASSUME TaskInv, NEW t \in Tasks, task[t].at # "free", FinishTask(t)
  PROVE  /\ TaskInv'
         /\ \A u \in Tasks \ {t} : \A a, b \in Servers : Trying(u, a, b) => Trying(u, a, b)'
<1>1. PICK s \in Servers, p \in Servers : task[t].of = <<s, p>>
  BY DEF TaskInv, TaskAt
<1>2. task' = [task EXCEPT ![t] = NoTask] /\ retry' = [retry EXCEPT ![s][p] = None]
  BY <1>1 DEF FinishTask
<1>3. NoTask \in [of : ServerNames \X ServerNames,
                  at : {"free", "sleeping", "polling", "cancelled"}, conn : Conns \cup {None}]
  BY DEF NoTask, NoPair, ServerNames
<1>4. /\ retry' \in [Servers -> [Servers -> Tasks \cup {None}]]
      /\ task' \in [Tasks -> [of : ServerNames \X ServerNames,
                              at : {"free", "sleeping", "polling", "cancelled"},
                              conn : Conns \cup {None}]]
  BY <1>2, <1>3 DEF TaskInv
<1>5. task'[t] = NoTask /\ \A u \in Tasks : u # t => task'[u] = task[u]
  BY <1>2 DEF TaskInv
<1>6. \A u \in Tasks : TaskAt(u)'
  BY <1>5 DEF TaskInv, TaskAt, NoTask
<1>7. \A u \in Tasks \ {t} : \A a, b \in Servers : Trying(u, a, b) => Trying(u, a, b)'
  BY <1>5 DEF Trying
<1>8. ASSUME NEW a \in Servers, NEW b \in Servers PROVE RecordAt(a, b)'
  <2>1. CASE a = s /\ b = p
    BY <1>2, <2>1 DEF TaskInv, RecordAt
  <2>2. CASE ~(a = s /\ b = p)
    <3>1. retry'[a][b] = retry[a][b] /\ retry[a][b] \in Tasks \cup {None} /\ RecordAt(a, b)
      BY <1>2, <2>2 DEF TaskInv
    <3>2. retry[a][b] # None => retry[a][b] \in Tasks \ {t} /\ Trying(retry[a][b], a, b)
      BY <1>1, <2>2, <3>1 DEF RecordAt, Trying
    <3>. QED BY <1>7, <3>1, <3>2 DEF RecordAt, Trying
  <2>. QED BY <2>1, <2>2
<1>. QED BY <1>4, <1>6, <1>7, <1>8 DEF TaskInv

-----------------------------------------------------------------------------
(* Connections. *)

LEMMA EntryFacts ==
  ASSUME ConnInv, NEW s \in Servers, NEW p \in Servers, link[s][p] # None
  PROVE  /\ link[s][p] \in Conns
         /\ phase[link[s][p]][s] = "up"
         /\ Peer(link[s][p], s) = p
BY DEF ConnInv, EntryAt

LEMMA PeerOfOpen ==
  ASSUME ConnInv, NEW c \in Conns, NEW s \in Servers, phase[c][s] # "closed"
  PROVE  /\ Peer(c, s) \in Servers \ {s}
         /\ {ends[c].from, ends[c].to} = {s, Peer(c, s)}
<1>1. EndAt(c, s)
  BY DEF ConnInv
<1>. QED BY <1>1 DEF EndAt, Peer

\* connect_to_peer takes a connection that nobody has an end of.
LEMMA DialOK ==
  ASSUME ConnInv, NEW s \in Servers, NEW p \in Servers \ {s}, Dial(s, p), UNCHANGED link
  PROVE  ConnInv'
<1>1. PICK c : /\ c = Least(FreeConns) /\ FreeConns # {}
               /\ ends'  = [ends EXCEPT ![c] = [from |-> s, to |-> p, shut |-> FALSE]]
               /\ phase' = [phase EXCEPT ![c] = [q \in Servers |-> IF q \in {s, p} THEN "open" ELSE "closed"]]
               /\ inbox' = [inbox EXCEPT ![c] = [q \in Servers |-> IF q = p THEN <<"HELLO">> ELSE <<>>]]
  BY DEF Dial
<1>2. c \in Conns /\ \A q \in Servers : phase[c][q] = "closed"
  BY <1>1, FreeConn DEF FreeConns
<1>3. /\ ends'[c] = [from |-> s, to |-> p, shut |-> FALSE]
      /\ \A q \in Servers : phase'[c][q] # "closed" => q \in {s, p}
      /\ \A d \in Conns : d # c => ends'[d] = ends[d] /\ phase'[d] = phase[d]
  BY <1>1, <1>2 DEF ConnInv
<1>4. /\ ends'  \in [Conns -> [from : ServerNames, to : ServerNames, shut : BOOLEAN]]
      /\ phase' \in [Conns -> [Servers -> Phases]]
      /\ inbox' \in [Conns -> [Servers -> {<<>>, <<"HELLO">>}]]
  <2>1. [from |-> s, to |-> p, shut |-> FALSE] \in [from : ServerNames, to : ServerNames, shut : BOOLEAN]
    BY DEF ServerNames
  <2>2. [q \in Servers |-> IF q \in {s, p} THEN "open" ELSE "closed"] \in [Servers -> Phases]
    BY DEF Phases
  <2>3. [q \in Servers |-> IF q = p THEN <<"HELLO">> ELSE <<>>] \in [Servers -> {<<>>, <<"HELLO">>}]
    OBVIOUS
  <2>4. ends' \in [Conns -> [from : ServerNames, to : ServerNames, shut : BOOLEAN]]
    BY <1>1, <2>1 DEF ConnInv
  <2>5. phase' \in [Conns -> [Servers -> Phases]]
    BY <1>1, <2>2 DEF ConnInv
  <2>6. inbox' \in [Conns -> [Servers -> {<<>>, <<"HELLO">>}]]
    BY <1>1, <2>3 DEF ConnInv
  <2>. QED BY <2>4, <2>5, <2>6
<1>5. ASSUME NEW d \in Conns, NEW q \in Servers PROVE EndAt(d, q)'
  <2>1. CASE d = c
    BY <1>3, <2>1 DEF EndAt
  <2>2. CASE d # c
    BY <1>3, <2>2 DEF EndAt, ConnInv
  <2>. QED BY <2>1, <2>2
<1>6. ASSUME NEW a \in Servers, NEW b \in Servers PROVE EntryAt(a, b)'
  <2>. SUFFICES ASSUME link[a][b] # None
                PROVE  phase'[link[a][b]][a] = "up" /\ Peer(link[a][b], a)' = b
    BY DEF EntryAt, Peer
  <2>1. link[a][b] \in Conns \ {c}
    BY <1>2, EntryFacts
  <2>. QED BY <1>3, <2>1, EntryFacts DEF Peer
<1>. QED BY <1>4, <1>5, <1>6 DEF ConnInv

\* An end that is over takes the entry of its peer's name along: no entry is
\* left for it.
LEMMA RemoveLinkConnOK ==
  ASSUME ConnInv, NEW c \in Conns, NEW s \in Servers, phase[c][s] # "closed",
         NEW named \in BOOLEAN, phase[c][s] = "up" => named, RemoveLink(c, s, named)
  PROVE  /\ ConnInv'
         /\ \A a, b \in Servers : ~(a = s /\ b = Peer(c, s)) => link'[a][b] = link[a][b]
<1>1. PICK p \in Servers \ {s} : p = Peer(c, s) /\ {ends[c].from, ends[c].to} = {s, p}
  BY PeerOfOpen
<1>2. /\ phase' = [phase EXCEPT ![c][s] = "closed"]
      /\ inbox' = [inbox EXCEPT ![c][s] = <<>>]
      /\ link'  = IF named THEN [link EXCEPT ![s][p] = None] ELSE link
      /\ ends'  = IF phase[c][p] = "closed" THEN [ends EXCEPT ![c] = NoEnds] ELSE ends
  BY <1>1 DEF RemoveLink
<1>3. /\ ends'  \in [Conns -> [from : ServerNames, to : ServerNames, shut : BOOLEAN]]
      /\ phase' \in [Conns -> [Servers -> Phases]]
      /\ inbox' \in [Conns -> [Servers -> {<<>>, <<"HELLO">>}]]
      /\ link'  \in [Servers -> [Servers -> Conns \cup {None}]]
  <2>1. NoEnds \in [from : ServerNames, to : ServerNames, shut : BOOLEAN]
    BY DEF NoEnds, ServerNames
  <2>2. ends' \in [Conns -> [from : ServerNames, to : ServerNames, shut : BOOLEAN]]
    BY <1>2, <2>1 DEF ConnInv
  <2>3. phase' \in [Conns -> [Servers -> Phases]]
    BY <1>2 DEF ConnInv, Phases
  <2>4. inbox' \in [Conns -> [Servers -> {<<>>, <<"HELLO">>}]]
    BY <1>2 DEF ConnInv
  <2>5. link' \in [Servers -> [Servers -> Conns \cup {None}]]
    BY <1>2 DEF ConnInv
  <2>. QED BY <2>2, <2>3, <2>4, <2>5
<1>4. \A d \in Conns, q \in Servers :
        phase'[d][q] = IF d = c /\ q = s THEN "closed" ELSE phase[d][q]
  BY <1>2 DEF ConnInv
<1>5. ASSUME NEW d \in Conns, NEW q \in Servers, phase'[d][q] # "closed"
      PROVE  ends'[d] = ends[d] /\ phase[d][q] # "closed"
  <2>1. CASE d # c
    BY <1>2, <1>4, <1>5, <2>1 DEF ConnInv
  <2>2. CASE d = c
    <3>1. q # s /\ phase[c][q] # "closed"
      BY <1>4, <1>5, <2>2
    <3>2. q = p
      BY <1>1, <3>1 DEF ConnInv, EndAt
    <3>. QED BY <1>2, <2>2, <3>1, <3>2
  <2>. QED BY <2>1, <2>2
<1>6. \A d \in Conns : \A q \in Servers : EndAt(d, q)'
  BY <1>5 DEF EndAt, ConnInv
<1>7. \A a, b \in Servers : ~(a = s /\ b = p) => link'[a][b] = link[a][b]
  BY <1>2 DEF ConnInv
<1>8. ASSUME NEW a \in Servers, NEW b \in Servers PROVE EntryAt(a, b)'
  <2>. SUFFICES ASSUME link'[a][b] # None
                PROVE  /\ phase'[link'[a][b]][a] = "up"
                       /\ ends'[link'[a][b]] = ends[link'[a][b]]
                       /\ Peer(link'[a][b], a) = b
    BY DEF EntryAt, Peer
  <2>1. link'[a][b] = link[a][b]
    BY <1>2 DEF ConnInv
  <2>2. /\ link[a][b] \in Conns
        /\ phase[link[a][b]][a] = "up"
        /\ Peer(link[a][b], a) = b
    BY <2>1, EntryFacts
  <2>3. ~(link[a][b] = c /\ a = s)
    <3>. SUFFICES ASSUME link[a][b] = c, a = s PROVE FALSE
      OBVIOUS
    <3>1. b = p /\ named
      BY <1>1, <2>2
    <3>. QED BY <1>2, <2>1, <3>1 DEF ConnInv
  <2>4. phase'[link[a][b]][a] = "up"
    BY <1>4, <2>2, <2>3
  <2>5. ends'[link[a][b]] = ends[link[a][b]]
    BY <1>5, <2>2, <2>4
  <2>. QED BY <2>1, <2>2, <2>4, <2>5
<1>. QED BY <1>1, <1>3, <1>6, <1>7, <1>8 DEF ConnInv

\* A handshake that is accepted fills an empty entry with an end that is up.
LEMMA AcceptConnOK ==
  ASSUME ConnInv, NEW c \in Conns, NEW s \in Servers, Accept(c, s)
  PROVE  /\ ConnInv'
         /\ link'[s][Peer(c, s)] = c
         /\ \A a, b \in Servers : ~(a = s /\ b = Peer(c, s)) => link'[a][b] = link[a][b]
<1>1. phase[c][s] = "open" /\ link[s][Peer(c, s)] = None
  BY DEF Accept, Accepts
<1>2. PICK p \in Servers \ {s} : p = Peer(c, s)
  BY <1>1, PeerOfOpen
<1>3. /\ phase' = [phase EXCEPT ![c][s] = "up"]
      /\ link'  = [link EXCEPT ![s][p] = c]
      /\ ends'  = ends
      /\ \/ inbox' = [inbox EXCEPT ![c][s] = <<>>, ![c][p] = <<"HELLO">>]
         \/ inbox' = [inbox EXCEPT ![c][s] = <<>>]
  BY <1>2 DEF Accept
<1>4. inbox' \in [Conns -> [Servers -> {<<>>, <<"HELLO">>}]]
  <2>1. CASE inbox' = [inbox EXCEPT ![c][s] = <<>>, ![c][p] = <<"HELLO">>]
    BY <2>1 DEF ConnInv
  <2>2. CASE inbox' = [inbox EXCEPT ![c][s] = <<>>]
    BY <2>2 DEF ConnInv
  <2>. QED BY <1>3, <2>1, <2>2
<1>5. phase' \in [Conns -> [Servers -> Phases]]
  BY <1>3 DEF ConnInv, Phases
<1>6. link' \in [Servers -> [Servers -> Conns \cup {None}]]
  BY <1>3 DEF ConnInv
<1>7. \A d \in Conns, q \in Servers :
        phase'[d][q] = IF d = c /\ q = s THEN "up" ELSE phase[d][q]
  BY <1>3 DEF ConnInv
<1>8. \A a, b \in Servers : link'[a][b] = IF a = s /\ b = p THEN c ELSE link[a][b]
  BY <1>3 DEF ConnInv
<1>9. \A d \in Conns : \A q \in Servers : EndAt(d, q)'
  BY <1>1, <1>3, <1>7 DEF EndAt, ConnInv
<1>10. ASSUME NEW a \in Servers, NEW b \in Servers PROVE EntryAt(a, b)'
  <2>. SUFFICES ASSUME link'[a][b] # None
                PROVE  phase'[link'[a][b]][a] = "up" /\ Peer(link'[a][b], a) = b
    BY <1>3 DEF EntryAt, Peer
  <2>1. CASE a = s /\ b = p
    BY <1>2, <1>7, <1>8, <2>1
  <2>2. CASE ~(a = s /\ b = p)
    <3>1. link'[a][b] = link[a][b]
      BY <1>8, <2>2
    <3>. QED BY <1>7, <3>1, EntryFacts
  <2>. QED BY <2>1, <2>2
<1>. QED BY <1>2, <1>3, <1>4, <1>5, <1>6, <1>8, <1>9, <1>10 DEF ConnInv

\* A process that dies takes its ends and its table; nobody else's entry is for
\* an end of its.
LEMMA CrashConnOK ==
  ASSUME ConnInv, NEW s \in Servers, Crash(s)
  PROVE  ConnInv' /\ \A a \in Servers \ {s} : link'[a] = link[a]
<1>1. /\ phase'   = [c \in Conns |-> [phase[c] EXCEPT ![s] = "closed"]]
      /\ ends'    = [c \in Conns |-> IF \A p \in Servers \ {s} : phase[c][p] = "closed"
                                     THEN NoEnds ELSE ends[c]]
      /\ inbox'   = [c \in Conns |-> [inbox[c] EXCEPT ![s] = <<>>]]
      /\ link'    = [link EXCEPT ![s] = [p \in Servers |-> None]]
  BY DEF Crash
<1>2. /\ ends'  \in [Conns -> [from : ServerNames, to : ServerNames, shut : BOOLEAN]]
      /\ phase' \in [Conns -> [Servers -> Phases]]
      /\ inbox' \in [Conns -> [Servers -> {<<>>, <<"HELLO">>}]]
      /\ link'  \in [Servers -> [Servers -> Conns \cup {None}]]
  <2>1. NoEnds \in [from : ServerNames, to : ServerNames, shut : BOOLEAN]
    BY DEF NoEnds, ServerNames
  <2>2. ends' \in [Conns -> [from : ServerNames, to : ServerNames, shut : BOOLEAN]]
    BY <1>1, <2>1 DEF ConnInv
  <2>3. phase' \in [Conns -> [Servers -> Phases]]
    BY <1>1 DEF ConnInv, Phases
  <2>4. inbox' \in [Conns -> [Servers -> {<<>>, <<"HELLO">>}]]
    BY <1>1 DEF ConnInv
  <2>5. link' \in [Servers -> [Servers -> Conns \cup {None}]]
    BY <1>1 DEF ConnInv
  <2>. QED BY <2>2, <2>3, <2>4, <2>5
<1>3. \A c \in Conns, q \in Servers : phase'[c][q] = IF q = s THEN "closed" ELSE phase[c][q]
  BY <1>1 DEF ConnInv
<1>4. \A c \in Conns, q \in Servers :
        phase'[c][q] # "closed" => ends'[c] = ends[c] /\ phase[c][q] # "closed" /\ q # s
  BY <1>1, <1>3 DEF ConnInv
<1>5. \A a \in Servers \ {s} : link'[a] = link[a]
  BY <1>1 DEF ConnInv
<1>6. \A c \in Conns : \A q \in Servers : EndAt(c, q)'
  BY <1>4 DEF EndAt, ConnInv
<1>7. ASSUME NEW a \in Servers, NEW b \in Servers PROVE EntryAt(a, b)'
  <2>. SUFFICES ASSUME link'[a][b] # None
                PROVE  /\ phase'[link'[a][b]][a] = "up"
                       /\ ends'[link'[a][b]] = ends[link'[a][b]]
                       /\ Peer(link'[a][b], a) = b
    BY DEF EntryAt, Peer
  <2>1. a # s
    BY <1>1 DEF ConnInv
  <2>2. link'[a][b] = link[a][b]
    BY <1>5, <2>1
  <2>3. /\ link[a][b] \in Conns /\ phase[link[a][b]][a] = "up" /\ Peer(link[a][b], a) = b
    BY <2>2, EntryFacts
  <2>4. phase'[link[a][b]][a] = "up"
    BY <1>3, <2>1, <2>3
  <2>. QED BY <1>4, <2>2, <2>3, <2>4
<1>. QED BY <1>2, <1>5, <1>6, <1>7 DEF ConnInv

\* To close a writer changes no end and no server's view of it.
LEMMA ShutOK ==
  ASSUME ConnInv, UNCHANGED <<phase, inbox, link>>, NEW c, NEW x \in BOOLEAN,
         ends' = [ends EXCEPT ![c].shut = x]
  PROVE  ConnInv'
<1>1. ends' \in [Conns -> [from : ServerNames, to : ServerNames, shut : BOOLEAN]]
  BY DEF ConnInv
<1>2. \A d \in Conns : ends'[d].from = ends[d].from /\ ends'[d].to = ends[d].to
  BY DEF ConnInv
<1>3. \A d \in Conns : \A q \in Servers : EndAt(d, q)'
  BY <1>2 DEF EndAt, ConnInv
<1>4. ASSUME NEW a \in Servers, NEW b \in Servers PROVE EntryAt(a, b)'
  BY <1>2, EntryFacts DEF EntryAt, Peer
<1>. QED BY <1>1, <1>3, <1>4 DEF ConnInv

LEMMA ConnSame ==
  ASSUME ConnInv, UNCHANGED <<ends, phase, inbox, link>>
  PROVE  ConnInv'
BY DEF ConnInv, EndAt, EntryAt, Peer

-----------------------------------------------------------------------------
(* Steps. *)

\* NeverGivenUp for one peer.
KeptAt(a, b) == b \in known[a] /\ b \in Config[a] =>
                  link[a][b] # None \/ \E t \in Tasks : Trying(t, a, b)

LEMMA KeptEverywhere ==
  ASSUME RestOK
  PROVE  NeverGivenUp <=> \A a, b \in Servers : KeptAt(a, b)
BY DEF NeverGivenUp, KeptAt, RestOK

\* What is left of IInv' once the rest is shown.
LEMMA KeptStep ==
  ASSUME IInv, ConnInv', TaskInv', RestOK',
         \A a, b \in Servers : KeptAt(a, b) => KeptAt(a, b)'
  PROVE  IInv'
BY KeptEverywhere DEF IInv, NeverGivenUp, KeptAt, RestOK

\* Nothing is given up where links, histories and the loops that try stay.
LEMMA KeptSame ==
  ASSUME IInv, ConnInv', TaskInv', RestOK', UNCHANGED <<link, known>>,
         \A t \in Tasks : \A a, b \in Servers : Trying(t, a, b) => Trying(t, a, b)'
  PROVE  IInv'
<1>1. \A a, b \in Servers : KeptAt(a, b) => KeptAt(a, b)'
  BY DEF KeptAt
<1>. QED BY <1>1, KeptStep

LEMMA TaskSame ==
  ASSUME TaskInv, UNCHANGED <<retry, task>>
  PROVE  /\ TaskInv'
         /\ \A t \in Tasks : \A a, b \in Servers : Trying(t, a, b) => Trying(t, a, b)'
BY DEF TaskInv, TaskAt, RecordAt, Trying

LEMMA StartStep ==
  ASSUME IInv, NEW s \in Servers, Start(s)
  PROVE  IInv'
<1>1. ConnInv' /\ RestOK'
  BY ConnSame DEF IInv, RestOK, Start
<1>. QED BY <1>1, TaskSame, KeptSame DEF IInv, Start

LEMMA CrashStep ==
  ASSUME IInv, NEW s \in Servers, Crash(s)
  PROVE  IInv'
<1>1. ConnInv' /\ \A a \in Servers \ {s} : link'[a] = link[a]
  BY CrashConnOK DEF IInv
<1>2. /\ retry' = [retry EXCEPT ![s] = [p \in Servers |-> None]]
      /\ task'  = [t \in Tasks |-> IF task[t].of[1] = s THEN NoTask ELSE task[t]]
      /\ known' = [known EXCEPT ![s] = {}]
      /\ booted' = [booted EXCEPT ![s] = {}]
      /\ running' = running \ {s}
      /\ faults' = faults + 1
  BY DEF Crash
<1>3. RestOK'
  BY <1>2 DEF IInv, RestOK
<1>4. NoTask \in [of : ServerNames \X ServerNames,
                  at : {"free", "sleeping", "polling", "cancelled"}, conn : Conns \cup {None}]
  BY DEF NoTask, NoPair, ServerNames
<1>5. \A t \in Tasks : \A a, b \in Servers : a # s /\ Trying(t, a, b) => Trying(t, a, b)'
  BY <1>2 DEF Trying
<1>6. TaskInv'
  <2>1. retry' \in [Servers -> [Servers -> Tasks \cup {None}]]
    BY <1>2 DEF IInv, TaskInv
  <2>2. task' \in [Tasks -> [of : ServerNames \X ServerNames,
                             at : {"free", "sleeping", "polling", "cancelled"},
                             conn : Conns \cup {None}]]
    BY <1>2, <1>4 DEF IInv, TaskInv
  <2>3. \A t \in Tasks : TaskAt(t)'
    BY <1>2 DEF IInv, TaskInv, TaskAt, NoTask
  <2>4. ASSUME NEW a \in Servers, NEW b \in Servers PROVE RecordAt(a, b)'
    <3>1. CASE a = s
      BY <1>2, <3>1 DEF IInv, TaskInv, RecordAt
    <3>2. CASE a # s
      <4>1. retry'[a][b] = retry[a][b] /\ retry[a][b] \in Tasks \cup {None} /\ RecordAt(a, b)
        BY <1>2, <3>2 DEF IInv, TaskInv
      <4>. QED BY <1>5, <3>2, <4>1 DEF RecordAt, Trying
    <3>. QED BY <3>1, <3>2
  <2>. QED BY <2>1, <2>2, <2>3, <2>4 DEF TaskInv
<1>7. ASSUME NEW a \in Servers, NEW b \in Servers, KeptAt(a, b) PROVE KeptAt(a, b)'
  <2>1. CASE a = s
    BY <1>2, <2>1 DEF KeptAt, IInv, RestOK
  <2>2. CASE a # s
    BY <1>1, <1>2, <1>5, <1>7, <2>2 DEF KeptAt, IInv, RestOK
  <2>. QED BY <2>1, <2>2
<1>. QED BY <1>1, <1>3, <1>6, <1>7, KeptStep

LEMMA BootDialStep ==
  ASSUME IInv, NEW s \in Servers, NEW p \in Servers \ {s}, BootDial(s, p)
  PROVE  IInv'
<1>1. RestOK'
  BY DEF BootDial, IInv, RestOK
<1>2. UNCHANGED <<link, known>>
  BY DEF BootDial
<1>3. CASE CanReach(s, p)
  <2>1. Dial(s, p) /\ UNCHANGED <<retry, task>>
    BY <1>3 DEF BootDial
  <2>. QED BY <1>1, <1>2, <2>1, DialOK, TaskSame, KeptSame DEF IInv
<1>4. CASE ~CanReach(s, p)
  <2>1. MaybeRetry(s, p) /\ UNCHANGED <<ends, phase, inbox>>
    BY <1>4 DEF BootDial
  <2>. QED BY <1>1, <1>2, <2>1, ConnSame, MaybeRetryOK, KeptSame DEF IInv
<1>. QED BY <1>3, <1>4

\* remove_link: the peer that leaves the table is retried.
LEMMA RemoveLinkStep ==
  ASSUME IInv, NEW c \in Conns, NEW s \in Servers, phase[c][s] # "closed",
         NEW named \in BOOLEAN, phase[c][s] = "up" => named, RemoveLink(c, s, named),
         faults' \in Nat
  PROVE  IInv'
<1>1. PICK p \in Servers \ {s} : p = Peer(c, s)
  BY PeerOfOpen DEF IInv
<1>2. ConnInv' /\ \A a, b \in Servers : ~(a = s /\ b = p) => link'[a][b] = link[a][b]
  BY <1>1, RemoveLinkConnOK DEF IInv
<1>3. RestOK' /\ known' = known
  BY DEF RemoveLink, IInv, RestOK
<1>4. CASE named
  <2>1. MaybeRetry(s, p)
    BY <1>1, <1>4 DEF RemoveLink
  <2>2. /\ TaskInv'
        /\ \A t \in Tasks : \A a, b \in Servers : Trying(t, a, b) => Trying(t, a, b)'
        /\ p \in Config[s] => \E t \in Tasks : Trying(t, s, p)'
    BY <2>1, MaybeRetryOK DEF IInv
  <2>3. ASSUME NEW a \in Servers, NEW b \in Servers, KeptAt(a, b) PROVE KeptAt(a, b)'
    <3>1. CASE a = s /\ b = p
      BY <2>2, <3>1 DEF KeptAt
    <3>2. CASE ~(a = s /\ b = p)
      BY <1>2, <1>3, <2>2, <2>3, <3>2 DEF KeptAt
    <3>. QED BY <3>1, <3>2
  <2>. QED BY <1>2, <1>3, <2>2, <2>3, KeptStep
<1>5. CASE ~named
  <2>1. UNCHANGED <<retry, task>> /\ UNCHANGED <<link, known>>
    BY <1>5 DEF RemoveLink
  <2>. QED BY <1>2, <1>3, <2>1, TaskSame, KeptSame DEF IInv
<1>. QED BY <1>4, <1>5

LEMMA AcceptStep ==
  ASSUME IInv, NEW c \in Conns, NEW s \in Servers, Accept(c, s)
  PROVE  IInv'
<1>1. PICK p \in Servers \ {s} : p = Peer(c, s)
  BY PeerOfOpen DEF Accept, IInv
<1>2. /\ ConnInv' /\ link'[s][p] = c
      /\ \A a, b \in Servers : ~(a = s /\ b = p) => link'[a][b] = link[a][b]
  BY <1>1, AcceptConnOK DEF IInv
<1>3. CancelRetry(s, p) /\ known' = [known EXCEPT ![s] = @ \cup {p}]
  BY <1>1 DEF Accept
<1>4. RestOK'
  BY <1>3 DEF Accept, IInv, RestOK
<1>5. /\ TaskInv'
      /\ \A t \in Tasks : \A a, b \in Servers :
           ~(a = s /\ b = p) /\ Trying(t, a, b) => Trying(t, a, b)'
  BY <1>3, CancelRetryOK DEF IInv
<1>6. ASSUME NEW a \in Servers, NEW b \in Servers, KeptAt(a, b) PROVE KeptAt(a, b)'
  <2>1. CASE a = s /\ b = p
    BY <1>2, <2>1, SlotNotNone DEF KeptAt
  <2>2. CASE ~(a = s /\ b = p)
    <3>1. b \in known'[a] => b \in known[a]
      BY <1>3, <2>2 DEF IInv, RestOK
    <3>. QED BY <1>2, <1>5, <1>6, <2>2, <3>1 DEF KeptAt
  <2>. QED BY <2>1, <2>2
<1>. QED BY <1>2, <1>4, <1>5, <1>6, KeptStep

\* A loop that ends has a linked peer, or had been told to stop.
LEMMA FinishStep ==
  ASSUME IInv, NEW t \in Tasks, task[t].at # "free", FinishTask(t),
         \/ task[t].at = "cancelled"
         \/ link[task[t].of[1]][task[t].of[2]] # None,
         UNCHANGED <<running, booted, ends, phase, inbox, link, known, faults>>
  PROVE  IInv'
<1>1. ConnInv' /\ RestOK'
  BY ConnSame DEF IInv, RestOK
<1>2. /\ TaskInv'
      /\ \A u \in Tasks \ {t} : \A a, b \in Servers : Trying(u, a, b) => Trying(u, a, b)'
  BY FinishTaskOK DEF IInv
<1>3. ASSUME NEW a \in Servers, NEW b \in Servers, KeptAt(a, b) PROVE KeptAt(a, b)'
  <2>1. Trying(t, a, b) => link[a][b] # None
    BY DEF Trying
  <2>. QED BY <1>2, <1>3, <2>1 DEF KeptAt
<1>. QED BY <1>1, <1>2, <1>3, KeptStep

\* A loop that goes on tries the same peer.
LEMMA LoopOK ==
  ASSUME TaskInv, NEW t \in Tasks, NEW at \in {"sleeping", "polling"},
         NEW conn \in Conns \cup {None}, task[t].at \in {"sleeping", "polling"},
         task' = [task EXCEPT ![t].at = at, ![t].conn = conn], UNCHANGED retry
  PROVE  /\ TaskInv'
         /\ \A u \in Tasks : \A a, b \in Servers : Trying(u, a, b) => Trying(u, a, b)'
<1>1. task' \in [Tasks -> [of : ServerNames \X ServerNames,
                           at : {"free", "sleeping", "polling", "cancelled"},
                           conn : Conns \cup {None}]]
  BY ZenonT(60) DEF TaskInv
<1>2. /\ task'[t].of = task[t].of /\ task'[t].at = at
      /\ \A u \in Tasks : u # t => task'[u] = task[u]
  BY DEF TaskInv
<1>3. \A u \in Tasks : TaskAt(u)'
  BY <1>2 DEF TaskInv, TaskAt
<1>4. \A u \in Tasks : \A a, b \in Servers : Trying(u, a, b) => Trying(u, a, b)'
  BY <1>2 DEF Trying
<1>5. ASSUME NEW a \in Servers, NEW b \in Servers PROVE RecordAt(a, b)'
  <2>1. retry'[a][b] = retry[a][b] /\ retry[a][b] \in Tasks \cup {None} /\ RecordAt(a, b)
    BY DEF TaskInv
  <2>. QED BY <1>4, <2>1, ZenonT(60) DEF RecordAt, Trying
<1>. QED BY <1>1, <1>3, <1>4, <1>5 DEF TaskInv

LEMMA WakeDialStep ==
  ASSUME IInv, NEW t \in Tasks, WakeDial(t)
  PROVE  IInv'
<1>1. PICK s \in Servers : \E p \in Servers \ {s} : task[t].of = <<s, p>>
  BY DEF WakeDial, IInv, TaskInv, TaskAt
<1>2. PICK p \in Servers \ {s} : task[t].of = <<s, p>>
  BY <1>1
<1>3. Dial(s, p) /\ UNCHANGED <<link, known>> /\ RestOK'
  BY <1>2 DEF WakeDial, IInv, RestOK
<1>4. ConnInv'
  BY <1>3, DialOK DEF IInv
<1>5. Least(FreeConns) \in Conns
  BY <1>3, FreeConn DEF Dial
<1>6. /\ TaskInv'
      /\ \A u \in Tasks : \A a, b \in Servers : Trying(u, a, b) => Trying(u, a, b)'
  BY <1>5, LoopOK DEF WakeDial, IInv
<1>. QED BY <1>3, <1>4, <1>6, KeptSame

LEMMA PollTimeoutStep ==
  ASSUME IInv, NEW t \in Tasks, PollTimeout(t)
  PROVE  IInv'
<1>1. RestOK' /\ UNCHANGED <<link, known>>
  BY DEF PollTimeout, IInv, RestOK
<1>2. ConnInv'
  <2>1. UNCHANGED <<phase, inbox, link>>
    BY DEF PollTimeout
  <2>2. ends' = [ends EXCEPT ![task[t].conn].shut =
                   phase[task[t].conn][task[t].of[1]] # "closed"]
    BY DEF PollTimeout
  <2>. QED BY <2>1, <2>2, ShutOK DEF IInv
<1>3. /\ TaskInv'
      /\ \A u \in Tasks : \A a, b \in Servers : Trying(u, a, b) => Trying(u, a, b)'
  BY LoopOK DEF PollTimeout, IInv
<1>. QED BY <1>1, <1>2, <1>3, KeptSame

LEMMA HandleStep ==
  ASSUME IInv, NEW c \in Conns, NEW s \in Servers, Handle(c, s) \/ Drop(c, s)
  PROVE  IInv'
<1>1. CASE Accept(c, s)
  BY <1>1, AcceptStep
<1>2. CASE Reject(c, s)
  BY <1>2, RemoveLinkStep DEF Reject, IInv, RestOK
<1>3. CASE ReadEof(c, s)
  BY <1>3, RemoveLinkStep DEF ReadEof, IInv, RestOK
<1>4. CASE Drop(c, s)
  <2>1. faults' \in Nat
    BY <1>4 DEF Drop, IInv, RestOK
  <2>2. phase[c][s] # "closed" /\ RemoveLink(c, s, phase[c][s] = "up")
    BY <1>4 DEF Drop
  <2>. QED BY <2>1, <2>2, RemoveLinkStep
<1>. QED BY <1>1, <1>2, <1>3, <1>4 DEF Handle

LEMMA RetryStep ==
  ASSUME IInv, NEW t \in Tasks, Retry(t)
  PROVE  IInv'
<1>1. CASE WakeLinked(t)
  BY <1>1, FinishStep DEF WakeLinked
<1>2. CASE WakeDial(t)
  BY <1>2, WakeDialStep
<1>3. CASE PollLinked(t)
  BY <1>3, FinishStep DEF PollLinked
<1>4. CASE PollTimeout(t)
  BY <1>4, PollTimeoutStep
<1>5. CASE Cancelled(t)
  BY <1>5, FinishStep DEF Cancelled
<1>. QED BY <1>1, <1>2, <1>3, <1>4, <1>5 DEF Retry

LEMMA InitIInv == Init => IInv
<1>. SUFFICES ASSUME Init PROVE IInv
  OBVIOUS
<1>1. ConnInv
  <2>1. NoEnds \in [from : ServerNames, to : ServerNames, shut : BOOLEAN]
    BY DEF NoEnds, ServerNames
  <2>2. ends \in [Conns -> [from : ServerNames, to : ServerNames, shut : BOOLEAN]]
    BY <2>1 DEF Init
  <2>. QED BY <2>2 DEF Init, ConnInv, EndAt, EntryAt, Phases
<1>2. TaskInv
  <2>1. NoTask \in [of : ServerNames \X ServerNames,
                    at : {"free", "sleeping", "polling", "cancelled"},
                    conn : Conns \cup {None}]
    BY DEF NoTask, NoPair, ServerNames
  <2>2. task \in [Tasks -> [of : ServerNames \X ServerNames,
                            at : {"free", "sleeping", "polling", "cancelled"},
                            conn : Conns \cup {None}]]
    BY <2>1 DEF Init
  <2>. QED BY <2>2 DEF Init, TaskInv, TaskAt, RecordAt, NoTask
<1>3. RestOK /\ NeverGivenUp
  BY DEF Init, RestOK, NeverGivenUp
<1>. QED BY <1>1, <1>2, <1>3 DEF IInv

LEMMA NextIInv == IInv /\ [Next]_vars => IInv'
<1>. SUFFICES ASSUME IInv, [Next]_vars PROVE IInv'
  OBVIOUS
<1>1. CASE UNCHANGED vars
  <2>1. ConnInv' /\ RestOK'
    BY <1>1, ConnSame DEF vars, IInv, RestOK
  <2>. QED BY <1>1, <2>1, TaskSame, KeptSame DEF vars, IInv
<1>2. CASE Next
  BY <1>2, StartStep, CrashStep, BootDialStep, HandleStep, RetryStep DEF Next
<1>. QED BY <1>1, <1>2

LEMMA Invariance == Spec => []IInv
BY InitIInv, NextIInv, PTL DEF Spec

\* Every table keeps its type: IRCd.links, IRCd._link_retry_state, the ends of
\* the connections and the loops of _retry_link_loop.
THEOREM TypeCorrect == Spec => []TypeOK
BY Invariance, IInvGives, PTL

\* IRCd.links never holds a session that is over, nor one with another peer
\* behind it, though RemoveLink drops the entry by name, whichever connection
\* it is for.
THEOREM Registered == Spec => []RegisteredIsUp
BY Invariance, IInvGives, PTL

\* A configured peer that was linked is linked or has a loop that tries it,
\* though _retry_link_loop forgets the record of its peer when it ends, even a
\* record that a newer loop has made.
THEOREM KeepsTrying == Spec => []NeverGivenUp
BY Invariance, IInvGives, PTL

=============================================================================
