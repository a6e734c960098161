---------------------------- MODULE ThreadsProofs ----------------------------
(***************************************************************************)
(* Proofs about Threads, and so about Channels: for any clients, channel   *)
(* names and archive names, and for any bounds.                            *)
(***************************************************************************)
EXTENDS Threads, SequenceTheorems, WellFoundedInduction, TLAPS

Points  == {"none", "notify", "surface", "invite", "save", "notice", "part", "joins", "replay"}
Cmds    == Commands \cup {None}
AnyName == Names \cup {NoName}
Sizes   == {Cardinality(S) : S \in SUBSET Clients} \cup {0}
Posts   == SUBSET (1..MaxPosts)
Lists   == Seq(Messages)

Tasks   == [cmd : Cmds, at : Points, name : AnyName, obj : 0..MaxObjs, who : Clients \cup {None},
            to : AnyName, todo : SUBSET Clients, size : Sizes, pos : Nat, snap : Lists,
            shown : Posts, late : Posts]
Files   == [name : AnyName, owner : Clients \cup {None}, persistent : BOOLEAN, archived : BOOLEAN]
ThreadType == [creator : Clients \cup {None}, messages : Lists, archived : BOOLEAN, promoted : BOOLEAN]

-----------------------------------------------------------------------------
(* The inductive invariant. *)

\* A channel is led: its operators are members, and there is one if there is a member.
Fit(ch) == ch.ops \subseteq ch.members /\ (ch.members # {} => ch.ops # {})

\* The channel called own may be found under the name n.
AtHome(n, own) == IF n[2] = 0 THEN own = n ELSE own \in {n[1]} \X (1..MaxGen)

Tables ==
  /\ created \in Objs /\ rooms \in Nat /\ rooms < created /\ up \subseteq Clients
  /\ chan \in [Objs -> ChannelType]
  /\ joined \in [Clients -> SUBSET Objs]
  /\ disk \in [Rooms -> Files]
  /\ \A o \in Objs : Fit(chan[o])
Entries ==
  /\ table \in [Names -> 0..MaxObjs]
  /\ \A n \in Names : /\ table[n] <= created
                      /\ table[n] # 0 => AtHome(n, chan[table[n]].name)

\* Where the handler m is, and what it refers to: to one of the channels 1 to last.
RoomCmds == {"ROOMCREATE", "ROOMMETA", "ROOMARCHIVE"}
Shaped(m, last) ==
  /\ m.cmd \in {"JOIN", "PART", "QUIT"} => m.at \in {"notify", "surface"}
  /\ m.cmd = "ROOMCREATE" => m.at \in {"invite", "save"}
  /\ m.cmd = "ROOMMETA" => m.at = "save"
  /\ m.cmd = "ROOMKICK" => m.at = "notify"
  /\ m.cmd = "ROOMARCHIVE" => m.at \in {"notice", "part", "save"}
  /\ m.cmd = "THREAD" => m.at = "save"
  /\ m.cmd = "PROMOTE" => m.at \in {"joins", "replay", "save"}
  /\ m.cmd \notin {"JOIN", "PART", "QUIT", "ROOMCREATE", "ROOMMETA", "ROOMKICK", "ROOMARCHIVE",
                   "THREAD", "PROMOTE"} => m = Idle
  /\ m.cmd \in {"JOIN", "PART", "ROOMKICK"} \cup RoomCmds => m.obj \in 1..last
  /\ m.cmd \in {"PART", "ROOMKICK", "ROOMARCHIVE", "THREAD", "PROMOTE"} => m.name \in Names
  /\ m.cmd = "ROOMKICK" => m.who \in Clients

\* A room that a command is at work on has an id; one that is archived under a name came
\* from that name.
Rooming(m, ch) ==
  /\ m.cmd \in RoomCmds => ch[m.obj].room # 0
  /\ m.cmd = "ROOMARCHIVE" => /\ m.name[2] = 0 /\ ch[m.obj].name[1] = m.name[1]
                              /\ m.to \in {m.name[1]} \X (1..MaxGen)

Handling == h \in [Clients -> Tasks] /\ \A c \in Clients : Shaped(h[c], created) /\ Rooming(h[c], chan)

\* The handler m has yet to save the room it is at work on.
Dirty(m)   == m.cmd \in RoomCmds /\ m.at \in {"invite", "save"}
InHand(o)  == \E c \in Clients : Dirty(h[c]) /\ h[c].obj = o
Filed(o)   == disk[chan[o].room].name = chan[o].name /\ disk[chan[o].room].owner = chan[o].owner

Numbered ==
  /\ \A o \in Objs : chan[o].room <= rooms
  /\ \A o, q \in Objs : chan[o].room = chan[q].room /\ chan[o].room # 0 => o = q
  /\ \A r \in Rooms : disk[r] # NoFile => r <= rooms
  /\ \A o \in Objs : o > created => chan[o].room = 0
Kept == \A o \in Objs : chan[o].room # 0 => InHand(o) \/ Filed(o)

\* The handler m is about to drop all members of a room, one by one.
Parts(m) == m.cmd = "ROOMARCHIVE" /\ m.at = "part"

\* The first messages of the list l have been shown by m.
Shows(m, l) == m.pos <= Len(l) /\ \A i \in DOMAIN l : i <= m.pos => l[i].id \in m.shown

\* A promotion has shown the list it walks through as far as it has got, and what is not in
\* that list came late.
Showing(m, th) ==
  m.cmd = "PROMOTE" /\ m.at \in {"joins", "replay"} =>
    /\ th[m.name] # NoThread
    /\ m.at = "joins" => m.pos = 0 /\ m.snap = <<>>
    /\ m.snap = <<>> => Shows(m, th[m.name].messages)
    /\ m.snap # <<>> => /\ Shows(m, m.snap)
                        /\ Ids(th[m.name].messages) \subseteq Ids(m.snap) \cup m.late

Talking ==
  /\ thread \in [Names -> ThreadType] /\ saved \in [Names -> ThreadType]
  /\ posts \in 0..MaxPosts /\ crashes \in Nat
  /\ \A n \in Names : Len(thread[n].messages) <= MaxMessages /\ Len(saved[n].messages) <= MaxMessages
  /\ \A n \in Names : ThreadBusy(n) \/ saved[n] = thread[n]
  /\ \A c \in Clients : Showing(h[c], thread)

IInv == Tables /\ Entries /\ Handling /\ Numbered /\ Kept /\ MembersKnow /\ Talking

-----------------------------------------------------------------------------
(* The operations on one channel. *)

LEMMA NamesShape ==
  /\ \A n \in Names : n[1] \in Bases /\ n[2] \in 0..MaxGen /\ n = <<n[1], n[2]>>
  /\ \A n \in Names : \A k \in 1..MaxGen : <<n[1], k>> \in Names
  /\ \A b \in Bases : <<b, 0>> \in Names
  /\ MaxGen \in Nat /\ MaxObjs \in Nat \ {0} /\ MaxCrashes \in Nat
  /\ MaxMessages \in Nat \ {0} /\ MaxPosts \in Nat
BY BoundsAssumption, PostsAssumption DEF Names

\* ch has the file of its room, and its base name, in common with dh.
SameFile(ch, dh) == ch.name = dh.name /\ ch.room = dh.room /\ ch.owner = dh.owner

LEMMA WithMemberOK ==
  ASSUME NEW ch \in ChannelType, Fit(ch), NEW c \in Clients
  PROVE  /\ WithMember(ch, c) \in ChannelType /\ Fit(WithMember(ch, c))
         /\ SameFile(ch, WithMember(ch, c))
         /\ WithMember(ch, c).members = ch.members \cup {c}
<1>. DEFINE ops == IF ch.members = {} THEN ch.ops \cup {c} ELSE ch.ops
<1>1. WithMember(ch, c) = [ch EXCEPT !.members = ch.members \cup {c}, !.ops = ops]
  BY DEF WithMember, ChannelType
<1>2. ch.members \in SUBSET Clients /\ ch.ops \in SUBSET Clients
  BY DEF ChannelType
<1>3. ops \in SUBSET Clients /\ ops \subseteq ch.members \cup {c} /\ ops # {}
  BY <1>2 DEF Fit
<1>. DEFINE more == ch.members \cup {c}
<1>4. more \in SUBSET Clients
  BY <1>2
<1>. HIDE DEF ops, more
<1>5. WithMember(ch, c) \in ChannelType /\ SameFile(ch, WithMember(ch, c))
      /\ WithMember(ch, c).members = more /\ WithMember(ch, c).ops = ops
  BY <1>1, <1>2, <1>3, <1>4 DEF SameFile, ChannelType, more
<1>6. Fit(WithMember(ch, c))
  BY <1>3, <1>5 DEF Fit, more
<1>. QED BY <1>5, <1>6 DEF more

LEMMA WithoutMemberOK ==
  ASSUME NEW ch \in ChannelType, Fit(ch), NEW c \in Clients
  PROVE  /\ WithoutMember(ch, c) \in ChannelType /\ Fit(WithoutMember(ch, c))
         /\ SameFile(ch, WithoutMember(ch, c))
         /\ WithoutMember(ch, c).members = ch.members \ {c}
<1>. DEFINE left == ch.members \ {c}
            led  == ch.ops \ {c}
            ops  == IF c \in ch.ops /\ led = {} /\ left # {} THEN {CHOOSE m \in left : TRUE} ELSE led
<1>1. WithoutMember(ch, c) = [ch EXCEPT !.members = left, !.ops = ops]
  BY DEF WithoutMember
<1>2. left \in SUBSET Clients /\ led \in SUBSET Clients /\ led \subseteq left
      /\ (c \notin ch.ops /\ left # {} => led # {})
  BY DEF ChannelType, Fit
<1>3. left # {} => (CHOOSE m \in left : TRUE) \in left
  OBVIOUS
<1>4. ops \in SUBSET Clients /\ ops \subseteq left /\ (left # {} => ops # {})
  <2>. HIDE DEF left, led
  <2>. QED BY <1>2, <1>3
<1>. HIDE DEF left, ops
<1>5. WithoutMember(ch, c) \in ChannelType /\ Fit(WithoutMember(ch, c))
      /\ SameFile(ch, WithoutMember(ch, c)) /\ WithoutMember(ch, c).members = left
  BY <1>1, <1>2, <1>4 DEF Fit, SameFile, ChannelType
<1>. QED BY <1>5 DEF left

LEMMA BlankOK ==
  ASSUME NEW n \in AnyName
  PROVE  Blank(n) \in ChannelType /\ Fit(Blank(n)) /\ Blank(n).members = {} /\ Blank(n).room = 0
         /\ Blank(n).name = n
BY NamesShape DEF Blank, Fit, ChannelType, AnyName

LEMMA IdleOK == /\ Idle \in Tasks /\ Idle.cmd = None /\ Idle.at = None /\ Idle.obj = 0
                /\ Idle.snap = <<>> /\ Idle.pos = 0
<1>1. <<>> \in Lists
  BY DEF Lists
<1>. HIDE DEF Lists
<1>2. Idle.cmd \in Cmds /\ Idle.at \in Points /\ Idle.name \in AnyName /\ Idle.obj \in 0..MaxObjs
      /\ Idle.to \in AnyName /\ Idle.size \in Sizes /\ Idle.who \in Clients \cup {None}
      /\ Idle.shown \in Posts /\ Idle.late \in Posts /\ Idle.todo \in SUBSET Clients
  BY NamesShape DEF Idle, Cmds, Points, AnyName, None, Sizes, Posts
<1>. QED BY <1>1, <1>2 DEF Idle, Tasks

LEMMA IdleShaped ==
  /\ \A last : Shaped(Idle, last)
  /\ \A ch : Rooming(Idle, ch)
  /\ \A th : Showing(Idle, th)
  /\ ~Dirty(Idle) /\ ~Parts(Idle)
BY IdleOK DEF Shaped, Rooming, Dirty, Parts, Showing, RoomCmds, None

LEMMA HandlerOK ==
  ASSUME NEW cmd \in Cmds, NEW at \in Points, NEW n \in AnyName, NEW o \in 0..MaxObjs
  PROVE  LET m == Handler(cmd, at, n, o)
         IN  m \in Tasks /\ m.cmd = cmd /\ m.at = at /\ m.name = n /\ m.obj = o
             /\ m.snap = <<>> /\ m.pos = 0
<1>1. Handler(cmd, at, n, o) = [Idle EXCEPT !.cmd = cmd, !.at = at, !.name = n, !.obj = o]
  BY DEF Handler
<1>2. Idle \in Tasks /\ Idle.snap = <<>> /\ Idle.pos = 0
  BY IdleOK
<1>. HIDE DEF Lists
<1>. QED BY <1>1, <1>2 DEF Tasks

-----------------------------------------------------------------------------
(* What most steps have in common. *)

\* The handler c goes on as m.
Goes(c, m) == h' = [h EXCEPT ![c] = m]

\* The channels keep their rooms, and their names unless m is to save the new one.
ChansStay(m) ==
  \A o \in Objs :
    \/ o > created /\ chan'[o].room = 0
    \/ /\ chan'[o].room = chan[o].room /\ chan'[o].name[1] = chan[o].name[1]
       /\ SameFile(chan[o], chan'[o]) \/ (Dirty(m) /\ m.obj = o)

\* The step of the property Closes.
CloseStep ==
  /\ \A n \in Names :
       thread[n].archived => thread'[n].messages = thread[n].messages \/ crashes' # crashes
  /\ \A c \in Clients :
       h[c].at = "replay" /\ h'[c].at = "save" =>
         Ids(thread[h[c].name].messages) \subseteq h[c].shown \cup h[c].late

TalkCmds == {"THREAD", "PROMOTE"}

LEMMA Others ==
  ASSUME Handling, NEW c \in Clients, NEW m, Goes(c, m)
  PROVE  h'[c] = m /\ \A d \in Clients : d # c => h'[d] = h[d]
BY DEF Handling, Goes

LEMMA HandlingMoves ==
  ASSUME Tables, Handling, NEW c \in Clients, NEW m \in Tasks, Goes(c, m),
         created' \in Nat, created' >= created, ChansStay(m),
         Shaped(m, created'), Rooming(m, chan')
  PROVE  Handling'
<1>1. h' \in [Clients -> Tasks]
  BY DEF Handling, Goes
<1>2. ASSUME NEW d \in Clients, d # c
      PROVE  Shaped(h[d], created') /\ Rooming(h[d], chan')
  <2>1. Shaped(h[d], created) /\ Rooming(h[d], chan) /\ created \in Objs
    BY DEF Handling, Tables
  <2>2. Shaped(h[d], created')
    <3>1. 1..created \subseteq 1..created'
      BY <2>1 DEF Objs
    <3>. QED BY <2>1, <3>1 DEF Shaped
  <2>3. h[d].cmd \in RoomCmds => /\ h[d].obj \in Objs /\ ~(h[d].obj > created)
    BY <2>1, NamesShape DEF Shaped, Objs, RoomCmds
  <2>4. h[d].cmd \in RoomCmds => /\ chan'[h[d].obj].room = chan[h[d].obj].room
                                 /\ chan'[h[d].obj].name[1] = chan[h[d].obj].name[1]
    BY <2>3 DEF ChansStay
  <2>5. Rooming(h[d], chan')
    BY <2>1, <2>4 DEF Rooming, RoomCmds
  <2>. QED BY <2>2, <2>5
<1>3. \A d \in Clients : Shaped(h'[d], created') /\ Rooming(h'[d], chan')
  BY <1>2, Others
<1>. QED BY <1>1, <1>3 DEF Handling

LEMMA RoomsMove ==
  ASSUME Tables, Handling, Numbered, Kept, NEW c \in Clients, NEW m \in Tasks, Goes(c, m),
         UNCHANGED <<disk, rooms>>, created' \in Nat, created' >= created, ChansStay(m),
         Dirty(h[c]) => Dirty(m) /\ m.obj = h[c].obj
  PROVE  Numbered' /\ Kept'
<1>1. created \in Nat /\ rooms \in Nat /\ chan \in [Objs -> ChannelType]
  BY NamesShape DEF Tables, Objs
<1>2. \A o \in Objs : chan'[o].room # 0 => chan'[o].room = chan[o].room /\ ~(o > created)
  BY DEF ChansStay, Numbered
<1>3. Numbered'
  <2>1. \A o \in Objs : chan'[o].room <= rooms
    BY <1>1, <1>2 DEF Numbered
  <2>2. \A o, q \in Objs : chan'[o].room = chan'[q].room /\ chan'[o].room # 0 => o = q
    BY <1>2 DEF Numbered
  <2>3. \A o \in Objs : o > created' => chan'[o].room = 0
    <3>. SUFFICES ASSUME NEW o \in Objs, o > created', chan'[o].room # 0 PROVE FALSE
      OBVIOUS
    <3>1. o > created
      BY <1>1, NamesShape DEF Objs
    <3>. QED BY <1>2, <3>1
  <2>. QED BY <2>1, <2>2, <2>3 DEF Numbered
<1>4. ASSUME NEW o \in Objs, chan'[o].room # 0 PROVE (InHand(o) \/ Filed(o))'
  <2>1. \/ Dirty(m) /\ m.obj = o
        \/ SameFile(chan[o], chan'[o])
    BY <1>2, <1>4 DEF ChansStay
  <2>2. CASE Dirty(m) /\ m.obj = o
    BY <2>2, Others DEF InHand
  <2>3. CASE SameFile(chan[o], chan'[o])
    <3>1. InHand(o) \/ Filed(o)
      BY <1>2, <1>4 DEF Kept
    <3>2. InHand(o) => InHand(o)'
      BY Others DEF InHand
    <3>3. Filed(o) => Filed(o)'
      BY <2>3 DEF Filed, SameFile
    <3>. QED BY <3>1, <3>2, <3>3
  <2>. QED BY <2>1, <2>2, <2>3
<1>. QED BY <1>3, <1>4 DEF Kept

LEMMA TalkStays ==
  ASSUME Handling, Talking, NEW c \in Clients, NEW m \in Tasks, Goes(c, m),
         UNCHANGED <<thread, saved, posts, crashes>>, h[c].cmd \notin TalkCmds, m.cmd \notin TalkCmds
  PROVE  Talking' /\ CloseStep
<1>1. \A d \in Clients : h'[d] = h[d] \/ (d = c /\ h'[d] = m)
  BY Others
<1>2. \A n \in Names : ThreadBusy(n) => ThreadBusy(n)'
  BY <1>1 DEF ThreadBusy, TalkCmds
<1>3. \A d \in Clients : Showing(h'[d], thread')
  <2>1. Showing(m, thread)
    BY DEF Showing, TalkCmds
  <2>. QED BY <1>1, <2>1 DEF Talking
<1>4. Talking'
  BY <1>2, <1>3 DEF Talking
<1>5. CloseStep
  <2>1. ASSUME NEW d \in Clients, h[d].at = "replay", h'[d].at = "save" PROVE FALSE
    <3>1. d = c
      BY <1>1, <2>1
    <3>2. Shaped(h[c], created) /\ h[c].at = "replay"
      BY <2>1, <3>1 DEF Handling
    <3>. QED BY <3>2, IdleOK DEF Shaped, TalkCmds, None
  <2>. QED BY <2>1 DEF CloseStep
<1>. QED BY <1>4, <1>5

\* A step of a command on channels that saves nothing.
LEMMA TaskMoves ==
  ASSUME IInv, NEW c \in Clients, NEW m \in Tasks, Goes(c, m),
         UNCHANGED <<disk, rooms, crashes, thread, saved, posts>>,
         created' \in Nat, created' >= created, ChansStay(m),
         h[c].cmd \notin TalkCmds, m.cmd \notin TalkCmds, Shaped(m, created'), Rooming(m, chan'),
         Dirty(h[c]) => Dirty(m) /\ m.obj = h[c].obj
  PROVE  Handling' /\ Numbered' /\ Kept' /\ Talking' /\ CloseStep
BY HandlingMoves, RoomsMove, TalkStays DEF IInv

\* Nobody is in a channel without knowing it who was not before.
LEMMA KnowStays ==
  ASSUME MembersKnow,
         \A d \in Clients : Parts(h[d]) => Parts(h'[d]) /\ h'[d].obj = h[d].obj,
         \A d \in up', o \in Objs : d \in chan'[o].members /\ o \notin joined'[d] =>
            d \in up /\ d \in chan[o].members /\ o \notin joined[d]
  PROVE  MembersKnow'
<1>1. \A o \in Objs : Archiving(o) => Archiving(o)'
  BY DEF Archiving, Parts
<1>. QED BY <1>1 DEF MembersKnow

\* Names are only taken out of the table.
LEMMA EntriesStay ==
  ASSUME Tables, Entries, table' \in [Names -> 0..MaxObjs],
         \A n \in Names : table'[n] = table[n] \/ table'[n] = 0,
         created' \in Nat, created' >= created, \A o \in Objs : chan'[o].name = chan[o].name
  PROVE  Entries'
<1>1. created \in Nat /\ \A n \in Names : table[n] \in 0..MaxObjs /\ table[n] <= created
  BY NamesShape DEF Entries, Tables, Objs
<1>2. \A n \in Names : table'[n] <= created'
  BY <1>1, NamesShape
<1>3. \A n \in Names : table'[n] # 0 => AtHome(n, chan'[table'[n]].name)
  <2>1. \A n \in Names : table[n] # 0 => table[n] \in Objs
    BY <1>1, NamesShape DEF Objs
  <2>. QED BY <2>1 DEF Entries
<1>. QED BY <1>2, <1>3 DEF Entries

\* A step of a handler that leaves tables and channels alone.
LEMMA TaskGoes ==
  ASSUME IInv, NEW c \in Clients, NEW m \in Tasks, Goes(c, m),
         UNCHANGED <<up, table, chan, created, joined, disk, rooms, crashes, threadVars>>,
         h[c].cmd \notin TalkCmds, m.cmd \notin TalkCmds, Shaped(m, created), Rooming(m, chan),
         Dirty(h[c]) => Dirty(m) /\ m.obj = h[c].obj,
         Parts(h[c]) => Parts(m) /\ m.obj = h[c].obj
  PROVE  IInv' /\ CloseStep
<1>1. created' \in Nat /\ created' >= created /\ ChansStay(m)
  BY NamesShape DEF IInv, Tables, Objs, ChansStay, SameFile
<1>2. Handling' /\ Numbered' /\ Kept' /\ Talking' /\ CloseStep
  BY <1>1, TaskMoves DEF threadVars
<1>3. MembersKnow'
  BY KnowStays, Others DEF IInv
<1>4. Tables' /\ Entries'
  BY DEF IInv, Tables, Entries
<1>. QED BY <1>2, <1>3, <1>4 DEF IInv

\* One channel changes, but not its name, and stays the same room.
LEMMA OneRoom ==
  ASSUME Tables, NEW o \in Objs, NEW x \in ChannelType, Fit(x),
         x.name = chan[o].name, x.room = chan[o].room,
         chan' = [chan EXCEPT ![o] = x], UNCHANGED <<created, disk, rooms>>,
         up' \subseteq Clients, joined' \in [Clients -> SUBSET Objs]
  PROVE  /\ Tables' /\ created' \in Nat /\ created' >= created
         /\ \A m : SameFile(chan[o], x) \/ (Dirty(m) /\ m.obj = o) => ChansStay(m)
         /\ \A q \in Objs : chan'[q].name = chan[q].name
         /\ \A q \in Objs : chan'[q] = IF q = o THEN x ELSE chan[q]
<1>1. \A q \in Objs : chan'[q] = IF q = o THEN x ELSE chan[q]
  BY DEF Tables
<1>2. chan' \in [Objs -> ChannelType] /\ \A q \in Objs : Fit(chan'[q])
  BY <1>1 DEF Tables
<1>3. Tables'
  BY <1>2 DEF Tables
<1>4. \A q \in Objs : chan'[q].name = chan[q].name /\ chan'[q].room = chan[q].room
  BY <1>1
<1>5. \A m : SameFile(chan[o], x) \/ (Dirty(m) /\ m.obj = o) => ChansStay(m)
  BY <1>1, <1>4 DEF ChansStay, SameFile
<1>. QED BY <1>1, <1>3, <1>4, <1>5, NamesShape DEF Tables, Objs

\* One channel changes who is in it, or leads it.
LEMMA OneChannel ==
  ASSUME Tables, NEW o \in Objs, NEW x \in ChannelType, Fit(x), SameFile(chan[o], x),
         chan' = [chan EXCEPT ![o] = x], UNCHANGED <<created, disk, rooms>>,
         up' \subseteq Clients, joined' \in [Clients -> SUBSET Objs]
  PROVE  /\ Tables' /\ created' \in Nat /\ created' >= created
         /\ \A m : ChansStay(m)
         /\ \A q \in Objs : chan'[q].name = chan[q].name
         /\ \A q \in Objs : chan'[q] = IF q = o THEN x ELSE chan[q]
BY OneRoom DEF SameFile

\* A channel that is found, or created, changes who is in it.
LEMMA FoundChannel ==
  ASSUME Tables, Entries, Numbered, NEW n \in Names, Creates(n),
         NEW x \in ChannelType, Fit(x), x.name = Ensured(n)[Found(n)].name,
         chan' = [Ensured(n) EXCEPT ![Found(n)] = x],
         UNCHANGED disk, rooms' \in Nat, rooms' < created',
         up' \subseteq Clients, joined' \in [Clients -> SUBSET Objs]
  PROVE  /\ Tables' /\ Entries' /\ created' \in Nat /\ created' >= created
         /\ Found(n) \in Objs /\ Found(n) \in 1..created' /\ chan'[Found(n)] = x
         /\ \A q \in Objs \ {Found(n)} : chan'[q] = chan[q]
         /\ SameFile(Ensured(n)[Found(n)], x) => \A m : ChansStay(m)
<1>. DEFINE o == Found(n)
<1>1. /\ created \in Nat /\ created >= 1 /\ created <= MaxObjs /\ MaxObjs \in Nat
      /\ \A k \in Names : table[k] \in 0..created
  BY NamesShape DEF Tables, Entries, Objs
<1>2. /\ o \in Objs /\ o \in 1..created' /\ created' \in Nat /\ created' >= created
      /\ created' <= MaxObjs
      /\ table[n] # 0 => o = table[n] /\ created' = created
      /\ table[n] = 0 => o = created + 1 /\ created' = created + 1
  BY <1>1 DEF Creates, Found, Objs
<1>3. \A q \in Objs : chan'[q] = IF q = o THEN x ELSE chan[q]
  <2>1. Ensured(n) \in [Objs -> ChannelType] /\ \A q \in Objs \ {o} : Ensured(n)[q] = chan[q]
    <3>1. CASE table[n] # 0
      BY <3>1 DEF Ensured, Tables
    <3>2. CASE table[n] = 0
      <4>1. Blank(n) \in ChannelType
        BY BlankOK DEF AnyName
      <4>2. Ensured(n) = [chan EXCEPT ![o] = Blank(n)]
        BY <3>2, <1>2 DEF Ensured
      <4>. HIDE DEF o
      <4>. QED BY <4>1, <4>2, <1>2 DEF Tables
    <3>. QED BY <3>1, <3>2
  <2>. HIDE DEF o
  <2>2. chan' = [Ensured(n) EXCEPT ![o] = x]
    BY DEF o
  <2>. QED BY <2>1, <2>2, <1>2
<1>4. Tables'
  <2>1. chan' \in [Objs -> ChannelType] /\ \A q \in Objs : Fit(chan'[q])
    <3>1. chan' = [q \in Objs |-> chan'[q]]
      <4>1. DOMAIN Ensured(n) = Objs
        BY DEF Ensured, Tables
      <4>. QED BY <4>1
    <3>. QED BY <3>1, <1>3 DEF Tables
  <2>2. created' \in Objs
    BY <1>1, <1>2 DEF Objs
  <2>. QED BY <2>1, <2>2 DEF Tables
<1>5. /\ table[n] # 0 => Ensured(n)[o] = chan[o]
      /\ table[n] = 0 => Ensured(n)[o] = Blank(n)
  BY <1>2 DEF Ensured, Tables
<1>6. Entries'
  <2>1. \A k \in Names : table'[k] = IF k = n THEN o ELSE table[k]
    BY DEF Creates, Entries
  <2>2. table' \in [Names -> 0..MaxObjs]
    <3>1. o \in 0..MaxObjs
      BY <1>2, <1>1 DEF Objs
    <3>2. table' = [table EXCEPT ![n] = o]
      BY DEF Creates
    <3>. HIDE DEF o
    <3>. QED BY <3>1, <3>2 DEF Entries
  <2>3. \A k \in Names : table'[k] <= created'
    <3>. HIDE DEF o
    <3>. QED BY <2>1, <1>1, <1>2
  <2>4. ASSUME NEW k \in Names, table'[k] # 0 PROVE AtHome(k, chan'[table'[k]].name)
    <3>1. CASE table[n] # 0
      <4>1. table'[k] = table[k] /\ table[k] \in Objs
        BY <3>1, <2>1, <2>4, <1>1, <1>2 DEF Objs
      <4>2. chan'[table[k]].name = chan[table[k]].name
        BY <4>1, <1>3, <1>5, <3>1
      <4>. QED BY <4>1, <4>2, <2>4 DEF Entries
    <3>2. CASE table[n] = 0 /\ k = n
      <4>1. chan'[table'[k]].name = n
        BY <3>2, <2>1, <1>2, <1>3, <1>5, BlankOK DEF AnyName
      <4>2. n[2] # 0 => n \in {n[1]} \X (1..MaxGen)
        BY NamesShape
      <4>. QED BY <4>1, <4>2, <3>2 DEF AtHome
    <3>3. CASE table[n] = 0 /\ k # n
      <4>1. table'[k] = table[k] /\ table[k] \in Objs /\ table[k] # o
        BY <3>3, <2>1, <2>4, <1>1, <1>2 DEF Objs
      <4>. QED BY <4>1, <1>3, <2>4 DEF Entries
    <3>. QED BY <3>1, <3>2, <3>3
  <2>. QED BY <2>2, <2>3, <2>4 DEF Entries
<1>7. SameFile(Ensured(n)[o], x) => \A m : ChansStay(m)
  <2>. SUFFICES ASSUME SameFile(Ensured(n)[o], x), NEW m, NEW q \in Objs
                PROVE  \/ q > created /\ chan'[q].room = 0
                       \/ chan'[q].room = chan[q].room /\ SameFile(chan[q], chan'[q])
                          /\ chan'[q].name[1] = chan[q].name[1]
    BY DEF ChansStay
  <2>1. CASE q = o /\ table[n] = 0
    BY <2>1, <1>1, <1>2, <1>3, <1>5, BlankOK DEF SameFile, AnyName
  <2>2. CASE q = o /\ table[n] # 0
    BY <2>2, <1>3, <1>5 DEF SameFile
  <2>3. CASE q # o
    BY <2>3, <1>3 DEF SameFile
  <2>. QED BY <2>1, <2>2, <2>3
<1>8. chan'[o] = x /\ \A q \in Objs \ {o} : chan'[q] = chan[q]
  BY <1>2, <1>3
<1>. QED BY <1>2, <1>4, <1>6, <1>7, <1>8

-----------------------------------------------------------------------------
(* JOIN, PART, QUIT and the end of a connection. *)

LEMMA SomeFacts ==
  ASSUME IInv
  PROVE  /\ created \in Nat /\ created <= MaxObjs /\ created >= 1
         /\ \A n \in Names : table[n] \in 0..created /\ (table[n] # 0 => table[n] \in Objs)
         /\ \A o \in Objs : chan[o] \in ChannelType /\ chan[o].members \in SUBSET Clients
         /\ \A c \in Clients : h[c] \in Tasks /\ Shaped(h[c], created) /\ Rooming(h[c], chan)
                               /\ Showing(h[c], thread) /\ joined[c] \in SUBSET Objs
BY NamesShape DEF IInv, Tables, Entries, Handling, Talking, Objs, ChannelType

LEMMA SurfaceStep ==
  ASSUME IInv, NEW c \in Clients, Surface(c), UNCHANGED threadVars
  PROVE  IInv' /\ CloseStep
<1>. DEFINE count == Cardinality(chan[1].members)
            m == [h[c] EXCEPT !.at = "surface", !.size = count]
<1>1. count \in Sizes
  BY SomeFacts, NamesShape DEF Sizes, Objs
<1>2. h[c] \in Tasks /\ h[c].cmd \in {"JOIN", "PART", "QUIT"} /\ Shaped(h[c], created)
  BY SomeFacts DEF Surface
<1>3. Goes(c, m) /\ UNCHANGED <<up, table, chan, created, joined, disk, rooms, crashes>>
  BY DEF Goes, Surface
<1>. HIDE DEF count
<1>4. m \in Tasks /\ m.cmd = h[c].cmd /\ m.at = "surface" /\ m.obj = h[c].obj /\ m.name = h[c].name
  <2>. HIDE DEF Lists
  <2>. QED BY <1>1, <1>2 DEF Tasks, Points
<1>. HIDE DEF m
<1>5. Shaped(m, created) /\ Rooming(m, chan) /\ m.cmd \notin TalkCmds /\ h[c].cmd \notin TalkCmds
      /\ ~Dirty(h[c]) /\ ~Parts(h[c])
  BY <1>2, <1>4, IdleOK DEF Shaped, Rooming, RoomCmds, TalkCmds, Dirty, Parts, None
<1>. QED BY <1>3, <1>4, <1>5, TaskGoes

\* The handler starts, or ends, without touching anything.
LEMMA EndsQuietly ==
  ASSUME IInv, NEW c \in Clients, Goes(c, Idle), h[c].cmd \notin TalkCmds,
         ~Dirty(h[c]), ~Parts(h[c]),
         UNCHANGED <<up, table, chan, created, joined, disk, rooms, crashes, threadVars>>
  PROVE  IInv' /\ CloseStep
BY TaskGoes, IdleOK, IdleShaped DEF TalkCmds, None

LEMMA JoinEndStep ==
  ASSUME IInv, NEW c \in Clients, JoinEnd(c), UNCHANGED threadVars
  PROVE  IInv' /\ CloseStep
<1>1. Goes(c, Idle) /\ h[c].cmd \notin TalkCmds /\ ~Dirty(h[c]) /\ ~Parts(h[c])
  BY DEF JoinEnd, Goes, TalkCmds, Dirty, Parts, RoomCmds
<1>. QED BY <1>1, EndsQuietly DEF JoinEnd

LEMMA PartStep ==
  ASSUME IInv, NEW c \in Clients, NEW n \in Names, Part(c, n), UNCHANGED threadVars
  PROVE  IInv' /\ CloseStep
<1>. DEFINE m == Handler("PART", "notify", n, table[n])
<1>1. table[n] \in Objs /\ table[n] \in 1..created /\ table[n] \in 0..MaxObjs
  BY SomeFacts, NamesShape DEF Part, Objs
<1>2. m \in Tasks /\ m.cmd = "PART" /\ m.at = "notify" /\ m.name = n /\ m.obj = table[n]
  BY <1>1, HandlerOK DEF Cmds, Commands, Points, AnyName
<1>3. Goes(c, m) /\ h[c] = Idle
  BY DEF Part, Ready, Goes
<1>. HIDE DEF m
<1>4. Shaped(m, created) /\ Rooming(m, chan)
  BY <1>1, <1>2 DEF Shaped, Rooming, RoomCmds
<1>. QED BY <1>2, <1>3, <1>4, TaskGoes, IdleOK, IdleShaped DEF Part, TalkCmds, None

LEMMA QuitStep ==
  ASSUME IInv, NEW c \in Clients, Quit(c), UNCHANGED threadVars
  PROVE  IInv' /\ CloseStep
<1>. DEFINE m == Handler("QUIT", "notify", NoName, 0)
<1>1. m \in Tasks /\ m.cmd = "QUIT" /\ m.at = "notify"
  <2>1. NoName \in AnyName /\ 0 \in 0..MaxObjs /\ "QUIT" \in Cmds /\ "notify" \in Points
    BY NamesShape DEF Cmds, Commands, Points, AnyName
  <2>. QED BY <2>1, HandlerOK
<1>2. Goes(c, m) /\ h[c] = Idle
  BY DEF Quit, Ready, Goes
<1>. HIDE DEF m
<1>3. Shaped(m, created) /\ Rooming(m, chan)
  BY <1>1 DEF Shaped, Rooming, RoomCmds
<1>. QED BY <1>1, <1>2, <1>3, TaskGoes, IdleOK, IdleShaped DEF Quit, TalkCmds, None

LEMMA JoinStep ==
  ASSUME IInv, NEW c \in Clients, NEW n \in Names, Join(c, n), UNCHANGED threadVars
  PROVE  IInv' /\ CloseStep
<1>. DEFINE o == Found(n)
            ch == Ensured(n)[o]
            x == WithMember(ch, c)
            m == Handler("JOIN", "notify", n, o)
<1>1. /\ Creates(n) /\ chan' = [Ensured(n) EXCEPT ![o] = x] /\ h[c] = Idle /\ Goes(c, m)
      /\ joined' = [joined EXCEPT ![c] = joined[c] \cup {o}]
      /\ UNCHANGED <<up, disk, rooms, crashes>>
  <2>. DEFINE y == [Ensured(n) EXCEPT ![o] = WithMember(@, c)]
  <2>1. y = [Ensured(n) EXCEPT ![o] = x]
    OBVIOUS
  <2>2. h' = [h EXCEPT ![c] = m]
    BY DEF Join
  <2>3. joined' = [joined EXCEPT ![c] = joined[c] \cup {o}]
    BY DEF Join
  <2>4. chan' = y
    BY DEF Join
  <2>. HIDE DEF y, x, m, o
  <2>. QED BY <2>1, <2>2, <2>3, <2>4 DEF Join, Ready, Goes
<1>2. o \in Objs /\ created' \in Nat /\ created <= created' /\ rooms < created'
  <2>1. created \in Nat /\ rooms \in Nat /\ rooms < created
    BY SomeFacts DEF IInv, Tables
  <2>2. CASE table[n] # 0
    BY <1>1, <2>1, <2>2, SomeFacts DEF Creates, Found
  <2>3. CASE table[n] = 0
    BY <1>1, <2>1, <2>3, NamesShape DEF Creates, Found, Objs
  <2>. QED BY <2>2, <2>3
<1>3. /\ table[n] # 0 => ch = chan[o]
      /\ table[n] = 0 => ch = Blank(n)
  BY <1>2 DEF Ensured, Found, IInv, Tables
<1>4. ch \in ChannelType /\ Fit(ch)
  BY <1>2, <1>3, BlankOK DEF IInv, Tables, AnyName
<1>5. x \in ChannelType /\ Fit(x) /\ SameFile(ch, x) /\ x.members = ch.members \cup {c}
  BY <1>4, WithMemberOK
<1>6. x.name = ch.name
  BY <1>5 DEF SameFile
<1>7. joined' \in [Clients -> SUBSET Objs] /\ joined'[c] = joined[c] \cup {o}
      /\ \A d \in Clients \ {c} : joined'[d] = joined[d]
  <2>. HIDE DEF o
  <2>. QED BY <1>1, <1>2 DEF IInv, Tables
<1>. HIDE DEF x, ch
<1>8. up' \subseteq Clients /\ rooms' \in Nat /\ rooms' < created'
  BY <1>1, <1>2 DEF IInv, Tables
<1>9. /\ Tables' /\ Entries' /\ created' >= created /\ o \in 1..created' /\ chan'[o] = x
      /\ \A q \in Objs \ {o} : chan'[q] = chan[q]
      /\ \A k : ChansStay(k)
  BY <1>1, <1>2, <1>5, <1>6, <1>7, <1>8, FoundChannel DEF IInv, ch
<1>10. m \in Tasks /\ m.cmd = "JOIN" /\ m.at = "notify" /\ m.name = n /\ m.obj = o
  <2>1. o \in 0..MaxObjs
    BY <1>2, NamesShape DEF Objs
  <2>. HIDE DEF o
  <2>. QED BY <2>1, HandlerOK DEF Cmds, Commands, Points, AnyName
<1>. HIDE DEF m, o
<1>11. Shaped(m, created') /\ Rooming(m, chan')
  BY <1>9, <1>10 DEF Shaped, Rooming, RoomCmds
<1>12. Handling' /\ Numbered' /\ Kept' /\ Talking' /\ CloseStep
  BY <1>1, <1>2, <1>9, <1>10, <1>11, TaskMoves, IdleOK, IdleShaped DEF TalkCmds, None, threadVars
<1>13. MembersKnow'
  <2>1. \A d \in Clients : Parts(h[d]) => Parts(h'[d]) /\ h'[d].obj = h[d].obj
    BY <1>1, Others, IdleShaped DEF IInv
  <2>2. ASSUME NEW d \in up', NEW q \in Objs, d \in chan'[q].members, q \notin joined'[d]
        PROVE  d \in up /\ d \in chan[q].members /\ q \notin joined[d]
    <3>1. d \in up /\ d \in Clients /\ q \notin joined[d] /\ (d = c => q # o)
      BY <1>1, <1>7, <2>2 DEF IInv, Tables
    <3>2. CASE q # o
      BY <3>1, <3>2, <1>9, <2>2
    <3>3. CASE q = o
      <4>1. d \in ch.members
        BY <3>1, <3>3, <2>2, <1>9, <1>5
      <4>2. table[n] # 0
        BY <4>1, <1>3, BlankOK DEF AnyName
      <4>. QED BY <3>1, <3>3, <4>1, <4>2, <1>3
    <3>. QED BY <3>2, <3>3
  <2>. QED BY <2>1, <2>2, KnowStays DEF IInv
<1>. QED BY <1>9, <1>12, <1>13 DEF IInv

\* Client t leaves channel o, by a command of c that ends.
LEMMA LeavesOne ==
  ASSUME IInv, NEW c \in Clients, NEW t \in Clients, NEW o \in Objs, NEW n \in Names,
         chan' = [chan EXCEPT ![o] = WithoutMember(chan[o], t)],
         joined' = [joined EXCEPT ![t] = joined[t] \ {o}],
         table' = table \/ table' = [table EXCEPT ![n] = 0],
         Goes(c, Idle), h[c].cmd \notin TalkCmds, ~Dirty(h[c]), ~Parts(h[c]),
         UNCHANGED <<up, created, disk, rooms, crashes, threadVars>>
  PROVE  IInv' /\ CloseStep
<1>. DEFINE x == WithoutMember(chan[o], t)
<1>1. x \in ChannelType /\ Fit(x) /\ SameFile(chan[o], x) /\ x.members = chan[o].members \ {t}
  BY WithoutMemberOK DEF IInv, Tables
<1>. HIDE DEF x
<1>2. chan' = [chan EXCEPT ![o] = x]
  BY DEF x
<1>3. joined' \in [Clients -> SUBSET Objs] /\ joined'[t] = joined[t] \ {o}
      /\ \A d \in Clients \ {t} : joined'[d] = joined[d]
  BY DEF IInv, Tables
<1>4. /\ Tables' /\ created' \in Nat /\ created' >= created /\ \A m : ChansStay(m)
      /\ \A q \in Objs : chan'[q].name = chan[q].name
  BY <1>1, <1>2, <1>3, OneChannel DEF IInv, Tables
<1>5. table' \in [Names -> 0..MaxObjs] /\ \A k \in Names : table'[k] = table[k] \/ table'[k] = 0
  BY NamesShape DEF IInv, Entries
<1>6. Entries'
  BY <1>4, <1>5, EntriesStay DEF IInv
<1>7. Handling' /\ Numbered' /\ Kept' /\ Talking' /\ CloseStep
  BY <1>4, TaskMoves, IdleOK, IdleShaped DEF TalkCmds, None, threadVars
<1>8. MembersKnow'
  <2>1. \A d \in Clients : Parts(h[d]) => Parts(h'[d]) /\ h'[d].obj = h[d].obj
    BY Others, IdleShaped DEF IInv
  <2>2. ASSUME NEW d \in up', NEW q \in Objs, d \in chan'[q].members, q \notin joined'[d]
        PROVE  d \in up /\ d \in chan[q].members /\ q \notin joined[d]
    <3>1. d \in up /\ d \in Clients
      BY DEF IInv, Tables
    <3>2. chan'[q] = IF q = o THEN x ELSE chan[q]
      BY <1>2 DEF IInv, Tables
    <3>3. d \in chan[q].members /\ (d = t => q # o)
      BY <3>2, <2>2, <1>1
    <3>. QED BY <3>1, <3>3, <1>3, <2>2
  <2>. QED BY <2>1, <2>2, KnowStays DEF IInv
<1>. QED BY <1>4, <1>6, <1>7, <1>8 DEF IInv

\* Client c is gone from the server; ch are the channels at the start of the clean-up.
LEMMA RemovedStep ==
  ASSUME IInv, NEW c \in Clients, NEW ch \in [Objs -> ChannelType], NEW O \in SUBSET Objs,
         \A q \in Objs : Fit(ch[q]) /\ SameFile(chan[q], ch[q]) /\ ch[q].members \subseteq chan[q].members,
         Removed(c, ch, table, O), h[c].cmd \notin TalkCmds, ~Dirty(h[c]), ~Parts(h[c]),
         UNCHANGED <<created, disk, rooms, crashes, threadVars>>
  PROVE  IInv' /\ CloseStep
<1>1. PICK D \in SUBSET Objs : chan' = Detached(c, ch, D)
  <2>1. PICK E \in SUBSET O : \/ chan' = Detached(c, ch, E)
                              \/ \E f \in Emptied(c, ch, O \ E) : chan' = Detached(c, ch, E \cup {f})
    BY DEF Removed
  <2>2. Emptied(c, ch, O \ E) \subseteq O
    BY DEF Emptied
  <2>. QED BY <2>1, <2>2
<1>2. table' \in [Names -> 0..MaxObjs] /\ \A k \in Names : table'[k] = table[k] \/ table'[k] = 0
  <2>1. PICK gone \in SUBSET Objs :
          table' = [n \in Names |-> IF \E o \in gone : ch[o].name = n THEN 0 ELSE table[n]]
    <3>1. PICK E \in SUBSET O :
            table' = [n \in Names |-> IF \E o \in Emptied(c, ch, E) : ch[o].name = n THEN 0 ELSE table[n]]
      BY DEF Removed
    <3>2. Emptied(c, ch, E) \in SUBSET Objs
      BY DEF Emptied
    <3>. QED BY <3>1, <3>2
  <2>. QED BY <2>1, NamesShape DEF IInv, Entries
<1>3. \A q \in Objs : /\ chan'[q] \in ChannelType /\ Fit(chan'[q]) /\ SameFile(chan[q], chan'[q])
                      /\ chan'[q].members \subseteq chan[q].members
  <2>. SUFFICES ASSUME NEW q \in Objs
                PROVE  /\ chan'[q] \in ChannelType /\ Fit(chan'[q]) /\ SameFile(chan[q], chan'[q])
                       /\ chan'[q].members \subseteq chan[q].members
    OBVIOUS
  <2>1. chan'[q] = IF q \in D THEN WithoutMember(ch[q], c) ELSE ch[q]
    BY <1>1 DEF Detached
  <2>2. /\ WithoutMember(ch[q], c) \in ChannelType /\ Fit(WithoutMember(ch[q], c))
        /\ SameFile(ch[q], WithoutMember(ch[q], c))
        /\ WithoutMember(ch[q], c).members = ch[q].members \ {c}
    BY WithoutMemberOK
  <2>. QED BY <2>1, <2>2 DEF SameFile
<1>4. chan' \in [Objs -> ChannelType]
  <2>1. chan' = [q \in Objs |-> chan'[q]]
    BY <1>1 DEF Detached
  <2>. QED BY <2>1, <1>3
<1>5. up' = up \ {c} /\ joined' \in [Clients -> SUBSET Objs] /\ Goes(c, Idle)
      /\ \A d \in Clients \ {c} : joined'[d] = joined[d]
  BY DEF Removed, IInv, Tables, Goes
<1>6. Tables'
  BY <1>3, <1>4, <1>5 DEF IInv, Tables
<1>7. \A m : ChansStay(m)
  BY <1>3 DEF ChansStay, SameFile
<1>8. created' \in Nat /\ created' >= created
  BY SomeFacts
<1>9. Entries'
  BY <1>2, <1>3, <1>8, EntriesStay DEF IInv, SameFile
<1>10. Handling' /\ Numbered' /\ Kept' /\ Talking' /\ CloseStep
  BY <1>5, <1>7, <1>8, TaskMoves, IdleOK, IdleShaped DEF TalkCmds, None, threadVars
<1>11. MembersKnow'
  <2>1. \A d \in Clients : Parts(h[d]) => Parts(h'[d]) /\ h'[d].obj = h[d].obj
    BY <1>5, Others, IdleShaped DEF IInv
  <2>2. ASSUME NEW d \in up', NEW q \in Objs, d \in chan'[q].members, q \notin joined'[d]
        PROVE  d \in up /\ d \in chan[q].members /\ q \notin joined[d]
    BY <1>3, <1>5, <2>2 DEF IInv, Tables
  <2>. QED BY <2>1, <2>2, KnowStays DEF IInv
<1>. QED BY <1>6, <1>9, <1>10, <1>11 DEF IInv

LEMMA PartEndStep ==
  ASSUME IInv, NEW c \in Clients, PartEnd(c), UNCHANGED threadVars
  PROVE  IInv' /\ CloseStep
<1>. DEFINE o == h[c].obj
            n == h[c].name
            x == WithoutMember(chan[o], c)
            ch == [chan EXCEPT ![o] = x]
<1>1. o \in Objs /\ n \in Names /\ h[c].cmd = "PART"
  BY SomeFacts, NamesShape DEF PartEnd, Shaped, Objs
<1>2. h[c].cmd \notin TalkCmds /\ ~Dirty(h[c]) /\ ~Parts(h[c])
  BY <1>1 DEF TalkCmds, Dirty, Parts, RoomCmds
<1>3. ch = [chan EXCEPT ![o] = WithoutMember(@, c)]
  OBVIOUS
<1>4. x \in ChannelType /\ Fit(x) /\ SameFile(chan[o], x) /\ x.members = chan[o].members \ {c}
  BY <1>1, WithoutMemberOK DEF IInv, Tables
<1>. DEFINE gone == ch[o].members = {} /\ ~ch[o].persistent
<1>5. CASE gone /\ table[n] = 0
  <2>1. Removed(c, ch, table, joined[c] \ {o})
    BY <1>3, <1>5 DEF PartEnd
  <2>2. joined[c] \ {o} \in SUBSET Objs
    BY SomeFacts
  <2>. HIDE DEF x
  <2>3. ch \in [Objs -> ChannelType] /\ \A q \in Objs : ch[q] = IF q = o THEN x ELSE chan[q]
    BY <1>1, <1>4 DEF IInv, Tables
  <2>4. \A q \in Objs : /\ Fit(ch[q]) /\ SameFile(chan[q], ch[q])
                        /\ ch[q].members \subseteq chan[q].members
    BY <1>4, <2>3 DEF IInv, Tables, SameFile
  <2>. HIDE DEF ch, o
  <2>. QED BY <2>1, <2>2, <2>3, <2>4, <1>2, RemovedStep DEF PartEnd
<1>6. CASE ~(gone /\ table[n] = 0)
  <2>1. /\ chan' = ch /\ joined' = [joined EXCEPT ![c] = joined[c] \ {o}]
        /\ table' = table \/ table' = [table EXCEPT ![n] = 0]
        /\ Goes(c, Idle) /\ UNCHANGED up
    BY <1>3, <1>6 DEF PartEnd, Goes
  <2>. HIDE DEF o, n
  <2>. QED BY <2>1, <1>1, <1>2, LeavesOne DEF PartEnd
<1>. QED BY <1>5, <1>6

LEMMA DisconnectStep ==
  ASSUME IInv, NEW c \in Clients, Disconnect(c), UNCHANGED threadVars
  PROVE  IInv' /\ CloseStep
<1>1. h[c].cmd \notin TalkCmds /\ ~Dirty(h[c]) /\ ~Parts(h[c])
  <2>1. h[c] = Idle \/ (h[c].at = "surface" /\ Shaped(h[c], created))
    BY SomeFacts DEF Disconnect
  <2>. QED BY <2>1, IdleOK, IdleShaped DEF Shaped, TalkCmds, Dirty, Parts, RoomCmds, None
<1>2. \A q \in Objs : Fit(chan[q]) /\ SameFile(chan[q], chan[q])
  BY DEF IInv, Tables, SameFile
<1>. QED BY <1>1, <1>2, SomeFacts, RemovedStep DEF Disconnect, IInv, Tables

LEMMA RoomKickEndStep ==
  ASSUME IInv, NEW c \in Clients, RoomKickEnd(c), UNCHANGED threadVars
  PROVE  IInv' /\ CloseStep
<1>. DEFINE o == h[c].obj
            n == h[c].name
            t == h[c].who
            ch == [chan EXCEPT ![o] = WithoutMember(chan[o], t)]
<1>1. o \in Objs /\ n \in Names /\ t \in Clients /\ h[c].cmd = "ROOMKICK"
  BY SomeFacts, NamesShape DEF RoomKickEnd, Shaped, Objs
<1>2. h[c].cmd \notin TalkCmds /\ ~Dirty(h[c]) /\ ~Parts(h[c])
  BY <1>1 DEF TalkCmds, Dirty, Parts, RoomCmds
<1>3. ch = [chan EXCEPT ![o] = WithoutMember(@, t)]
  OBVIOUS
<1>4. /\ chan' = ch /\ joined' = [joined EXCEPT ![t] = joined[t] \ {o}]
      /\ (table' = table \/ table' = [table EXCEPT ![n] = 0]) /\ Goes(c, Idle)
  BY <1>3 DEF RoomKickEnd, Goes
<1>. HIDE DEF o, n, t
<1>. QED BY <1>1, <1>2, <1>4, LeavesOne DEF RoomKickEnd

-----------------------------------------------------------------------------
(* CHANARCHIVE, MODE and the managed rooms. *)

\* An idle client changes one channel that nobody enters.
LEMMA ChangesOne ==
  ASSUME IInv, NEW c \in Clients, NEW o \in Objs, NEW x \in ChannelType, Fit(x),
         SameFile(chan[o], x), x.members \subseteq chan[o].members,
         chan' = [chan EXCEPT ![o] = x], h[c] = Idle,
         UNCHANGED <<up, table, created, joined, h, disk, rooms, crashes, threadVars>>
  PROVE  IInv' /\ CloseStep
<1>1. Goes(c, Idle)
  BY DEF Goes, IInv, Handling
<1>2. /\ Tables' /\ created' \in Nat /\ created' >= created /\ \A m : ChansStay(m)
      /\ \A q \in Objs : chan'[q].name = chan[q].name
      /\ \A q \in Objs : chan'[q] = IF q = o THEN x ELSE chan[q]
  BY OneChannel DEF IInv, Tables
<1>3. Entries'
  BY <1>2, EntriesStay DEF IInv, Entries
<1>4. Handling' /\ Numbered' /\ Kept' /\ Talking' /\ CloseStep
  BY <1>1, <1>2, TaskMoves, IdleOK, IdleShaped DEF TalkCmds, None, threadVars
<1>5. MembersKnow'
  <2>1. \A d \in up', q \in Objs : d \in chan'[q].members => d \in chan[q].members
    BY <1>2
  <2>. QED BY <2>1, KnowStays DEF IInv
<1>. QED BY <1>2, <1>3, <1>4, <1>5 DEF IInv

LEMMA ChanArchiveStep ==
  ASSUME IInv, NEW c \in Clients, NEW n \in Names, ChanArchive(c, n), UNCHANGED threadVars
  PROVE  IInv' /\ CloseStep
<1>. DEFINE o == table[n]
            x == [chan[o] EXCEPT !.archived = TRUE, !.persistent = TRUE]
<1>1. o \in Objs /\ h[c] = Idle
  BY SomeFacts DEF ChanArchive, Ready
<1>2. chan[o] \in ChannelType /\ Fit(chan[o])
  BY <1>1 DEF IInv, Tables
<1>3. x \in ChannelType /\ Fit(x) /\ SameFile(chan[o], x) /\ x.members = chan[o].members
  <2>. HIDE DEF o
  <2>. QED BY <1>2 DEF ChannelType, Fit, SameFile
<1>4. chan' = [chan EXCEPT ![o] = x]
  <2>1. chan' = [chan EXCEPT ![o].archived = TRUE, ![o].persistent = TRUE]
    BY DEF ChanArchive
  <2>. HIDE DEF o
  <2>. QED BY <2>1, <1>1 DEF IInv, Tables
<1>. HIDE DEF x, o
<1>. QED BY <1>1, <1>3, <1>4, ChangesOne DEF ChanArchive

LEMMA ModeOpStep ==
  ASSUME IInv, NEW c \in Clients, NEW n \in Names, NEW t \in Clients, NEW adding \in BOOLEAN,
         ModeOp(c, n, t, adding), UNCHANGED threadVars
  PROVE  IInv' /\ CloseStep
<1>. DEFINE o == table[n]
            ch == chan[o]
            led == IF adding THEN ch.ops \cup {t} ELSE ch.ops \ {t}
            ops == IF led = {} /\ ch.members # {} THEN {CHOOSE m \in ch.members : TRUE} ELSE led
            x == [ch EXCEPT !.ops = ops]
<1>1. o \in Objs /\ h[c] = Idle /\ t \in ch.members
  BY SomeFacts DEF ModeOp, Ready
<1>2. ch \in ChannelType /\ Fit(ch) /\ ch.members \in SUBSET Clients
  BY <1>1 DEF IInv, Tables, ChannelType
<1>3. ops \in SUBSET ch.members /\ (ch.members # {} => ops # {})
  <2>1. led \in SUBSET ch.members
    BY <1>1, <1>2 DEF Fit
  <2>2. ch.members # {} => (CHOOSE m \in ch.members : TRUE) \in ch.members
    OBVIOUS
  <2>. HIDE DEF led, ch
  <2>. QED BY <2>1, <2>2
<1>4. x \in ChannelType /\ Fit(x) /\ SameFile(ch, x) /\ x.members = ch.members
  <2>. HIDE DEF ops, ch
  <2>. QED BY <1>2, <1>3 DEF ChannelType, Fit, SameFile
<1>5. chan' = [chan EXCEPT ![o] = x]
  <2>1. chan' = [chan EXCEPT ![o].ops = ops]
    BY DEF ModeOp
  <2>. HIDE DEF o, ops
  <2>. QED BY <2>1, <1>1 DEF IInv, Tables
<1>. HIDE DEF x, o
<1>. QED BY <1>1, <1>4, <1>5, ChangesOne DEF ModeOp

LEMMA RoomCreateJoinStep ==
  ASSUME IInv, NEW c \in Clients, RoomCreateJoin(c), UNCHANGED threadVars
  PROVE  IInv' /\ CloseStep
<1>. DEFINE o == h[c].obj
            x == WithMember(chan[o], c)
            m == [h[c] EXCEPT !.at = "save"]
<1>1. o \in Objs /\ o \in 1..created /\ h[c].cmd = "ROOMCREATE" /\ h[c] \in Tasks
      /\ Rooming(h[c], chan)
  BY SomeFacts, NamesShape DEF RoomCreateJoin, Shaped, Objs, RoomCmds
<1>2. /\ chan' = [chan EXCEPT ![o] = x] /\ Goes(c, m)
      /\ joined' = [joined EXCEPT ![c] = joined[c] \cup {o}]
  <2>1. chan' = [chan EXCEPT ![o] = WithMember(@, c)]
    BY DEF RoomCreateJoin
  <2>2. joined' = [joined EXCEPT ![c] = @ \cup {o}]
    BY DEF RoomCreateJoin
  <2>3. Goes(c, m)
    BY DEF RoomCreateJoin, Goes
  <2>. HIDE DEF m
  <2>. QED BY <2>1, <2>2, <2>3
<1>3. x \in ChannelType /\ Fit(x) /\ SameFile(chan[o], x) /\ x.members = chan[o].members \cup {c}
  BY <1>1, WithMemberOK DEF IInv, Tables
<1>4. m \in Tasks /\ m.cmd = "ROOMCREATE" /\ m.at = "save" /\ m.obj = o
  <2>. HIDE DEF Lists
  <2>. QED BY <1>1 DEF Tasks, Points
<1>. HIDE DEF o, x, m
<1>5. joined' \in [Clients -> SUBSET Objs] /\ joined'[c] = joined[c] \cup {o}
      /\ \A d \in Clients \ {c} : joined'[d] = joined[d]
  BY <1>1, <1>2 DEF IInv, Tables
<1>6. /\ Tables' /\ created' \in Nat /\ created' >= created /\ \A k : ChansStay(k)
      /\ \A q \in Objs : chan'[q].name = chan[q].name
      /\ \A q \in Objs : chan'[q] = IF q = o THEN x ELSE chan[q]
  <2>1. Tables /\ up' \subseteq Clients /\ UNCHANGED <<created, disk, rooms>>
    BY DEF IInv, Tables, RoomCreateJoin
  <2>. QED BY <2>1, <1>1, <1>2, <1>3, <1>5, OneChannel
<1>7. Entries'
  BY <1>6, EntriesStay DEF IInv, Entries, RoomCreateJoin
<1>8. Shaped(m, created') /\ Rooming(m, chan')
  <2>1. chan[o].room # 0
    BY <1>1 DEF Rooming, RoomCmds, o
  <2>2. chan'[o].room = chan[o].room
    BY <1>1, <1>3, <1>6 DEF SameFile
  <2>3. created' = created
    BY DEF RoomCreateJoin
  <2>. QED BY <2>1, <2>2, <2>3, <1>1, <1>4 DEF Shaped, Rooming, RoomCmds
<1>9. Handling' /\ Numbered' /\ Kept' /\ Talking' /\ CloseStep
  <2>1. Dirty(m) /\ m.obj = h[c].obj /\ h[c].cmd \notin TalkCmds /\ m.cmd \notin TalkCmds
    BY <1>1, <1>4 DEF Dirty, RoomCmds, TalkCmds, o
  <2>. QED BY <2>1, <1>2, <1>4, <1>6, <1>8, TaskMoves DEF threadVars, RoomCreateJoin
<1>10. MembersKnow'
  <2>1. \A d \in Clients : Parts(h[d]) => Parts(h'[d]) /\ h'[d].obj = h[d].obj
    BY <1>1, <1>2, Others DEF Parts, IInv
  <2>2. ASSUME NEW d \in up', NEW q \in Objs, d \in chan'[q].members, q \notin joined'[d]
        PROVE  d \in up /\ d \in chan[q].members /\ q \notin joined[d]
    <3>1. d \in up /\ d \in Clients
      BY DEF IInv, Tables, RoomCreateJoin
    <3>. QED BY <3>1, <2>2, <1>3, <1>5, <1>6
  <2>. QED BY <2>1, <2>2, KnowStays DEF IInv
<1>. QED BY <1>6, <1>7, <1>9, <1>10 DEF IInv

LEMMA RoomCreateStep ==
  ASSUME IInv, NEW c \in Clients, NEW n \in Names, NEW persistent \in BOOLEAN,
         RoomCreate(c, n, persistent), UNCHANGED threadVars
  PROVE  IInv' /\ CloseStep
<1>. DEFINE o == Found(n)
            x == [Blank(n) EXCEPT !.room = rooms + 1, !.owner = c, !.persistent = persistent]
            m == Handler("ROOMCREATE", "invite", n, o)
<1>1. /\ created \in Nat /\ rooms \in Nat /\ rooms < created /\ MaxObjs \in Nat
      /\ o = created + 1 /\ created' = created + 1 /\ rooms' = rooms + 1 /\ created < MaxObjs
      /\ h[c] = Idle /\ Creates(n) /\ Goes(c, m) /\ UNCHANGED <<up, joined, disk, crashes>>
  BY SomeFacts, NamesShape DEF RoomCreate, Ready, Creates, Found, Goes, IInv, Tables
<1>2. o \in Objs /\ o \in 0..MaxObjs /\ rooms + 1 \in 0..MaxObjs /\ rooms' < created'
  BY <1>1 DEF Objs
<1>3. Ensured(n)[o] = Blank(n) /\ Ensured(n) = [chan EXCEPT ![o] = Blank(n)]
  BY <1>1, <1>2 DEF Ensured, RoomCreate, IInv, Tables
<1>4. /\ Blank(n) \in ChannelType /\ Blank(n).name = n /\ Blank(n).members = {} /\ Blank(n).ops = {}
  BY BlankOK DEF AnyName, Blank
<1>5. x \in ChannelType /\ x.name = n /\ x.members = {} /\ x.ops = {} /\ x.room = rooms + 1
  <2>. HIDE DEF o
  <2>. QED BY <1>2, <1>4 DEF ChannelType
<1>6. chan' = [Ensured(n) EXCEPT ![o] = x]
  <2>1. chan' = [Ensured(n) EXCEPT ![o].room = rooms + 1, ![o].owner = c, ![o].persistent = persistent]
    BY DEF RoomCreate
  <2>2. Ensured(n) \in [Objs -> ChannelType]
    BY <1>3, <1>4 DEF IInv, Tables
  <2>. HIDE DEF o
  <2>. QED BY <2>1, <2>2, <1>2, <1>3
<1>7. Fit(x) /\ x.name = Ensured(n)[o].name
  BY <1>3, <1>4, <1>5 DEF Fit
<1>. HIDE DEF x
<1>8. /\ Tables' /\ Entries' /\ created' \in Nat /\ created' >= created /\ o \in 1..created'
      /\ chan'[o] = x /\ \A q \in Objs \ {o} : chan'[q] = chan[q]
  <2>1. Tables /\ Entries /\ Numbered /\ up' \subseteq Clients /\ joined' \in [Clients -> SUBSET Objs]
        /\ rooms' \in Nat
    BY <1>1 DEF IInv, Tables
  <2>. QED BY <2>1, <1>1, <1>2, <1>5, <1>6, <1>7, FoundChannel
<1>9. m \in Tasks /\ m.cmd = "ROOMCREATE" /\ m.at = "invite" /\ m.name = n /\ m.obj = o
  <2>1. "ROOMCREATE" \in Cmds /\ "invite" \in Points /\ n \in AnyName
    BY DEF Cmds, Commands, Points, AnyName
  <2>. HIDE DEF o
  <2>. QED BY <2>1, <1>2, HandlerOK
<1>. HIDE DEF m, o
<1>10. Shaped(m, created') /\ Rooming(m, chan') /\ Dirty(m)
  BY <1>1, <1>5, <1>8, <1>9 DEF Shaped, Rooming, RoomCmds, Dirty
<1>11. \A q \in Objs \ {o} : chan'[q].room = chan[q].room /\ SameFile(chan[q], chan'[q])
                             /\ chan[q].room <= rooms
  BY <1>8 DEF SameFile, IInv, Numbered
<1>12. chan[o].room = 0
  BY <1>1, <1>2 DEF IInv, Numbered
<1>13. Handling'
  <2>1. h' \in [Clients -> Tasks]
    BY <1>1, <1>9 DEF Goes, IInv, Handling
  <2>2. ASSUME NEW d \in Clients, d # c PROVE Shaped(h'[d], created') /\ Rooming(h'[d], chan')
    <3>1. h'[d] = h[d] /\ Shaped(h[d], created) /\ Rooming(h[d], chan)
      BY <1>1, <2>2, Others, SomeFacts DEF IInv
    <3>2. 1..created \subseteq 1..created'
      BY <1>1
    <3>3. Shaped(h[d], created')
      BY <3>1, <3>2 DEF Shaped
    <3>4. h[d].cmd \in RoomCmds => h[d].obj \in Objs \ {o}
      BY <3>1, <1>1 DEF Shaped, Objs, RoomCmds
    <3>5. Rooming(h[d], chan')
      BY <3>1, <3>4, <1>8 DEF Rooming, RoomCmds
    <3>. QED BY <3>1, <3>3, <3>5
  <2>3. h'[c] = m
    BY <1>1, Others DEF IInv
  <2>. QED BY <2>1, <2>2, <2>3, <1>10 DEF Handling
<1>14. Numbered'
  <2>1. \A q \in Objs : chan'[q].room <= rooms'
    <3>1. x.room = rooms'
      BY <1>1, <1>5
    <3>2. \A q \in Objs : chan[q].room \in Nat
      BY SomeFacts, NamesShape DEF ChannelType
    <3>. QED BY <3>1, <3>2, <1>1, <1>8, <1>11
  <2>2. \A q, r \in Objs : chan'[q].room = chan'[r].room /\ chan'[q].room # 0 => q = r
    <3>1. \A q \in Objs \ {o} : chan'[q].room # chan'[o].room
      BY <1>1, <1>5, <1>8, <1>11
    <3>. QED BY <3>1, <1>11 DEF IInv, Numbered
  <2>3. \A r \in Rooms : disk'[r] # NoFile => r <= rooms'
    BY <1>1 DEF IInv, Numbered, Rooms
  <2>4. \A q \in Objs : q > created' => chan'[q].room = 0
    BY <1>1, <1>11 DEF IInv, Numbered, Objs
  <2>. QED BY <2>1, <2>2, <2>3, <2>4 DEF Numbered
<1>15. Kept'
  <2>. SUFFICES ASSUME NEW q \in Objs, chan'[q].room # 0 PROVE (InHand(q) \/ Filed(q))'
    BY DEF Kept
  <2>1. CASE q = o
    BY <2>1, <1>1, <1>9, <1>10, Others DEF InHand, IInv
  <2>2. CASE q # o
    <3>1. InHand(q) \/ Filed(q)
      BY <2>2, <1>11 DEF IInv, Kept
    <3>2. InHand(q) => InHand(q)'
      BY <1>1, Others, IdleShaped DEF InHand, IInv
    <3>3. Filed(q) => Filed(q)'
      BY <2>2, <1>1, <1>11 DEF Filed, SameFile
    <3>. QED BY <3>1, <3>2, <3>3
  <2>. QED BY <2>1, <2>2
<1>16. Talking' /\ CloseStep
  BY <1>1, <1>9, TalkStays, IdleOK DEF IInv, TalkCmds, None, threadVars
<1>17. MembersKnow'
  <2>1. \A d \in Clients : Parts(h[d]) => Parts(h'[d]) /\ h'[d].obj = h[d].obj
    BY <1>1, Others, IdleShaped DEF IInv
  <2>2. \A q \in Objs : chan'[q].members \subseteq chan[q].members
    BY <1>5, <1>8
  <2>. QED BY <2>1, <2>2, <1>1, KnowStays DEF IInv
<1>. QED BY <1>8, <1>13, <1>14, <1>15, <1>16, <1>17 DEF IInv

LEMMA RoomMetaStep ==
  ASSUME IInv, NEW c \in Clients, NEW n \in Names, NEW owner \in Clients, NEW persistent \in BOOLEAN,
         RoomMeta(c, n, owner, persistent), UNCHANGED threadVars
  PROVE  IInv' /\ CloseStep
<1>. DEFINE o == table[n]
            x == [chan[o] EXCEPT !.owner = owner, !.persistent = persistent]
            m == Handler("ROOMMETA", "save", n, o)
<1>1. o \in Objs /\ o \in 1..created /\ o \in 0..MaxObjs /\ h[c] = Idle /\ chan[o].room # 0
      /\ Goes(c, m) /\ UNCHANGED <<up, table, created, joined, disk, rooms, crashes>>
  BY SomeFacts, NamesShape DEF RoomMeta, Ready, Goes, Objs
<1>2. chan[o] \in ChannelType /\ Fit(chan[o])
  BY <1>1 DEF IInv, Tables
<1>3. x \in ChannelType /\ Fit(x) /\ x.name = chan[o].name /\ x.room = chan[o].room
      /\ x.members = chan[o].members
  <2>. HIDE DEF o
  <2>. QED BY <1>2 DEF ChannelType, Fit
<1>4. chan' = [chan EXCEPT ![o] = x]
  <2>1. chan' = [chan EXCEPT ![o].owner = owner, ![o].persistent = persistent]
    BY DEF RoomMeta
  <2>. HIDE DEF o
  <2>. QED BY <2>1, <1>1 DEF IInv, Tables
<1>5. m \in Tasks /\ m.cmd = "ROOMMETA" /\ m.at = "save" /\ m.name = n /\ m.obj = o
  <2>1. "ROOMMETA" \in Cmds /\ "save" \in Points /\ n \in AnyName
    BY DEF Cmds, Commands, Points, AnyName
  <2>. HIDE DEF o
  <2>. QED BY <2>1, <1>1, HandlerOK
<1>. HIDE DEF m, x, o
<1>6. Dirty(m)
  BY <1>5 DEF Dirty, RoomCmds
<1>7. /\ Tables' /\ created' \in Nat /\ created' >= created /\ ChansStay(m)
      /\ \A q \in Objs : chan'[q].name = chan[q].name
      /\ \A q \in Objs : chan'[q] = IF q = o THEN x ELSE chan[q]
  <2>1. Tables /\ up' \subseteq Clients /\ joined' \in [Clients -> SUBSET Objs]
    BY <1>1 DEF IInv, Tables
  <2>. QED BY <2>1, <1>1, <1>3, <1>4, <1>5, <1>6, OneRoom
<1>8. Entries'
  BY <1>1, <1>7, EntriesStay DEF IInv, Entries
<1>9. Shaped(m, created') /\ Rooming(m, chan')
  BY <1>1, <1>3, <1>5, <1>7 DEF Shaped, Rooming, RoomCmds
<1>10. Handling' /\ Numbered' /\ Kept' /\ Talking' /\ CloseStep
  <2>1. ~Dirty(h[c]) /\ h[c].cmd \notin TalkCmds /\ m.cmd \notin TalkCmds
    BY <1>1, <1>5, IdleOK, IdleShaped DEF TalkCmds, None
  <2>. QED BY <2>1, <1>1, <1>5, <1>7, <1>9, TaskMoves DEF threadVars
<1>11. MembersKnow'
  <2>1. \A d \in Clients : Parts(h[d]) => Parts(h'[d]) /\ h'[d].obj = h[d].obj
    BY <1>1, Others, IdleShaped DEF IInv
  <2>2. \A q \in Objs : chan'[q].members \subseteq chan[q].members
    BY <1>3, <1>7
  <2>. QED BY <2>1, <2>2, <1>1, KnowStays DEF IInv
<1>. QED BY <1>7, <1>8, <1>10, <1>11 DEF IInv

LEMMA RoomSaveStep ==
  ASSUME IInv, NEW c \in Clients, RoomSave(c), UNCHANGED threadVars
  PROVE  IInv' /\ CloseStep
<1>. DEFINE o == h[c].obj
            r == chan[o].room
            f == SavedOf(chan[o])
<1>1. h[c].cmd \in RoomCmds /\ o \in Objs /\ r # 0 /\ Rooming(h[c], chan)
  BY SomeFacts, NamesShape DEF RoomSave, Shaped, Rooming, RoomCmds, Objs
<1>2. chan[o] \in ChannelType /\ r \in Rooms /\ r \in Nat /\ r <= rooms
  <2>1. chan[o] \in ChannelType
    BY <1>1, SomeFacts
  <2>2. r \in 0..MaxObjs /\ r <= rooms
    BY <1>1, <2>1 DEF ChannelType, IInv, Numbered
  <2>. HIDE DEF r
  <2>. QED BY <1>1, <2>1, <2>2, NamesShape DEF Rooms
<1>3. f \in Files /\ f.name = chan[o].name /\ f.owner = chan[o].owner
  <2>. HIDE DEF o
  <2>. QED BY <1>2 DEF SavedOf, Files, ChannelType, AnyName
<1>4. /\ disk' = [disk EXCEPT ![r] = f] /\ Goes(c, Idle)
      /\ UNCHANGED <<up, table, chan, created, joined, rooms, crashes, threadVars>>
  BY DEF RoomSave, Goes
<1>. HIDE DEF f
<1>5. Tables'
  BY <1>2, <1>3, <1>4 DEF IInv, Tables
<1>6. Entries'
  BY <1>4 DEF IInv, Entries
<1>7. ChansStay(Idle) /\ created' \in Nat /\ created' >= created
  BY <1>4, SomeFacts DEF ChansStay, SameFile
<1>8. Handling'
  BY <1>4, <1>7, IdleOK, IdleShaped, HandlingMoves DEF IInv
<1>9. Numbered'
  <2>1. \A s \in Rooms : disk'[s] # NoFile => s <= rooms'
    BY <1>2, <1>4 DEF IInv, Numbered, Tables
  <2>. QED BY <2>1, <1>4 DEF IInv, Numbered
<1>10. Kept'
  <2>. SUFFICES ASSUME NEW q \in Objs, chan[q].room # 0 PROVE (InHand(q) \/ Filed(q))'
    BY <1>4 DEF Kept
  <2>1. CASE q = o
    <3>1. disk'[r] = f
      BY <1>2, <1>4 DEF IInv, Tables
    <3>. QED BY <2>1, <3>1, <1>3, <1>4 DEF Filed
  <2>2. CASE q # o
    <3>1. chan[q].room # r
      BY <2>2, <1>1 DEF IInv, Numbered
    <3>2. Filed(q) => Filed(q)'
      BY <3>1, <1>2, <1>4 DEF Filed, IInv, Tables
    <3>3. InHand(q) => InHand(q)'
      BY <2>2, <1>4, Others DEF InHand, IInv
    <3>. QED BY <3>2, <3>3 DEF IInv, Kept
  <2>. QED BY <2>1, <2>2
<1>11. Talking' /\ CloseStep
  <2>1. h[c].cmd \notin TalkCmds
    BY <1>1 DEF RoomCmds, TalkCmds
  <2>. QED BY <2>1, <1>4, TalkStays, IdleOK DEF IInv, TalkCmds, None, threadVars, RoomSave
<1>12. MembersKnow'
  <2>1. \A d \in Clients : Parts(h[d]) => Parts(h'[d]) /\ h'[d].obj = h[d].obj
    <3>1. ~Parts(h[c])
      BY DEF RoomSave, Parts
    <3>. QED BY <3>1, <1>4, Others DEF IInv
  <2>. QED BY <2>1, <1>4, KnowStays DEF IInv
<1>. QED BY <1>5, <1>6, <1>8, <1>9, <1>10, <1>11, <1>12 DEF IInv

LEMMA RoomKickStep ==
  ASSUME IInv, NEW c \in Clients, NEW n \in Names, NEW t \in Clients, RoomKick(c, n, t),
         UNCHANGED threadVars
  PROVE  IInv' /\ CloseStep
<1>. DEFINE b == Handler("ROOMKICK", "notify", n, table[n])
            m == [b EXCEPT !.who = t]
<1>1. table[n] \in Objs /\ table[n] \in 1..created /\ table[n] \in 0..MaxObjs
  BY SomeFacts, NamesShape DEF RoomKick, Objs
<1>2. b \in Tasks /\ b.cmd = "ROOMKICK" /\ b.at = "notify" /\ b.name = n /\ b.obj = table[n]
  BY <1>1, HandlerOK DEF Cmds, Commands, Points, AnyName
<1>3. Goes(c, m) /\ h[c] = Idle
  BY DEF RoomKick, Ready, Goes
<1>. HIDE DEF b
<1>4. m \in Tasks /\ m.cmd = "ROOMKICK" /\ m.at = "notify" /\ m.name = n /\ m.obj = table[n]
      /\ m.who = t
  <2>. HIDE DEF Lists
  <2>. QED BY <1>2 DEF Tasks
<1>. HIDE DEF m
<1>5. Shaped(m, created) /\ Rooming(m, chan)
  BY <1>1, <1>4 DEF Shaped, Rooming, RoomCmds
<1>. QED BY <1>3, <1>4, <1>5, TaskGoes, IdleOK, IdleShaped DEF RoomKick, TalkCmds, None

\* Of any generations one is the first.
LEMMA Smallest ==
  ASSUME NEW S, S \subseteq Nat, S # {}
  PROVE  \E k \in S : \A j \in S : k <= j
<1>. DEFINE Lt == OpToRel(<, Nat)
<1>1. PICK k \in S : \A j \in S : ~(<<j, k>> \in Lt)
  <2>1. IsWellFoundedOn(Lt, Nat)
    BY NatLessThanWellFounded
  <2>. HIDE DEF Lt
  <2>. QED BY <2>1, WFMin
<1>. HIDE DEF Lt
<1>2. ASSUME NEW j \in S PROVE k <= j
  <2>1. k \in Nat /\ j \in Nat /\ ~(<<j, k>> \in Lt)
    BY <1>1
  <2>2. ~(j < k)
    BY <2>1 DEF OpToRel, Lt
  <2>. QED BY <2>1, <2>2
<1>. QED BY <1>2

LEMMA RoomArchiveStep ==
  ASSUME IInv, NEW c \in Clients, NEW n \in Names, RoomArchive(c, n), UNCHANGED threadVars
  PROVE  IInv' /\ CloseStep
<1>. DEFINE b == Handler("ROOMARCHIVE", "notice", n, table[n])
            a == ArchiveName(n)
            m == [b EXCEPT !.to = a]
<1>1. table[n] \in Objs /\ table[n] \in 1..created /\ table[n] \in 0..MaxObjs /\ table[n] # 0
  BY SomeFacts, NamesShape DEF RoomArchive, Objs
<1>2. b \in Tasks /\ b.cmd = "ROOMARCHIVE" /\ b.at = "notice" /\ b.name = n /\ b.obj = table[n]
  BY <1>1, HandlerOK DEF Cmds, Commands, Points, AnyName
<1>3. Goes(c, m) /\ h[c] = Idle
  BY DEF RoomArchive, Ready, Goes
<1>4. a \in {n[1]} \X (1..MaxGen)
  <2>1. ArchiveNames(n) \in SUBSET (1..MaxGen) /\ ArchiveNames(n) # {}
    BY DEF RoomArchive, ArchiveNames
  <2>2. \E k \in ArchiveNames(n) : \A j \in ArchiveNames(n) : k <= j
    BY <2>1, NamesShape, Smallest
  <2>. QED BY <2>1, <2>2 DEF ArchiveName
<1>. HIDE DEF b, a
<1>5. m \in Tasks /\ m.cmd = "ROOMARCHIVE" /\ m.at = "notice" /\ m.name = n /\ m.obj = table[n]
      /\ m.to = a
  <2>1. a \in AnyName
    BY <1>4, NamesShape DEF AnyName, Names
  <2>. HIDE DEF Lists
  <2>. QED BY <2>1, <1>2 DEF Tasks
<1>. HIDE DEF m
<1>6. n[2] = 0 /\ chan[table[n]].name = n /\ chan[table[n]].room # 0
  BY <1>1 DEF RoomArchive, IInv, Entries, AtHome
<1>7. Shaped(m, created) /\ Rooming(m, chan)
  BY <1>1, <1>4, <1>5, <1>6 DEF Shaped, Rooming, RoomCmds
<1>. QED BY <1>3, <1>5, <1>7, TaskGoes, IdleOK, IdleShaped DEF RoomArchive, TalkCmds, None

\* The last member is gone; joined loses nothing but the room.
LEMMA RenamedStep ==
  ASSUME IInv, NEW c \in Clients, h[c].cmd = "ROOMARCHIVE", h[c].at \in {"notice", "part"},
         Renamed(c), UNCHANGED <<up, created, disk, rooms, crashes, threadVars>>,
         joined' \in [Clients -> SUBSET Objs],
         \A d \in Clients : joined[d] \ {h[c].obj} \subseteq joined'[d]
  PROVE  IInv' /\ CloseStep
<1>. DEFINE o == h[c].obj
            n == h[c].name
            t == h[c].to
            x == [chan[o] EXCEPT !.members = {}, !.ops = {}]
            y == [chan[o] EXCEPT !.members = {}, !.ops = {}, !.name = t, !.archived = TRUE]
            m == [h[c] EXCEPT !.at = "save", !.todo = {}]
<1>1. /\ o \in Objs /\ o \in 1..created /\ n \in Names /\ n[2] = 0 /\ chan[o].room # 0
      /\ chan[o].name[1] = n[1] /\ t \in {n[1]} \X (1..MaxGen) /\ t \in Names
      /\ h[c] \in Tasks /\ Shaped(h[c], created)
  <2>1. /\ h[c] \in Tasks /\ Shaped(h[c], created) /\ Rooming(h[c], chan)
    BY SomeFacts
  <2>2. /\ o \in Objs /\ o \in 1..created /\ n \in Names /\ n[2] = 0 /\ chan[o].room # 0
        /\ chan[o].name[1] = n[1] /\ t \in {n[1]} \X (1..MaxGen)
    BY <2>1, SomeFacts, NamesShape DEF Shaped, Rooming, RoomCmds, Objs
  <2>. HIDE DEF o, n, t
  <2>. QED BY <2>1, <2>2, NamesShape DEF Names
<1>2. chan[o] \in ChannelType /\ Tables /\ up' \subseteq Clients /\ UNCHANGED <<created, disk, rooms>>
  BY <1>1 DEF IInv, Tables
<1>3. h[c].cmd \notin TalkCmds /\ ~Dirty(h[c])
  BY DEF TalkCmds, Dirty
<1>4. ASSUME \A q \in Objs \ {o} : chan'[q] = chan[q], chan'[o].members = {},
             NEW k, Goes(c, k)
      PROVE  MembersKnow'
  <2>. SUFFICES ASSUME NEW d \in up', NEW q \in Objs, d \in chan'[q].members, q \notin joined'[d]
                PROVE  Archiving(q)'
    BY DEF MembersKnow
  <2>1. q # o /\ d \in up /\ d \in Clients /\ d \in chan[q].members /\ q \notin joined[d]
    BY <1>2, <1>4
  <2>2. PICK e \in Clients : h[e].cmd = "ROOMARCHIVE" /\ h[e].at = "part" /\ h[e].obj = q
    BY <2>1 DEF IInv, MembersKnow, Archiving
  <2>3. h'[e] = h[e]
    BY <2>1, <2>2, <1>4, Others DEF IInv
  <2>. QED BY <2>2, <2>3 DEF Archiving
<1>5. CASE table[n] = 0
  <2>1. chan' = [chan EXCEPT ![o] = x] /\ Goes(c, Idle) /\ UNCHANGED table
    <3>1. chan' = [chan EXCEPT ![o].members = {}, ![o].ops = {}]
      BY <1>5 DEF Renamed
    <3>2. Goes(c, Idle) /\ UNCHANGED table
      BY <1>5 DEF Renamed, Goes
    <3>. HIDE DEF o
    <3>. QED BY <3>1, <3>2, <1>1 DEF IInv, Tables
  <2>2. x \in ChannelType /\ Fit(x) /\ SameFile(chan[o], x) /\ x.members = {}
    <3>. HIDE DEF o
    <3>. QED BY <1>2 DEF ChannelType, Fit, SameFile
  <2>. HIDE DEF x, o
  <2>3. /\ Tables' /\ created' \in Nat /\ created' >= created /\ \A k : ChansStay(k)
        /\ \A q \in Objs : chan'[q].name = chan[q].name
        /\ \A q \in Objs : chan'[q] = IF q = o THEN x ELSE chan[q]
    BY <1>1, <1>2, <2>1, <2>2, OneChannel
  <2>4. Entries'
    BY <2>1, <2>3, EntriesStay DEF IInv, Entries
  <2>5. Handling' /\ Numbered' /\ Kept' /\ Talking' /\ CloseStep
    BY <1>3, <2>1, <2>3, TaskMoves, IdleOK, IdleShaped DEF TalkCmds, None, threadVars
  <2>6. MembersKnow'
    BY <1>1, <1>4, <2>1, <2>2, <2>3
  <2>. QED BY <2>3, <2>4, <2>5, <2>6 DEF IInv
<1>6. CASE table[n] # 0
  <2>1. chan' = [chan EXCEPT ![o] = y] /\ Goes(c, m) /\ table' = [table EXCEPT ![n] = 0, ![t] = o]
    <3>1. chan' = [chan EXCEPT ![o].members = {}, ![o].ops = {}, ![o].name = t, ![o].archived = TRUE]
      BY <1>6 DEF Renamed
    <3>2. h' = [h EXCEPT ![c].at = "save", ![c].todo = {}]
      BY <1>6 DEF Renamed
    <3>3. Goes(c, m)
      BY <3>2 DEF Goes, IInv, Handling
    <3>4. table' = [table EXCEPT ![n] = 0, ![t] = o]
      BY <1>6 DEF Renamed
    <3>. HIDE DEF o, t, n, m
    <3>. QED BY <3>1, <3>3, <3>4, <1>1 DEF IInv, Tables
  <2>2. y \in ChannelType /\ Fit(y) /\ y.members = {} /\ y.room = chan[o].room /\ y.name = t
    <3>. HIDE DEF o, t
    <3>. QED BY <1>1, <1>2 DEF ChannelType, Fit
  <2>3. m \in Tasks /\ m.cmd = "ROOMARCHIVE" /\ m.at = "save" /\ m.obj = o /\ m.name = n /\ m.to = t
    <3>. HIDE DEF Lists
    <3>. QED BY <1>1 DEF Tasks, Points
  <2>. HIDE DEF x, y, m, o, t, n
  <2>4. /\ Dirty(m) /\ m.cmd \notin TalkCmds
    BY <2>3 DEF Dirty, RoomCmds, TalkCmds
  <2>5. \A q \in Objs : chan'[q] = IF q = o THEN y ELSE chan[q]
    BY <1>1, <1>2, <2>1 DEF Tables
  <2>6. Tables'
    <3>1. chan' \in [Objs -> ChannelType] /\ \A q \in Objs : Fit(chan'[q])
      BY <1>1, <1>2, <2>1, <2>2, <2>5 DEF Tables
    <3>. QED BY <3>1, <1>2 DEF Tables
  <2>7. t[1] = n[1] /\ t[2] \in 1..MaxGen
    BY <1>1
  <2>8. ChansStay(m)
    <3>. SUFFICES ASSUME NEW q \in Objs
                  PROVE  /\ chan'[q].room = chan[q].room /\ chan'[q].name[1] = chan[q].name[1]
                         /\ SameFile(chan[q], chan'[q]) \/ (Dirty(m) /\ m.obj = q)
      BY DEF ChansStay
    <3>1. CASE q = o
      BY <3>1, <1>1, <2>2, <2>3, <2>4, <2>5, <2>7
    <3>2. CASE q # o
      BY <3>2, <2>5 DEF SameFile
    <3>. QED BY <3>1, <3>2
  <2>9. created' \in Nat /\ created' >= created /\ created' = created
    BY SomeFacts
  <2>10. Shaped(m, created') /\ Rooming(m, chan')
    BY <1>1, <2>2, <2>3, <2>5, <2>7, <2>9 DEF Shaped, Rooming, RoomCmds
  <2>11. Handling' /\ Numbered' /\ Kept' /\ Talking' /\ CloseStep
    BY <1>3, <2>1, <2>3, <2>4, <2>8, <2>9, <2>10, TaskMoves DEF threadVars
  <2>12. MembersKnow'
    BY <1>1, <1>4, <2>1, <2>2, <2>5
  <2>13. Entries'
    <3>1. n # t
      BY <1>1, <2>7
    <3>2. \A k \in Names : table'[k] = IF k = t THEN o ELSE IF k = n THEN 0 ELSE table[k]
      BY <1>1, <2>1, <3>1 DEF IInv, Entries
    <3>3. table' \in [Names -> 0..MaxObjs]
      <4>1. o \in 0..MaxObjs /\ 0 \in 0..MaxObjs
        BY <1>1, NamesShape DEF Objs
      <4>. QED BY <1>1, <2>1, <4>1 DEF IInv, Entries
    <3>4. \A k \in Names : table'[k] <= created'
      BY <1>1, <2>9, <3>2, SomeFacts DEF IInv, Entries
    <3>5. ASSUME NEW k \in Names, table'[k] # 0 PROVE AtHome(k, chan'[table'[k]].name)
      <4>1. CASE k = t
        <5>1. chan'[table'[k]].name = t
          BY <4>1, <3>2, <2>2, <2>5, <1>1
        <5>2. t[2] # 0 /\ t \in {t[1]} \X (1..MaxGen)
          BY <1>1, <2>7
        <5>. QED BY <4>1, <5>1, <5>2 DEF AtHome
      <4>2. CASE k # t /\ table[k] = o
        <5>1. k # n /\ AtHome(k, chan[o].name)
          BY <4>2, <3>2, <3>5, <1>1, NamesShape DEF IInv, Entries, Objs
        <5>2. k[2] # 0
          <6>. SUFFICES ASSUME k[2] = 0 PROVE FALSE
            OBVIOUS
          <6>1. chan[o].name = k
            BY <5>1 DEF AtHome
          <6>2. k[1] = n[1] /\ n[2] = k[2]
            BY <6>1, <1>1
          <6>. QED BY <6>2, <5>1, <1>1, NamesShape
        <5>3. chan[o].name \in {k[1]} \X (1..MaxGen)
          BY <5>1, <5>2 DEF AtHome
        <5>4. k[1] = n[1]
          BY <5>3, <1>1
        <5>5. chan'[table'[k]].name = t
          BY <4>2, <5>1, <3>2, <2>2, <2>5, <1>1
        <5>. QED BY <5>2, <5>4, <5>5, <1>1 DEF AtHome
      <4>3. CASE k # t /\ table[k] # o
        <5>1. table'[k] = table[k] /\ table[k] # 0 /\ table[k] \in Objs
          BY <4>3, <3>2, <3>5, SomeFacts
        <5>. QED BY <4>3, <5>1, <2>5 DEF IInv, Entries
      <4>. QED BY <4>1, <4>2, <4>3
    <3>. QED BY <3>3, <3>4, <3>5 DEF Entries
  <2>. QED BY <2>6, <2>11, <2>12, <2>13 DEF IInv
<1>. QED BY <1>5, <1>6

LEMMA RoomArchiveNotifiedStep ==
  ASSUME IInv, NEW c \in Clients, RoomArchiveNotified(c), UNCHANGED threadVars
  PROVE  IInv' /\ CloseStep
<1>1. h[c].cmd = "ROOMARCHIVE" /\ h[c].at = "notice" /\ h[c] \in Tasks /\ h[c].obj \in Objs
      /\ Shaped(h[c], created) /\ Rooming(h[c], chan)
  BY SomeFacts, NamesShape DEF RoomArchiveNotified, Shaped, Objs, RoomCmds
<1>. DEFINE all == chan[h[c].obj].members
<1>2. CASE all = {}
  <2>1. Renamed(c)
    BY <1>2 DEF RoomArchiveNotified
  <2>2. joined' = joined /\ joined \in [Clients -> SUBSET Objs]
    BY DEF RoomArchiveNotified, IInv, Tables
  <2>. QED BY <1>1, <2>1, <2>2, RenamedStep DEF RoomArchiveNotified
<1>3. CASE all # {}
  <2>. DEFINE m == [h[c] EXCEPT !.at = "part", !.todo = all]
  <2>1. Goes(c, m) /\ UNCHANGED <<chan, table>>
    <3>1. h' = [h EXCEPT ![c].at = "part", ![c].todo = all] /\ UNCHANGED <<chan, table>>
      BY <1>3 DEF RoomArchiveNotified
    <3>. HIDE DEF all
    <3>. QED BY <3>1 DEF Goes, IInv, Handling
  <2>2. all \in SUBSET Clients
    BY <1>1, SomeFacts
  <2>. HIDE DEF all
  <2>3. m \in Tasks /\ m.cmd = "ROOMARCHIVE" /\ m.at = "part" /\ m.obj = h[c].obj
        /\ m.name = h[c].name /\ m.to = h[c].to
    <3>. HIDE DEF Lists
    <3>. QED BY <1>1, <2>2 DEF Tasks, Points
  <2>. HIDE DEF m
  <2>4. Shaped(m, created) /\ Rooming(m, chan) /\ m.cmd \notin TalkCmds /\ h[c].cmd \notin TalkCmds
        /\ ~Dirty(h[c]) /\ ~Parts(h[c])
    BY <1>1, <2>3 DEF Shaped, Rooming, RoomCmds, TalkCmds, Dirty, Parts
  <2>. QED BY <2>1, <2>3, <2>4, TaskGoes DEF RoomArchiveNotified
<1>. QED BY <1>2, <1>3

LEMMA RoomArchivePartStep ==
  ASSUME IInv, NEW c \in Clients, RoomArchivePart(c), UNCHANGED threadVars
  PROVE  IInv' /\ CloseStep
<1>. DEFINE o == h[c].obj
<1>1. h[c].cmd = "ROOMARCHIVE" /\ h[c].at = "part" /\ h[c] \in Tasks /\ o \in Objs
      /\ Shaped(h[c], created) /\ Rooming(h[c], chan) /\ h[c].todo \in SUBSET Clients
  BY SomeFacts, NamesShape DEF RoomArchivePart, Shaped, Objs, RoomCmds, Tasks
<1>2. PICK t \in h[c].todo :
        /\ joined' = [joined EXCEPT ![t] = joined[t] \ {o}]
        /\ IF h[c].todo = {t} THEN Renamed(c)
           ELSE /\ h' = [h EXCEPT ![c].todo = @ \ {t}]
                /\ UNCHANGED <<chan, table>>
  BY DEF RoomArchivePart
<1>3. /\ joined' \in [Clients -> SUBSET Objs] /\ \A d \in Clients : joined[d] \ {o} \subseteq joined'[d]
      /\ \A d \in Clients : \A q \in Objs \ {o} : q \in joined[d] => q \in joined'[d]
  <2>. HIDE DEF o
  <2>. QED BY <1>1, <1>2 DEF IInv, Tables
<1>4. UNCHANGED <<up, created, disk, rooms, agenda, crashes>>
  BY DEF RoomArchivePart
<1>5. CASE h[c].todo = {t}
  <2>1. Renamed(c)
    BY <1>2, <1>5
  <2>. QED BY <1>1, <1>3, <1>4, <2>1, RenamedStep
<1>6. CASE h[c].todo # {t}
  <2>. DEFINE m == [h[c] EXCEPT !.todo = h[c].todo \ {t}]
  <2>1. Goes(c, m) /\ UNCHANGED <<chan, table>>
    BY <1>2, <1>6 DEF Goes, IInv, Handling
  <2>2. m \in Tasks /\ m.cmd = "ROOMARCHIVE" /\ m.at = "part" /\ m.obj = o
        /\ m.name = h[c].name /\ m.to = h[c].to
    <3>. HIDE DEF Lists
    <3>. QED BY <1>1 DEF Tasks
  <2>. HIDE DEF m, o
  <2>3. Shaped(m, created') /\ Rooming(m, chan') /\ m.cmd \notin TalkCmds /\ h[c].cmd \notin TalkCmds
        /\ ~Dirty(h[c]) /\ Parts(m)
    BY <1>1, <1>4, <2>1, <2>2 DEF Shaped, Rooming, RoomCmds, TalkCmds, Dirty, Parts, o
  <2>4. created' \in Nat /\ created' >= created /\ ChansStay(m)
    BY <1>4, <2>1, SomeFacts DEF ChansStay, SameFile
  <2>5. Handling' /\ Numbered' /\ Kept' /\ Talking' /\ CloseStep
    BY <1>4, <2>1, <2>2, <2>3, <2>4, TaskMoves DEF threadVars
  <2>6. Tables' /\ Entries'
    BY <1>3, <1>4, <2>1 DEF IInv, Tables, Entries
  <2>7. MembersKnow'
    <3>. SUFFICES ASSUME NEW d \in up', NEW q \in Objs, d \in chan'[q].members, q \notin joined'[d]
                  PROVE  Archiving(q)'
      BY DEF MembersKnow
    <3>1. h'[c] = m /\ \A e \in Clients : e # c => h'[e] = h[e]
      BY <2>1, Others DEF IInv
    <3>2. CASE q = o
      BY <3>1, <3>2, <2>2 DEF Archiving
    <3>3. CASE q # o
      <4>1. d \in up /\ d \in Clients /\ d \in chan[q].members /\ q \notin joined[d]
        BY <3>3, <1>3, <1>4, <2>1 DEF IInv, Tables
      <4>2. PICK e \in Clients : h[e].cmd = "ROOMARCHIVE" /\ h[e].at = "part" /\ h[e].obj = q
        BY <4>1 DEF IInv, MembersKnow, Archiving
      <4>3. h'[e] = h[e]
        BY <3>1, <3>3, <4>2 DEF o
      <4>. QED BY <4>2, <4>3 DEF Archiving
    <3>. QED BY <3>2, <3>3
  <2>. QED BY <2>5, <2>6, <2>7 DEF IInv
<1>. QED BY <1>5, <1>6

-----------------------------------------------------------------------------
(* Threads and their promotion. *)

\* The tables and channels are not concerned; what a handler is at work on stays so.
LEMMA ChannelsRest ==
  ASSUME IInv, UNCHANGED <<up, table, chan, created, joined, disk, rooms>>,
         h' \in [Clients -> Tasks],
         \A d \in Clients : /\ Shaped(h'[d], created) /\ Rooming(h'[d], chan)
                            /\ Dirty(h[d]) \/ Parts(h[d]) => h'[d] = h[d]
  PROVE  Tables' /\ Entries' /\ Handling' /\ Numbered' /\ Kept' /\ MembersKnow'
<1>1. Tables' /\ Entries' /\ Numbered'
  BY DEF IInv, Tables, Entries, Numbered
<1>2. Handling'
  BY DEF Handling
<1>3. Kept'
  <2>. SUFFICES ASSUME NEW o \in Objs, chan[o].room # 0 PROVE (InHand(o) \/ Filed(o))'
    BY DEF Kept
  <2>1. InHand(o) \/ Filed(o)
    BY DEF IInv, Kept
  <2>2. InHand(o) => InHand(o)'
    BY DEF InHand
  <2>3. Filed(o) => Filed(o)'
    BY DEF Filed
  <2>. QED BY <2>1, <2>2, <2>3
<1>4. MembersKnow'
  BY KnowStays DEF IInv
<1>. QED BY <1>1, <1>2, <1>3, <1>4

\* Handler c goes on with its thread.
LEMMA ThreadMoves ==
  ASSUME IInv, NEW c \in Clients, NEW m \in Tasks, Goes(c, m),
         UNCHANGED <<up, table, chan, created, joined, disk, rooms>>,
         Shaped(m, created), Rooming(m, chan), ~Dirty(h[c]), ~Parts(h[c])
  PROVE  Tables' /\ Entries' /\ Handling' /\ Numbered' /\ Kept' /\ MembersKnow'
<1>1. h' \in [Clients -> Tasks]
  BY DEF Goes, IInv, Handling
<1>2. \A d \in Clients : IF d = c THEN h'[d] = m ELSE h'[d] = h[d]
  BY Others DEF IInv
<1>3. \A d \in Clients : /\ Shaped(h'[d], created) /\ Rooming(h'[d], chan)
                         /\ Dirty(h[d]) \/ Parts(h[d]) => h'[d] = h[d]
  BY <1>2, SomeFacts
<1>. QED BY <1>1, <1>3, ChannelsRest

\* A handler has started on the thread n, or gone on with it.
LEMMA TalkGoes ==
  ASSUME IInv, NEW c \in Clients, NEW m \in Tasks, Goes(c, m),
         UNCHANGED <<thread, saved, posts, crashes>>, Showing(m, thread),
         h[c].cmd \notin TalkCmds \/ (m.cmd \in TalkCmds /\ m.name = h[c].name),
         ~(h[c].at = "replay" /\ m.at = "save")
  PROVE  Talking' /\ CloseStep
<1>1. \A d \in Clients : IF d = c THEN h'[d] = m ELSE h'[d] = h[d]
  BY Others DEF IInv
<1>2. \A n \in Names : ThreadBusy(n) => ThreadBusy(n)'
  BY <1>1 DEF ThreadBusy, TalkCmds
<1>3. \A d \in Clients : Showing(h'[d], thread)
  BY <1>1, SomeFacts
<1>4. Talking'
  BY <1>2, <1>3 DEF IInv, Talking
<1>5. CloseStep
  BY <1>1 DEF CloseStep
<1>. QED BY <1>4, <1>5

LEMMA ThreadFacts ==
  ASSUME IInv, NEW n \in Names
  PROVE  /\ thread[n] \in ThreadType /\ saved[n] \in ThreadType
         /\ thread[n].messages \in Lists /\ Len(thread[n].messages) \in Nat
         /\ \A i \in DOMAIN thread[n].messages : thread[n].messages[i] \in Messages
<1>1. thread[n] \in ThreadType /\ saved[n] \in ThreadType
  BY DEF IInv, Talking
<1>2. thread[n].messages \in Lists
  <2>. HIDE DEF Lists
  <2>. QED BY <1>1 DEF ThreadType
<1>. QED BY <1>1, <1>2, LenProperties, ElementOfSeq DEF Lists

LEMMA ThreadSaveStep ==
  ASSUME IInv, NEW c \in Clients, ThreadSave(c)
  PROVE  IInv' /\ CloseStep
<1>. DEFINE n == h[c].name
<1>1. n \in Names /\ h[c].cmd \in TalkCmds /\ h[c].at = "save"
  BY SomeFacts DEF ThreadSave, Shaped, TalkCmds
<1>2. /\ Goes(c, Idle) /\ saved' = [saved EXCEPT ![n] = thread[n]]
      /\ UNCHANGED <<up, table, chan, created, joined, disk, rooms, crashes, thread, posts>>
  BY DEF ThreadSave, Goes
<1>. HIDE DEF n
<1>3. ~Dirty(h[c]) /\ ~Parts(h[c])
  BY <1>1 DEF Dirty, Parts, RoomCmds, TalkCmds
<1>4. Tables' /\ Entries' /\ Handling' /\ Numbered' /\ Kept' /\ MembersKnow'
  BY <1>2, <1>3, IdleOK, IdleShaped, ThreadMoves
<1>5. \A d \in Clients : IF d = c THEN h'[d] = Idle ELSE h'[d] = h[d]
  BY <1>2, Others DEF IInv
<1>6. \A k \in Names : (ThreadBusy(k) \/ saved[k] = thread[k])'
  <2>. SUFFICES ASSUME NEW k \in Names PROVE (ThreadBusy(k) \/ saved[k] = thread[k])'
    OBVIOUS
  <2>1. CASE k = n
    BY <2>1, <1>1, <1>2 DEF IInv, Talking
  <2>2. CASE k # n
    <3>1. ThreadBusy(k) => ThreadBusy(k)'
      BY <2>2, <1>5 DEF ThreadBusy, n
    <3>. QED BY <3>1, <2>2, <1>1, <1>2 DEF IInv, Talking
  <2>. QED BY <2>1, <2>2
<1>7. \A d \in Clients : Showing(h'[d], thread')
  BY <1>2, <1>5, IdleShaped, SomeFacts
<1>8. saved' \in [Names -> ThreadType]
  BY <1>1, <1>2, ThreadFacts DEF IInv, Talking
<1>9. Talking'
  BY <1>2, <1>6, <1>7, <1>8 DEF IInv, Talking
<1>10. CloseStep
  BY <1>1, <1>2, <1>5, IdleOK DEF CloseStep, None
<1>. QED BY <1>4, <1>9, <1>10 DEF IInv

LEMMA PromoteShowStep ==
  ASSUME IInv, NEW c \in Clients, PromoteShow(c)
  PROVE  IInv' /\ CloseStep
<1>. DEFINE n == h[c].name
            l == Walked(c)
            i == NextPos(c)
            m == [h[c] EXCEPT !.at = "replay", !.pos = i, !.shown = h[c].shown \cup {l[i].id}]
<1>1. /\ h[c].cmd = "PROMOTE" /\ h[c].at \in {"joins", "replay"} /\ h[c] \in Tasks /\ n \in Names
      /\ Showing(h[c], thread) /\ Shaped(h[c], created)
  BY SomeFacts DEF PromoteShow, Shaped
<1>2. h[c].pos \in Nat /\ i = h[c].pos + 1 /\ h[c].snap \in Lists /\ h[c].shown \in Posts
  BY <1>1 DEF Tasks, NextPos
<1>3. l \in Lists /\ Shows(h[c], l) /\ (h[c].snap = <<>> => l = thread[n].messages)
      /\ (h[c].snap # <<>> => l = h[c].snap)
  BY <1>1, <1>2, ThreadFacts DEF Walked, Showing
<1>4. i <= Len(l) /\ Len(l) \in Nat /\ i \in DOMAIN l /\ DOMAIN l = 1..Len(l)
  <2>1. Len(l) \in Nat /\ DOMAIN l = 1..Len(l)
    BY <1>3, LenProperties DEF Lists
  <2>2. ~(i > Len(l))
    BY DEF PromoteShow, Replayed
  <2>. HIDE DEF i, l
  <2>. QED BY <2>1, <2>2, <1>2
<1>5. l[i].id \in 1..MaxPosts
  <2>1. l[i] \in Messages
    BY <1>3, <1>4, ElementOfSeq DEF Lists
  <2>. QED BY <2>1 DEF Messages
<1>6. Goes(c, m)
  <2>1. h' = [h EXCEPT ![c].at = "replay", ![c].pos = i, ![c].shown = @ \cup {l[i].id}]
    BY DEF PromoteShow
  <2>. HIDE DEF l, i
  <2>. QED BY <2>1 DEF Goes, IInv, Handling
<1>. HIDE DEF l, i
<1>7. /\ m \in Tasks /\ m.cmd = "PROMOTE" /\ m.at = "replay" /\ m.name = n /\ m.pos = i
      /\ m.snap = h[c].snap /\ m.late = h[c].late /\ m.shown = h[c].shown \cup {l[i].id}
  <2>1. m.shown \in Posts /\ i \in Nat
    BY <1>1, <1>2, <1>5 DEF Tasks, Posts
  <2>. HIDE DEF Lists, Posts
  <2>. QED BY <2>1, <1>1 DEF Tasks, Points
<1>. HIDE DEF m, n
<1>8. Shows(m, l)
  <2>. SUFFICES ASSUME NEW j \in DOMAIN l, j <= i PROVE l[j].id \in m.shown
    BY <1>4, <1>7 DEF Shows
  <2>1. CASE j = i
    BY <2>1, <1>7
  <2>2. CASE j # i
    BY <2>2, <1>2, <1>3, <1>4, <1>7 DEF Shows
  <2>. QED BY <2>1, <2>2
<1>9. Showing(m, thread)
  BY <1>1, <1>3, <1>7, <1>8 DEF Showing, n
<1>10. Shaped(m, created) /\ Rooming(m, chan) /\ ~Dirty(h[c]) /\ ~Parts(h[c]) /\ m.cmd \in TalkCmds
       /\ m.name = h[c].name /\ m.at # "save"
  BY <1>1, <1>7 DEF Shaped, Rooming, RoomCmds, Dirty, Parts, TalkCmds, n
<1>11. UNCHANGED <<up, table, chan, created, joined, disk, rooms, crashes, thread, saved, posts>>
  BY DEF PromoteShow, threadVars
<1>12. Tables' /\ Entries' /\ Handling' /\ Numbered' /\ Kept' /\ MembersKnow'
  BY <1>6, <1>7, <1>10, <1>11, ThreadMoves
<1>13. Talking' /\ CloseStep
  BY <1>6, <1>7, <1>9, <1>10, <1>11, TalkGoes
<1>. QED BY <1>12, <1>13 DEF IInv

LEMMA PromoteEndStep ==
  ASSUME IInv, NEW c \in Clients, PromoteEnd(c)
  PROVE  IInv' /\ CloseStep
<1>. DEFINE n == h[c].name
            t == [thread[n] EXCEPT !.archived = TRUE, !.promoted = TRUE]
            m == Handler("PROMOTE", "save", n, 0)
<1>1. /\ h[c].cmd = "PROMOTE" /\ h[c].at \in {"joins", "replay"} /\ h[c] \in Tasks /\ n \in Names
      /\ Showing(h[c], thread)
  BY SomeFacts DEF PromoteEnd, Shaped
<1>2. thread[n] \in ThreadType
  BY <1>1, ThreadFacts
<1>3. t \in ThreadType /\ t.messages = thread[n].messages /\ t # NoThread
  <2>1. t \in ThreadType /\ t.messages = thread[n].messages /\ t.archived = TRUE
    <3>. HIDE DEF Lists, n
    <3>. QED BY <1>2 DEF ThreadType
  <2>. HIDE DEF t
  <2>. QED BY <2>1 DEF NoThread
<1>4. /\ thread' = [thread EXCEPT ![n] = t] /\ Goes(c, m)
      /\ UNCHANGED <<up, table, chan, created, joined, disk, rooms, crashes, saved, posts>>
  <2>1. thread' = [thread EXCEPT ![n].archived = TRUE, ![n].promoted = TRUE]
    BY DEF PromoteEnd
  <2>2. thread \in [Names -> ThreadType]
    BY DEF IInv, Talking
  <2>3. thread' = [thread EXCEPT ![n] = t]
    <3>. HIDE DEF n, ThreadType
    <3>. QED BY <2>1, <2>2, <1>1
  <2>. HIDE DEF t
  <2>. QED BY <2>3 DEF PromoteEnd, Goes
<1>5. m \in Tasks /\ m.cmd = "PROMOTE" /\ m.at = "save" /\ m.name = n
  <2>1. "PROMOTE" \in Cmds /\ "save" \in Points /\ n \in AnyName /\ 0 \in 0..MaxObjs
    BY <1>1, NamesShape DEF Cmds, Commands, Points, AnyName
  <2>. HIDE DEF n
  <2>. QED BY <2>1, HandlerOK
<1>. HIDE DEF t, m
<1>6. Shaped(m, created) /\ Rooming(m, chan) /\ ~Dirty(h[c]) /\ ~Parts(h[c])
  BY <1>1, <1>5 DEF Shaped, Rooming, RoomCmds, Dirty, Parts
<1>7. Tables' /\ Entries' /\ Handling' /\ Numbered' /\ Kept' /\ MembersKnow'
  BY <1>4, <1>5, <1>6, ThreadMoves
<1>8. \A d \in Clients : IF d = c THEN h'[d] = m ELSE h'[d] = h[d]
  BY <1>4, Others DEF IInv
<1>9. /\ thread' \in [Names -> ThreadType]
      /\ \A k \in Names : /\ thread'[k] = IF k = n THEN t ELSE thread[k]
                          /\ thread'[k].messages = thread[k].messages
                          /\ thread[k] # NoThread => thread'[k] # NoThread
  BY <1>1, <1>3, <1>4 DEF IInv, Talking
<1>10. \A k \in Names : (ThreadBusy(k) \/ saved[k] = thread[k])'
  <2>. SUFFICES ASSUME NEW k \in Names PROVE (ThreadBusy(k) \/ saved[k] = thread[k])'
    OBVIOUS
  <2>1. CASE k = n
    BY <2>1, <1>5, <1>8 DEF ThreadBusy
  <2>2. CASE k # n
    <3>1. ThreadBusy(k) => ThreadBusy(k)'
      BY <2>2, <1>8 DEF ThreadBusy, n
    <3>. QED BY <3>1, <2>2, <1>4, <1>9 DEF IInv, Talking
  <2>. QED BY <2>1, <2>2
<1>11. \A d \in Clients : Showing(h'[d], thread')
  <2>. SUFFICES ASSUME NEW d \in Clients PROVE Showing(h'[d], thread')
    OBVIOUS
  <2>1. CASE d = c
    BY <2>1, <1>5, <1>8 DEF Showing
  <2>2. CASE d # c
    <3>1. h'[d] = h[d] /\ Showing(h[d], thread) /\ (h[d].cmd = "PROMOTE" => h[d].name \in Names)
      BY <2>2, <1>8, SomeFacts DEF Shaped
    <3>. QED BY <3>1, <1>9 DEF Showing
  <2>. QED BY <2>1, <2>2
<1>12. Talking'
  BY <1>4, <1>9, <1>10, <1>11 DEF IInv, Talking
<1>13. CloseStep
  <2>1. ASSUME NEW d \in Clients, h[d].at = "replay", h'[d].at = "save"
        PROVE  Ids(thread[h[d].name].messages) \subseteq h[d].shown \cup h[d].late
    <3>1. d = c /\ h[c].at = "replay"
      BY <2>1, <1>8
    <3>. DEFINE l == Walked(c)
    <3>2. l \in Lists /\ Shows(h[c], l) /\ h[c].pos \in Nat
          /\ (h[c].snap = <<>> => l = thread[n].messages)
          /\ (h[c].snap # <<>> => l = h[c].snap)
      BY <1>1, ThreadFacts DEF Walked, Showing, Tasks
    <3>3. Len(l) \in Nat /\ DOMAIN l = 1..Len(l)
      BY <3>2, LenProperties DEF Lists
    <3>4. h[c].pos + 1 > Len(l)
      BY <3>1 DEF PromoteEnd, Replayed, NextPos
    <3>. HIDE DEF l
    <3>5. Ids(l) \subseteq h[c].shown
      BY <3>2, <3>3, <3>4 DEF Shows, Ids
    <3>. QED BY <3>1, <3>2, <3>5, <1>1 DEF Showing, n
  <2>. QED BY <2>1, <1>9 DEF CloseStep
<1>. QED BY <1>7, <1>12, <1>13 DEF IInv

\* A command of an idle client is at work on thread n, which becomes t.
LEMMA ThreadBecomes ==
  ASSUME IInv, NEW c \in Clients, NEW n \in Names, NEW t \in ThreadType, t # NoThread,
         h[c] = Idle, thread' = [thread EXCEPT ![n] = t], posts' \in 0..MaxPosts,
         thread[n].archived => t.messages = thread[n].messages, Len(t.messages) <= MaxMessages,
         UNCHANGED <<up, table, chan, created, joined, disk, rooms, crashes, saved>>,
         h' \in [Clients -> Tasks], h'[c] = Handler("THREAD", "save", n, 0),
         \A d \in Clients \ {c} :
           /\ h'[d] = h[d] \/ (h[d].cmd = "PROMOTE" /\ Shaped(h'[d], created))
           /\ h'[d].cmd = h[d].cmd /\ h'[d].at = h[d].at /\ h'[d].name = h[d].name
           /\ h[d].cmd = "PROMOTE" /\ h[d].name = n => Showing(h'[d], thread')
           /\ h[d].cmd = "PROMOTE" /\ h[d].name # n => h'[d] = h[d]
  PROVE  IInv' /\ CloseStep
<1>. DEFINE m == Handler("THREAD", "save", n, 0)
<1>1. m \in Tasks /\ m.cmd = "THREAD" /\ m.at = "save" /\ m.name = n
  <2>1. "THREAD" \in Cmds /\ "save" \in Points /\ n \in AnyName /\ 0 \in 0..MaxObjs
    BY NamesShape DEF Cmds, Commands, Points, AnyName
  <2>. QED BY <2>1, HandlerOK
<1>2. h'[c] = m
  OBVIOUS
<1>. HIDE DEF m
<1>3. Tables' /\ Entries' /\ Handling' /\ Numbered' /\ Kept' /\ MembersKnow'
  <2>1. ASSUME NEW d \in Clients
        PROVE  /\ Shaped(h'[d], created) /\ Rooming(h'[d], chan)
               /\ Dirty(h[d]) \/ Parts(h[d]) => h'[d] = h[d]
    <3>1. CASE d = c
      BY <3>1, <1>1, <1>2, IdleShaped DEF Shaped, Rooming, RoomCmds
    <3>2. CASE d # c
      <4>1. CASE h'[d] = h[d]
        BY <4>1, SomeFacts
      <4>2. CASE h[d].cmd = "PROMOTE" /\ Shaped(h'[d], created)
        <5>1. h'[d].cmd = h[d].cmd
          BY <3>2
        <5>. QED BY <4>2, <5>1 DEF Rooming, RoomCmds, Dirty, Parts
      <4>. QED BY <3>2, <4>1, <4>2
    <3>. QED BY <3>1, <3>2
  <2>. QED BY <2>1, ChannelsRest
<1>4. thread' \in [Names -> ThreadType] /\ \A k \in Names : thread'[k] = IF k = n THEN t ELSE thread[k]
  BY DEF IInv, Talking
<1>5. \A k \in Names : (ThreadBusy(k) \/ saved[k] = thread[k])'
  <2>. SUFFICES ASSUME NEW k \in Names PROVE (ThreadBusy(k) \/ saved[k] = thread[k])'
    OBVIOUS
  <2>1. CASE k = n
    BY <2>1, <1>1, <1>2 DEF ThreadBusy
  <2>2. CASE k # n
    <3>1. ThreadBusy(k) => ThreadBusy(k)'
      <4>1. h[c].cmd \notin {"THREAD", "PROMOTE"}
        BY IdleOK DEF None
      <4>. QED BY <4>1 DEF ThreadBusy
    <3>. QED BY <3>1, <2>2, <1>4 DEF IInv, Talking
  <2>. QED BY <2>1, <2>2
<1>6. \A d \in Clients : Showing(h'[d], thread')
  <2>. SUFFICES ASSUME NEW d \in Clients PROVE Showing(h'[d], thread')
    OBVIOUS
  <2>1. CASE d = c \/ h[d].cmd # "PROMOTE"
    BY <2>1, <1>1, <1>2 DEF Showing
  <2>2. CASE d # c /\ h[d].cmd = "PROMOTE" /\ h[d].name # n
    <3>1. h'[d] = h[d] /\ Showing(h[d], thread) /\ h[d].name \in Names
      BY <2>2, SomeFacts DEF Shaped
    <3>2. thread'[h[d].name] = thread[h[d].name]
      BY <2>2, <3>1, <1>4
    <3>. QED BY <3>1, <3>2 DEF Showing
  <2>. QED BY <2>1, <2>2
<1>7. Talking'
  BY <1>4, <1>5, <1>6 DEF IInv, Talking
<1>8. CloseStep
  <2>1. \A d \in Clients : ~(h[d].at = "replay" /\ h'[d].at = "save")
    BY IdleOK DEF None
  <2>. QED BY <2>1, <1>4 DEF CloseStep
<1>. QED BY <1>3, <1>7, <1>8 DEF IInv

LEMMA NoThreadOK == NoThread \in ThreadType
<1>1. <<>> \in Lists
  BY DEF Lists
<1>. HIDE DEF Lists
<1>. QED BY <1>1 DEF NoThread, ThreadType

LEMMA ThreadCreateStep ==
  ASSUME IInv, NEW c \in Clients, NEW n \in Names, ThreadCreate(c, n)
  PROVE  IInv' /\ CloseStep
<1>. DEFINE l == <<Message(c)>>
            t == [NoThread EXCEPT !.creator = c, !.messages = l]
            m == Handler("THREAD", "save", n, 0)
<1>1. /\ h[c] = Idle /\ thread' = [thread EXCEPT ![n] = t] /\ Goes(c, m) /\ thread[n] = NoThread
      /\ posts < MaxPosts /\ posts' = posts + 1
      /\ UNCHANGED <<up, table, chan, created, joined, disk, rooms, crashes, saved>>
  BY DEF ThreadCreate, Ready, Goes
<1>2. Message(c) \in Messages /\ posts' \in 0..MaxPosts
  BY <1>1, NamesShape DEF Message, Messages, IInv, Talking
<1>3. l \in Lists /\ l # <<>>
  BY <1>2 DEF Lists
<1>4. t \in ThreadType /\ t.creator = c /\ t.messages = l
  <2>. HIDE DEF Lists, l
  <2>1. NoThread \in ThreadType
    BY NoThreadOK
  <2>. HIDE DEF NoThread
  <2>. QED BY <1>3, <2>1 DEF ThreadType
<1>5. t # NoThread
  BY <1>4 DEF NoThread
<1>6. m \in Tasks
  <2>1. "THREAD" \in Cmds /\ "save" \in Points /\ n \in AnyName /\ 0 \in 0..MaxObjs
    BY NamesShape DEF Cmds, Commands, Points, AnyName
  <2>. QED BY <2>1, HandlerOK
<1>. HIDE DEF t
<1>7. h' \in [Clients -> Tasks] /\ h'[c] = m /\ \A d \in Clients \ {c} : h'[d] = h[d]
  <2>. HIDE DEF m
  <2>. QED BY <1>1, <1>6, Others DEF Goes, IInv, Handling
<1>8. ASSUME NEW d \in Clients, h[d].cmd = "PROMOTE", h[d].name = n
      PROVE  Showing(h[d], thread')
  <2>1. Showing(h[d], thread)
    BY SomeFacts
  <2>. QED BY <2>1, <1>1, <1>8 DEF Showing
<1>9. ~thread[n].archived /\ Len(t.messages) <= MaxMessages
  BY <1>1, <1>4, NamesShape DEF NoThread
<1>. QED BY <1>1, <1>2, <1>4, <1>5, <1>7, <1>8, <1>9, ThreadBecomes

LEMMA ThreadCloseStep ==
  ASSUME IInv, NEW c \in Clients, NEW n \in Names, ThreadClose(c, n)
  PROVE  IInv' /\ CloseStep
<1>. DEFINE t == [thread[n] EXCEPT !.archived = TRUE]
            m == Handler("THREAD", "save", n, 0)
<1>1. /\ h[c] = Idle /\ thread' = [thread EXCEPT ![n] = t] /\ Goes(c, m)
      /\ UNCHANGED <<up, table, chan, created, joined, disk, rooms, crashes, saved, posts>>
  <2>1. thread' = [thread EXCEPT ![n].archived = TRUE]
    BY DEF ThreadClose
  <2>2. thread' = [thread EXCEPT ![n] = t]
    <3>. HIDE DEF ThreadType
    <3>. QED BY <2>1 DEF IInv, Talking
  <2>. HIDE DEF t
  <2>. QED BY <2>2 DEF ThreadClose, Ready, Goes
<1>2. posts' \in 0..MaxPosts
  BY <1>1 DEF IInv, Talking
<1>3. t \in ThreadType /\ t.messages = thread[n].messages /\ t # NoThread
  <2>1. t \in ThreadType /\ t.messages = thread[n].messages /\ t.archived = TRUE
    <3>. HIDE DEF Lists
    <3>. QED BY ThreadFacts DEF ThreadType
  <2>. HIDE DEF t
  <2>. QED BY <2>1 DEF NoThread
<1>4. m \in Tasks
  <2>1. "THREAD" \in Cmds /\ "save" \in Points /\ n \in AnyName /\ 0 \in 0..MaxObjs
    BY NamesShape DEF Cmds, Commands, Points, AnyName
  <2>. QED BY <2>1, HandlerOK
<1>. HIDE DEF t
<1>5. h' \in [Clients -> Tasks] /\ h'[c] = m /\ \A d \in Clients \ {c} : h'[d] = h[d]
  <2>. HIDE DEF m
  <2>. QED BY <1>1, <1>4, Others DEF Goes, IInv, Handling
<1>6. ASSUME NEW d \in Clients, h[d].cmd = "PROMOTE", h[d].name = n
      PROVE  Showing(h[d], thread')
  <2>1. Showing(h[d], thread)
    BY SomeFacts
  <2>2. thread'[n] = t
    BY <1>1 DEF IInv, Talking
  <2>. QED BY <2>1, <2>2, <1>3, <1>6 DEF Showing
<1>. HIDE DEF m
<1>7. \A d \in Clients \ {c} :
        /\ h'[d] = h[d] \/ (h[d].cmd = "PROMOTE" /\ Shaped(h'[d], created))
        /\ h'[d].cmd = h[d].cmd /\ h'[d].at = h[d].at /\ h'[d].name = h[d].name
        /\ h[d].cmd = "PROMOTE" /\ h[d].name = n => Showing(h'[d], thread')
        /\ h[d].cmd = "PROMOTE" /\ h[d].name # n => h'[d] = h[d]
  BY <1>5, <1>6
<1>8. h'[c] = Handler("THREAD", "save", n, 0) /\ Len(t.messages) <= MaxMessages
  BY <1>3, <1>5 DEF m, IInv, Talking
<1>. QED BY <1>1, <1>2, <1>3, <1>5, <1>7, <1>8, ThreadBecomes

LEMMA ThreadReplyStep ==
  ASSUME IInv, NEW c \in Clients, NEW n \in Names, ThreadReply(c, n)
  PROVE  IInv' /\ CloseStep
<1>. DEFINE e == Message(c)
            old == thread[n].messages
            longer == Append(old, e)
            overflow == Len(longer) > MaxMessages
            kept == IF overflow THEN Tail(longer) ELSE longer
            t == [thread[n] EXCEPT !.messages = kept]
            m == Handler("THREAD", "save", n, 0)
<1>1. /\ h[c] = Idle /\ ~thread[n].archived /\ posts < MaxPosts /\ posts' = posts + 1
      /\ h' = [Overtaken(n, e, overflow) EXCEPT ![c] = m]
      /\ thread' = [thread EXCEPT ![n] = t]
      /\ UNCHANGED <<up, table, chan, created, joined, disk, rooms, crashes, saved>>
  <2>1. thread' = [thread EXCEPT ![n].messages = kept]
    BY DEF ThreadReply
  <2>2. thread' = [thread EXCEPT ![n] = t]
    <3>. HIDE DEF ThreadType, kept
    <3>. QED BY <2>1 DEF IInv, Talking
  <2>3. h' = [Overtaken(n, e, overflow) EXCEPT ![c] = m]
    BY DEF ThreadReply
  <2>. HIDE DEF t, m, overflow, e
  <2>. QED BY <2>2, <2>3 DEF ThreadReply, Ready, Accessible
<1>2. e \in Messages /\ e.id \in 1..MaxPosts /\ posts' \in 0..MaxPosts
  BY <1>1, NamesShape DEF Message, Messages, IInv, Talking
<1>3. old \in Lists /\ Len(old) \in Nat /\ DOMAIN old = 1..Len(old) /\ thread[n] \in ThreadType
  BY ThreadFacts, LenProperties DEF Lists
<1>. HIDE DEF e, old
<1>4. /\ longer \in Lists /\ longer # <<>> /\ Len(longer) = Len(old) + 1
      /\ \A i \in 1..Len(old) : longer[i] = old[i]
      /\ longer[Len(old) + 1] = e
      /\ DOMAIN longer = 1..Len(longer)
  BY <1>2, <1>3, AppendProperties, LenProperties DEF Lists
<1>. HIDE DEF longer
<1>5. Ids(longer) = Ids(old) \cup {e.id}
  <2>1. DOMAIN longer = DOMAIN old \cup {Len(old) + 1} /\ DOMAIN old \subseteq 1..Len(old)
    BY <1>3, <1>4
  <2>. QED BY <2>1, <1>3, <1>4 DEF Ids
<1>6. /\ Tail(longer) \in Lists /\ Len(Tail(longer)) = Len(longer) - 1
      /\ DOMAIN Tail(longer) = 1..Len(Tail(longer))
      /\ \A i \in 1..Len(Tail(longer)) : Tail(longer)[i] = longer[i + 1]
  BY <1>4, HeadTailProperties, LenProperties DEF Lists
<1>7. Ids(Tail(longer)) \subseteq Ids(longer)
  <2>1. \A i \in DOMAIN Tail(longer) : i + 1 \in DOMAIN longer
    BY <1>3, <1>4, <1>6
  <2>. QED BY <2>1, <1>6 DEF Ids
<1>8. /\ kept \in Lists /\ Len(kept) \in Nat /\ Len(kept) # 0 /\ Ids(kept) \subseteq Ids(longer)
      /\ DOMAIN kept = 1..Len(kept)
  <2>1. CASE overflow
    <3>1. Len(longer) > 1
      BY <2>1, <1>3, <1>4, NamesShape
    <3>. QED BY <2>1, <3>1, <1>3, <1>4, <1>6, <1>7
  <2>2. CASE ~overflow
    BY <2>2, <1>3, <1>4
  <2>. QED BY <2>1, <2>2
<1>9. (~overflow => kept = longer) /\ Len(kept) <= MaxMessages
  <2>1. Len(old) <= MaxMessages
    BY DEF IInv, Talking, old
  <2>. QED BY <2>1, <1>3, <1>4, <1>6, NamesShape
<1>. HIDE DEF kept
<1>10. t \in ThreadType /\ t.messages = kept
  <2>. HIDE DEF Lists
  <2>. QED BY <1>3, <1>8 DEF ThreadType
<1>11. t # NoThread
  <2>1. NoThread.messages = <<>> /\ Len(<<>>) = 0
    BY EmptySeq DEF NoThread
  <2>. HIDE DEF t
  <2>. QED BY <2>1, <1>8, <1>10
<1>. HIDE DEF t
<1>12. m \in Tasks
  <2>1. "THREAD" \in Cmds /\ "save" \in Points /\ n \in AnyName /\ 0 \in 0..MaxObjs
    BY NamesShape DEF Cmds, Commands, Points, AnyName
  <2>. QED BY <2>1, HandlerOK
<1>. DEFINE after(d) == IF ~Walking(d, n) THEN h[d]
                        ELSE IF h[d].snap # <<>> THEN [h[d] EXCEPT !.late = h[d].late \cup {e.id}]
                        ELSE IF overflow THEN [h[d] EXCEPT !.snap = longer]
                        ELSE h[d]
<1>. HIDE DEF overflow, m
<1>13. h'[c] = m /\ \A d \in Clients \ {c} : h'[d] = after(d)
  <2>1. Overtaken(n, e, overflow) = [d \in Clients |-> after(d)]
    BY DEF Overtaken, longer, old
  <2>. HIDE DEF after
  <2>. QED BY <1>1, <2>1
<1>14. thread'[n] = t
  BY <1>1 DEF IInv, Talking
<1>15. ASSUME NEW d \in Clients
       PROVE  /\ after(d) \in Tasks
              /\ after(d) = h[d] \/ (h[d].cmd = "PROMOTE" /\ Shaped(after(d), created))
              /\ after(d).cmd = h[d].cmd /\ after(d).at = h[d].at /\ after(d).name = h[d].name
              /\ h[d].cmd = "PROMOTE" /\ h[d].name = n => Showing(after(d), thread')
              /\ h[d].cmd = "PROMOTE" /\ h[d].name # n => after(d) = h[d]
  <2>1. h[d] \in Tasks /\ Shaped(h[d], created) /\ Showing(h[d], thread)
    BY SomeFacts
  <2>2. CASE ~Walking(d, n)
    <3>1. after(d) = h[d]
      BY <2>2
    <3>2. ASSUME h[d].cmd = "PROMOTE", h[d].name = n, h[d].at \in {"joins", "replay"}
          PROVE  Showing(h[d], thread')
      <4>1. h[d].at = "joins"
        BY <2>2, <3>2 DEF Walking
      <4>2. h[d].pos = 0 /\ h[d].snap = <<>>
        BY <2>1, <3>2, <4>1 DEF Showing
      <4>3. Shows(h[d], kept)
        BY <4>2, <1>8 DEF Shows
      <4>. QED BY <3>2, <4>1, <4>2, <4>3, <1>10, <1>11, <1>14 DEF Showing
    <3>3. h[d].at \notin {"joins", "replay"} => Showing(h[d], thread')
      BY DEF Showing
    <3>. QED BY <2>1, <3>1, <3>2, <3>3
  <2>3. CASE Walking(d, n)
    <3>1. h[d].cmd = "PROMOTE" /\ h[d].at = "replay" /\ h[d].name = n
      BY <2>3 DEF Walking
    <3>2. h[d].pos \in Nat /\ h[d].late \in Posts /\ h[d].snap \in Lists
      <4>. HIDE DEF Lists, Posts
      <4>. QED BY <2>1 DEF Tasks
    <3>3. CASE h[d].snap # <<>>
      <4>. DEFINE late == h[d].late \cup {e.id}
                  k == [h[d] EXCEPT !.late = late]
      <4>1. late \in Posts
        BY <3>2, <1>2 DEF Posts
      <4>. HIDE DEF late
      <4>2. /\ k \in Tasks /\ k.cmd = h[d].cmd /\ k.at = h[d].at /\ k.name = h[d].name
            /\ k.snap = h[d].snap /\ k.pos = h[d].pos /\ k.shown = h[d].shown /\ k.late = late
        <5>. HIDE DEF Lists, Posts
        <5>. QED BY <2>1, <4>1 DEF Tasks
      <4>3. after(d) = k
        BY <2>3, <3>3 DEF late
      <4>. HIDE DEF k, after
      <4>4. Shaped(k, created)
        BY <2>1, <3>1, <4>2 DEF Shaped, RoomCmds
      <4>5. Shows(k, k.snap) /\ Ids(old) \subseteq Ids(k.snap) \cup h[d].late
        BY <2>1, <3>1, <3>3, <4>2 DEF Showing, Shows, old
      <4>6. Ids(kept) \subseteq Ids(k.snap) \cup k.late
        BY <4>2, <4>5, <1>5, <1>8 DEF late
      <4>7. Showing(k, thread')
        BY <3>1, <3>3, <4>2, <4>5, <4>6, <1>10, <1>11, <1>14 DEF Showing
      <4>. QED BY <3>1, <4>2, <4>3, <4>4, <4>7
    <3>4. CASE h[d].snap = <<>>
      <4>1. Shows(h[d], old)
        BY <2>1, <3>1, <3>4 DEF Showing, old
      <4>2. /\ h[d].pos <= Len(longer)
            /\ \A i \in DOMAIN longer : i <= h[d].pos => longer[i].id \in h[d].shown
        <5>1. \A i \in DOMAIN longer : i <= h[d].pos => i \in 1..Len(old)
          BY <4>1, <3>2, <1>3, <1>4 DEF Shows
        <5>. QED BY <4>1, <5>1, <3>2, <1>3, <1>4 DEF Shows
      <4>3. CASE overflow
        <5>. DEFINE k == [h[d] EXCEPT !.snap = longer]
        <5>1. /\ k \in Tasks /\ k.cmd = h[d].cmd /\ k.at = h[d].at /\ k.name = h[d].name
              /\ k.snap = longer /\ k.pos = h[d].pos /\ k.shown = h[d].shown
          <6>. HIDE DEF Lists, Posts
          <6>. QED BY <2>1, <1>4 DEF Tasks
        <5>2. after(d) = k
          BY <2>3, <3>4, <4>3
        <5>. HIDE DEF k, after
        <5>3. Shaped(k, created)
          BY <2>1, <3>1, <5>1 DEF Shaped, RoomCmds
        <5>4. Shows(k, k.snap)
          BY <4>2, <5>1 DEF Shows
        <5>5. Showing(k, thread')
          BY <3>1, <5>1, <5>4, <1>4, <1>8, <1>10, <1>11, <1>14 DEF Showing
        <5>. QED BY <3>1, <5>1, <5>2, <5>3, <5>5
      <4>4. CASE ~overflow
        <5>1. after(d) = h[d]
          BY <2>3, <3>4, <4>4
        <5>. HIDE DEF after
        <5>2. Shows(h[d], kept)
          BY <4>2, <4>4, <1>9 DEF Shows
        <5>3. Showing(h[d], thread')
          BY <3>1, <3>4, <5>2, <1>10, <1>11, <1>14 DEF Showing
        <5>. QED BY <2>1, <3>1, <5>1, <5>3
      <4>. QED BY <4>3, <4>4
    <3>. QED BY <3>3, <3>4
  <2>. QED BY <2>2, <2>3
<1>. HIDE DEF after
<1>16. h' \in [Clients -> Tasks]
  <2>1. h' = [d \in Clients |-> h'[d]]
    BY <1>1 DEF Overtaken
  <2>. QED BY <2>1, <1>12, <1>13, <1>15
<1>17. \A d \in Clients \ {c} :
         /\ h'[d] = h[d] \/ (h[d].cmd = "PROMOTE" /\ Shaped(h'[d], created))
         /\ h'[d].cmd = h[d].cmd /\ h'[d].at = h[d].at /\ h'[d].name = h[d].name
         /\ h[d].cmd = "PROMOTE" /\ h[d].name = n => Showing(h'[d], thread')
         /\ h[d].cmd = "PROMOTE" /\ h[d].name # n => h'[d] = h[d]
  BY <1>13, <1>15
<1>18. h'[c] = Handler("THREAD", "save", n, 0)
  BY <1>13 DEF m
<1>. QED BY <1>1, <1>2, <1>9, <1>10, <1>11, <1>16, <1>17, <1>18, ThreadBecomes, ZenonT(60)

LEMMA PromoteStep ==
  ASSUME IInv, NEW c \in Clients, NEW n \in Names, Promote(c, n)
  PROVE  IInv' /\ CloseStep
<1>. DEFINE b == BreakoutName
            o == Found(b)
            ch == Ensured(b)[o]
            new == (Participants(thread[n]) \cap up) \ ch.members
            ops == IF ch.members = {} /\ new # {} THEN ch.ops \cup {CHOOSE d \in new : TRUE} ELSE ch.ops
            x == [ch EXCEPT !.members = ch.members \cup new, !.ops = ops, !.parent = n]
            k == Handler("PROMOTE", "joins", n, 0)
            m == [k EXCEPT !.to = b]
<1>1. /\ Creates(b) /\ b \in Names /\ h[c] = Idle /\ Goes(c, m) /\ thread[n] # NoThread
      /\ joined' = [d \in Clients |-> IF d \in new THEN joined[d] \cup {o} ELSE joined[d]]
      /\ UNCHANGED <<up, disk, rooms, crashes, thread, saved, posts>>
  <2>1. b \in Names
    BY BreakoutAssumption, NamesShape DEF BreakoutName
  <2>2. joined' = [d \in Clients |-> IF d \in new THEN joined[d] \cup {o} ELSE joined[d]]
    BY DEF Promote
  <2>3. Goes(c, m)
    BY DEF Promote, Goes
  <2>. HIDE DEF b, new, o, m
  <2>4. Creates(b)
    BY DEF Promote, b
  <2>. QED BY <2>1, <2>2, <2>3, <2>4 DEF Promote, Ready, Accessible, threadVars
<1>2. o \in Objs /\ created' \in Nat /\ created <= created' /\ rooms < created'
      /\ o <= created' /\ o >= 1
  <2>1. created \in Nat /\ rooms \in Nat /\ rooms < created /\ \A q \in Names : table[q] \in 0..created
    BY SomeFacts DEF IInv, Tables
  <2>2. CASE table[b] # 0
    BY <1>1, <2>1, <2>2, SomeFacts DEF Creates, Found
  <2>3. CASE table[b] = 0
    BY <1>1, <2>1, <2>3, NamesShape DEF Creates, Found, Objs
  <2>. QED BY <2>2, <2>3
<1>3. Ensured(b) \in [Objs -> ChannelType]
  <2>1. Blank(b) \in ChannelType
    BY <1>1, BlankOK DEF AnyName
  <2>2. created + 1 \in Objs \/ table[b] # 0
    BY <1>1, SomeFacts, NamesShape DEF Creates, Objs
  <2>. QED BY <2>1, <2>2 DEF Ensured, IInv, Tables
<1>4. /\ table[b] # 0 => ch = chan[o]
      /\ table[b] = 0 => ch = Blank(b)
  BY <1>2 DEF Ensured, Found, IInv, Tables
<1>5. ch \in ChannelType /\ Fit(ch)
  BY <1>1, <1>2, <1>4, BlankOK DEF IInv, Tables, AnyName
<1>6. chan' = [Ensured(b) EXCEPT ![o] = x]
  <2>1. chan' = [Ensured(b) EXCEPT
                       ![o].members = @ \cup new,
                       ![o].ops = IF ch.members = {} /\ new # {}
                                  THEN @ \cup {CHOOSE d \in new : TRUE} ELSE @,
                       ![o].parent = n]
    BY DEF Promote
  <2>2. ch.ops = Ensured(b)[o].ops /\ ch.members = Ensured(b)[o].members
    OBVIOUS
  <2>. DEFINE E == Ensured(b)
              pick == {CHOOSE d \in new : TRUE}
              first == ch.members = {} /\ new # {}
  <2>3. E \in [Objs -> ChannelType] /\ ch = E[o] /\ o \in Objs
        /\ chan' = [E EXCEPT ![o].members = @ \cup new,
                             ![o].ops = IF first THEN @ \cup pick ELSE @, ![o].parent = n]
        /\ x = [ch EXCEPT !.members = ch.members \cup new,
                          !.ops = IF first THEN ch.ops \cup pick ELSE ch.ops, !.parent = n]
    BY <1>2, <1>3, <2>1
  <2>. HIDE DEF x, ch, o, b, E, pick, first, new
  <2>4. chan' = [E EXCEPT ![o] = x]
    BY <2>3
  <2>. QED BY <2>4 DEF E
<1>7. new \in SUBSET Clients /\ new \subseteq up
  BY DEF IInv, Tables
<1>8. ops \in SUBSET Clients /\ ops \subseteq ch.members \cup new
      /\ (ch.members \cup new # {} => ops # {}) /\ ch.members \cup new \in SUBSET Clients
  <2>1. ch.members \in SUBSET Clients /\ ch.ops \in SUBSET Clients /\ ch.ops \subseteq ch.members
        /\ (ch.members # {} => ch.ops # {})
    BY <1>5 DEF ChannelType, Fit
  <2>2. new # {} => (CHOOSE d \in new : TRUE) \in new
    OBVIOUS
  <2>. HIDE DEF new, ch
  <2>. QED BY <1>7, <2>1, <2>2
<1>9. /\ x \in ChannelType /\ Fit(x) /\ SameFile(ch, x) /\ x.name = ch.name
      /\ x.members = ch.members \cup new
  <2>. HIDE DEF ch, new, ops, o, b
  <2>. QED BY <1>5, <1>8 DEF ChannelType, Fit, SameFile
<1>10. joined' \in [Clients -> SUBSET Objs]
       /\ \A d \in Clients : joined'[d] = IF d \in new THEN joined[d] \cup {o} ELSE joined[d]
  <2>. HIDE DEF o, new
  <2>. QED BY <1>1, <1>2 DEF IInv, Tables
<1>. HIDE DEF x, new
<1>11. /\ Tables' /\ Entries' /\ created' >= created /\ chan'[o] = x
       /\ \A q \in Objs \ {o} : chan'[q] = chan[q]
       /\ \A q : ChansStay(q)
  <2>1. Tables /\ Entries /\ Numbered /\ up' \subseteq Clients /\ rooms' \in Nat /\ rooms' < created'
    BY <1>1, <1>2 DEF IInv, Tables
  <2>. HIDE DEF b
  <2>2. /\ SameFile(Ensured(b)[Found(b)], x) /\ x.name = Ensured(b)[Found(b)].name
        /\ chan' = [Ensured(b) EXCEPT ![Found(b)] = x]
    BY <1>6, <1>9
  <2>. QED BY <2>1, <2>2, <1>1, <1>9, <1>10, FoundChannel
<1>12. k \in Tasks /\ k.cmd = "PROMOTE" /\ k.at = "joins" /\ k.name = n /\ k.snap = <<>> /\ k.pos = 0
  <2>1. "PROMOTE" \in Cmds /\ "joins" \in Points /\ n \in AnyName /\ 0 \in 0..MaxObjs
    BY NamesShape DEF Cmds, Commands, Points, AnyName
  <2>. QED BY <2>1, HandlerOK
<1>. HIDE DEF k, ch, o, b
<1>13. m \in Tasks /\ m.cmd = "PROMOTE" /\ m.at = "joins" /\ m.name = n /\ m.snap = <<>> /\ m.pos = 0
  <2>1. b \in AnyName
    BY <1>1 DEF AnyName
  <2>. HIDE DEF Lists
  <2>. QED BY <2>1, <1>12 DEF Tasks
<1>. HIDE DEF m
<1>14. Shaped(m, created') /\ Rooming(m, chan') /\ ~Dirty(h[c]) /\ m.cmd \in TalkCmds
       /\ h[c].cmd \notin TalkCmds
  BY <1>1, <1>13, IdleOK, IdleShaped DEF Shaped, Rooming, RoomCmds, TalkCmds, None
<1>15. Handling' /\ Numbered' /\ Kept'
  BY <1>1, <1>2, <1>11, <1>13, <1>14, HandlingMoves, RoomsMove DEF IInv
<1>16. Showing(m, thread)
  <2>1. Shows(m, thread[n].messages)
    BY <1>13, ThreadFacts DEF Shows
  <2>. QED BY <2>1, <1>1, <1>13 DEF Showing
<1>17. Talking' /\ CloseStep
  BY <1>1, <1>13, <1>14, <1>16, TalkGoes
<1>18. MembersKnow'
  <2>1. \A d \in Clients : Parts(h[d]) => Parts(h'[d]) /\ h'[d].obj = h[d].obj
    BY <1>1, Others, IdleShaped DEF IInv
  <2>2. ASSUME NEW d \in up', NEW q \in Objs, d \in chan'[q].members, q \notin joined'[d]
        PROVE  d \in up /\ d \in chan[q].members /\ q \notin joined[d]
    <3>1. d \in up /\ d \in Clients /\ q \notin joined[d] /\ (d \in new => q # o)
      BY <1>1, <1>10, <2>2 DEF IInv, Tables
    <3>2. CASE q # o
      BY <3>1, <3>2, <1>11, <2>2
    <3>3. CASE q = o
      <4>1. d \in ch.members
        BY <3>1, <3>3, <2>2, <1>9, <1>11
      <4>2. table[b] # 0
        BY <4>1, <1>1, <1>4, BlankOK DEF AnyName
      <4>. QED BY <3>1, <3>3, <4>1, <4>2, <1>4
    <3>. QED BY <3>2, <3>3
  <2>. QED BY <2>1, <2>2, KnowStays DEF IInv
<1>. QED BY <1>11, <1>15, <1>17, <1>18 DEF IInv

-----------------------------------------------------------------------------
(* The server dies and comes back. *)

LEMMA RestartStep ==
  ASSUME IInv, ThreadRestart
  PROVE  IInv' /\ CloseStep
<1>. DEFINE kept(o) == [Blank(disk[o - 1].name) EXCEPT
                          !.room = o - 1, !.owner = disk[o - 1].owner,
                          !.persistent = disk[o - 1].persistent, !.archived = disk[o - 1].archived]
            system == [Blank(<<System, 0>>) EXCEPT !.persistent = TRUE]
<1>1. /\ rooms \in Nat /\ rooms < MaxObjs /\ crashes' = crashes + 1 /\ up' = Clients
      /\ joined' = [c \in Clients |-> {}] /\ h' = [c \in Clients |-> Idle] /\ created' = rooms + 1
      /\ thread' = saved /\ UNCHANGED <<disk, rooms, saved, posts>>
      /\ <<System, 0>> \in Names /\ crashes \in Nat /\ MaxObjs \in Nat
  BY NamesShape, SystemAssumption DEF ThreadRestart, Restart, IInv, Tables, Talking
<1>2. \A o \in Objs :
        /\ o = 1 => chan'[o] = system
        /\ o # 1 /\ o <= rooms + 1 /\ disk[o - 1] # NoFile => chan'[o] = kept(o)
        /\ o # 1 /\ ~(o <= rooms + 1 /\ disk[o - 1] # NoFile) => chan'[o] = Blank(NoName)
  BY DEF ThreadRestart, Restart
<1>3. \A o \in Objs : o # 1 => o - 1 \in Rooms
  BY <1>1 DEF Objs, Rooms
<1>4. \A r \in Rooms : disk[r] \in Files
  BY DEF IInv, Tables
<1>5. ASSUME NEW o \in Objs, o # 1
      PROVE  /\ kept(o) \in ChannelType /\ kept(o).members = {} /\ kept(o).ops = {}
             /\ kept(o).name = disk[o - 1].name /\ kept(o).room = o - 1 /\ kept(o).owner = disk[o - 1].owner
  <2>. DEFINE f == disk[o - 1]
              base == Blank(f.name)
  <2>1. f \in Files /\ o - 1 \in 0..MaxObjs
    BY <1>3, <1>4, <1>5, <1>1 DEF Rooms
  <2>2. f.name \in AnyName
    BY <2>1 DEF Files
  <2>3. base \in ChannelType /\ base.members = {} /\ base.ops = {} /\ base.name = f.name
    BY <2>2, BlankOK DEF Blank
  <2>. HIDE DEF f, base
  <2>4. kept(o) = [base EXCEPT !.room = o - 1, !.owner = f.owner,
                               !.persistent = f.persistent, !.archived = f.archived]
    BY DEF base, f
  <2>. HIDE DEF kept
  <2>5. /\ kept(o) \in ChannelType /\ kept(o).members = {} /\ kept(o).ops = {}
        /\ kept(o).name = f.name /\ kept(o).room = o - 1 /\ kept(o).owner = f.owner
    BY <2>1, <2>3, <2>4 DEF ChannelType, Files
  <2>. QED BY <2>5 DEF f
<1>6. /\ system \in ChannelType /\ system.members = {} /\ system.ops = {} /\ system.room = 0
      /\ system.name = <<System, 0>>
  <2>. DEFINE base == Blank(<<System, 0>>)
  <2>1. base \in ChannelType /\ base.members = {} /\ base.ops = {} /\ base.room = 0
        /\ base.name = <<System, 0>>
    BY <1>1, BlankOK DEF AnyName, Blank
  <2>. HIDE DEF base
  <2>2. system = [base EXCEPT !.persistent = TRUE]
    BY DEF base
  <2>. HIDE DEF system
  <2>. QED BY <2>1, <2>2 DEF ChannelType
<1>7. LET e == Blank(NoName)
      IN  e \in ChannelType /\ e.members = {} /\ e.ops = {} /\ e.room = 0
  BY BlankOK DEF AnyName, Blank
<1>. HIDE DEF kept, system
<1>8. \A o \in Objs : /\ chan'[o] \in ChannelType /\ chan'[o].members = {} /\ chan'[o].ops = {}
                      /\ chan'[o].room # 0 => /\ o # 1 /\ o <= rooms + 1 /\ chan'[o].room = o - 1
                                              /\ chan'[o] = kept(o)
  BY <1>2, <1>5, <1>6, <1>7
<1>9. Tables'
  <2>1. chan' = [o \in Objs |-> chan'[o]]
    BY DEF ThreadRestart, Restart
  <2>2. chan' \in [Objs -> ChannelType] /\ \A o \in Objs : Fit(chan'[o])
    BY <2>1, <1>8 DEF Fit
  <2>3. joined' \in [Clients -> SUBSET Objs] /\ created' \in Objs /\ rooms' < created'
    BY <1>1 DEF Objs
  <2>. QED BY <2>2, <2>3, <1>1 DEF IInv, Tables
<1>10. Entries'
  <2>1. ASSUME NEW n \in Names
        PROVE  /\ table'[n] \in 0..created'
               /\ table'[n] # 0 => AtHome(n, chan'[table'[n]].name)
    <3>1. \A k \in Names : AtHome(k, k)
      BY NamesShape DEF AtHome
    <3>2. CASE n = <<System, 0>>
      <4>1. table'[n] = 1
        BY <3>2 DEF ThreadRestart, Restart
      <4>2. 1 \in Objs
        BY <1>1 DEF Objs
      <4>. QED BY <4>1, <4>2, <3>1, <3>2, <1>1, <1>2, <1>6
    <3>3. CASE n # <<System, 0>> /\ \E r \in Rooms : Latest(r) /\ disk[r].name = n
      <4>1. PICK r \in Rooms : Latest(r) /\ disk[r].name = n /\ table'[n] = 1 + r
        BY <3>3 DEF ThreadRestart, Restart
      <4>2. r \in Nat /\ r # 0 /\ r <= rooms /\ disk[r] # NoFile
        BY <4>1, <1>1 DEF Latest, Rooms, IInv, Numbered
      <4>3. 1 + r \in Objs /\ 1 + r # 1 /\ 1 + r <= rooms + 1 /\ (1 + r) - 1 = r
        BY <4>2, <1>1 DEF Objs
      <4>4. chan'[1 + r] = kept(1 + r) /\ kept(1 + r).name = n
        <5>1. disk[(1 + r) - 1] # NoFile /\ disk[(1 + r) - 1].name = n
          BY <4>1, <4>2, <4>3
        <5>. QED BY <5>1, <4>3, <1>2, <1>5
      <4>5. AtHome(n, chan'[table'[n]].name)
        BY <4>1, <4>4, <3>1
      <4>. QED BY <4>1, <4>3, <4>5, <1>1, <4>2
    <3>4. CASE n # <<System, 0>> /\ ~\E r \in Rooms : Latest(r) /\ disk[r].name = n
      <4>1. table'[n] = 0
        BY <3>4 DEF ThreadRestart, Restart
      <4>. QED BY <4>1, <1>1
    <3>. QED BY <3>2, <3>3, <3>4
  <2>2. table' = [n \in Names |-> table'[n]]
    BY DEF ThreadRestart, Restart
  <2>3. 0..created' \subseteq 0..MaxObjs /\ \A i \in 0..created' : i <= created'
    BY <1>1
  <2>4. table' \in [Names -> 0..MaxObjs]
    BY <2>1, <2>2, <2>3
  <2>. QED BY <2>1, <2>3, <2>4 DEF Entries
<1>11. \A c \in Clients : h'[c] = Idle
  BY <1>1
<1>12. Handling'
  BY <1>1, <1>11, IdleOK, IdleShaped DEF Handling
<1>13. Numbered'
  <2>1. \A o \in Objs : chan'[o].room <= rooms'
    BY <1>1, <1>8, <1>3 DEF Objs
  <2>2. \A o, q \in Objs : chan'[o].room = chan'[q].room /\ chan'[o].room # 0 => o = q
    BY <1>8 DEF Objs
  <2>3. \A o \in Objs : o > created' => chan'[o].room = 0
    BY <1>1, <1>8 DEF Objs
  <2>. QED BY <2>1, <2>2, <2>3, <1>1 DEF IInv, Numbered
<1>14. Kept'
  BY <1>1, <1>5, <1>8 DEF Kept, Filed
<1>15. MembersKnow'
  BY <1>8 DEF MembersKnow
<1>16. Talking'
  BY <1>1, <1>11, IdleShaped DEF IInv, Talking
<1>17. CloseStep
  BY <1>1, <1>11, IdleOK DEF CloseStep, None
<1>. QED BY <1>9, <1>10, <1>12, <1>13, <1>14, <1>15, <1>16, <1>17 DEF IInv

-----------------------------------------------------------------------------
(* The theorems. *)

LEMMA InitIInv == Init => IInv
<1>. SUFFICES ASSUME Init PROVE IInv
  OBVIOUS
<1>. DEFINE system == [Blank(<<System, 0>>) EXCEPT !.persistent = TRUE]
<1>1. /\ up = Clients /\ created = 1 /\ joined = [c \in Clients |-> {}] /\ h = [c \in Clients |-> Idle]
      /\ disk = [r \in Rooms |-> NoFile] /\ rooms = 0 /\ crashes = 0 /\ posts = 0
      /\ table = [n \in Names |-> IF n = <<System, 0>> THEN 1 ELSE 0]
      /\ chan = [o \in Objs |-> IF o = 1 THEN system ELSE Blank(NoName)]
      /\ thread = [n \in Names |-> NoThread] /\ saved = [n \in Names |-> NoThread]
  BY DEF Init, ChanInit
<1>2. <<System, 0>> \in Names /\ MaxObjs \in Nat \ {0} /\ 1 \in Objs /\ MaxMessages \in Nat
      /\ MaxPosts \in Nat
  BY NamesShape, SystemAssumption DEF Objs
<1>3. /\ system \in ChannelType /\ Fit(system) /\ system.members = {} /\ system.room = 0
      /\ system.name = <<System, 0>>
  <2>. DEFINE base == Blank(<<System, 0>>)
  <2>1. base \in ChannelType /\ base.members = {} /\ base.ops = {} /\ base.room = 0
        /\ base.name = <<System, 0>>
    BY <1>2, BlankOK DEF AnyName, Blank
  <2>. HIDE DEF base
  <2>2. system = [base EXCEPT !.persistent = TRUE]
    BY DEF base
  <2>. HIDE DEF system
  <2>. QED BY <2>1, <2>2 DEF ChannelType, Fit
<1>. HIDE DEF system
<1>4. \A o \in Objs : /\ chan[o] \in ChannelType /\ Fit(chan[o]) /\ chan[o].members = {}
                      /\ chan[o].room = 0
  BY <1>1, <1>3, BlankOK DEF AnyName
<1>5. Tables
  <2>1. NoFile \in Files
    BY DEF NoFile, Files, AnyName
  <2>. QED BY <1>1, <1>2, <1>4, <2>1 DEF Tables
<1>6. Entries
  <2>1. \A n \in Names : table[n] # 0 => n = <<System, 0>> /\ table[n] = 1 /\ chan[1].name = n
    BY <1>1, <1>2, <1>3
  <2>2. table \in [Names -> 0..MaxObjs] /\ \A n \in Names : table[n] <= created
    BY <1>1, <1>2
  <2>3. AtHome(<<System, 0>>, <<System, 0>>)
    BY DEF AtHome
  <2>. QED BY <2>1, <2>2, <2>3 DEF Entries
<1>7. Handling
  BY <1>1, IdleOK, IdleShaped DEF Handling
<1>8. Numbered /\ Kept
  BY <1>1, <1>4 DEF Numbered, Kept
<1>9. MembersKnow
  BY <1>4 DEF MembersKnow
<1>10. Talking
  <2>1. Len(NoThread.messages) = 0
    BY EmptySeq DEF NoThread
  <2>. QED BY <2>1, <1>1, <1>2, IdleShaped, NoThreadOK DEF Talking
<1>. QED BY <1>5, <1>6, <1>7, <1>8, <1>9, <1>10 DEF IInv

LEMMA NextIInv == IInv /\ [Next]_vars => IInv' /\ [CloseStep]_vars
<1>. SUFFICES ASSUME IInv, [Next]_vars PROVE IInv' /\ [CloseStep]_vars
  OBVIOUS
<1>1. CASE UNCHANGED vars
  BY <1>1 DEF vars, chanVars, threadVars, IInv, Tables, Entries, Handling, Numbered, Kept, InHand,
              Filed, MembersKnow, Archiving, Talking, ThreadBusy
<1>2. CASE ThreadRestart
  BY <1>2, RestartStep
<1>3. ASSUME NEW c \in Clients, Handlers(c), UNCHANGED threadVars PROVE IInv' /\ CloseStep
  BY <1>3, SurfaceStep, JoinEndStep, PartEndStep, RoomCreateJoinStep, RoomSaveStep, RoomKickEndStep,
     RoomArchiveNotifiedStep, RoomArchivePartStep DEF Handlers
<1>4. ASSUME NEW c \in Clients, Orders(c), UNCHANGED threadVars PROVE IInv' /\ CloseStep
  <2>1. CASE Quit(c) \/ Disconnect(c)
    BY <1>4, <2>1, QuitStep, DisconnectStep
  <2>2. ASSUME NEW n \in Names, Join(c, n) \/ Part(c, n) \/ ChanArchive(c, n) \/ RoomArchive(c, n)
        PROVE  IInv' /\ CloseStep
    BY <1>4, <2>2, JoinStep, PartStep, ChanArchiveStep, RoomArchiveStep
  <2>3. ASSUME NEW n \in Names, NEW t \in Clients, RoomKick(c, n, t) PROVE IInv' /\ CloseStep
    BY <1>4, <2>3, RoomKickStep
  <2>4. ASSUME NEW n \in Names, NEW t \in Clients, NEW b \in BOOLEAN,
               ModeOp(c, n, t, b) \/ RoomMeta(c, n, t, b)
        PROVE  IInv' /\ CloseStep
    BY <1>4, <2>4, ModeOpStep, RoomMetaStep
  <2>5. ASSUME NEW n \in Names, NEW b \in BOOLEAN, RoomCreate(c, n, b) PROVE IInv' /\ CloseStep
    BY <1>4, <2>5, RoomCreateStep
  <2>. QED BY <1>4, <2>1, <2>2, <2>3, <2>4, <2>5 DEF Orders
<1>5. ASSUME NEW c \in Clients, ThreadHandlers(c) PROVE IInv' /\ CloseStep
  BY <1>5, ThreadSaveStep, PromoteShowStep, PromoteEndStep DEF ThreadHandlers
<1>6. ASSUME NEW c \in Clients, ThreadOrders(c) PROVE IInv' /\ CloseStep
  BY <1>6, ThreadCreateStep, ThreadReplyStep, ThreadCloseStep, PromoteStep DEF ThreadOrders
<1>. QED BY <1>1, <1>2, <1>3, <1>4, <1>5, <1>6 DEF Next

LEMMA Invariant == Spec => []IInv /\ [][CloseStep]_vars
<1>1. IInv /\ [Next]_vars => IInv' /\ [CloseStep]_vars
  BY NextIInv
<1>. QED BY InitIInv, <1>1, PTL DEF Spec

LEMMA IInvGives == IInv => TypeOK /\ Led /\ MembersKnow /\ Saved
<1>. SUFFICES ASSUME IInv PROVE TypeOK /\ Led /\ Saved
  BY DEF IInv
<1>1. TypeOK
  <2>1. table \in [Names -> 0..created]
    BY SomeFacts DEF IInv, Entries
  <2>2. \A c \in Clients : h[c].obj \in 0..MaxObjs /\ h[c].todo \subseteq Clients /\ h[c].pos \in Nat
    BY SomeFacts DEF Tasks
  <2>3. \A n \in Names : Participants(thread[n]) \subseteq Clients
    BY ThreadFacts DEF Participants, Messages
  <2>4. rooms \in 0..MaxObjs
    BY SomeFacts, NamesShape DEF IInv, Tables
  <2>5. \A r \in Rooms : disk[r].name \in Names \cup {NoName}
    BY DEF IInv, Tables, Files, AnyName
  <2>. QED BY <2>1, <2>2, <2>3, <2>4, <2>5 DEF TypeOK, IInv, Tables, Talking
<1>2. Led
  BY DEF Led, IInv, Tables, Entries, AtHome, Fit
<1>3. Saved
  <2>1. ASSUME NEW n \in Names, table[n] # 0, chan[table[n]].room # 0, ~RoomBusy(table[n])
        PROVE  Filed(table[n])
    <3>1. table[n] \in Objs
      BY <2>1, SomeFacts
    <3>2. ~InHand(table[n])
      BY <2>1 DEF InHand, Dirty, RoomBusy, RoomCmds
    <3>. QED BY <2>1, <3>1, <3>2 DEF IInv, Kept
  <2>. QED BY <2>1 DEF Saved, Filed, IInv, Talking
<1>. QED BY <1>1, <1>2, <1>3

\* Whatever the handlers of the clients do to each other while they are suspended, every
\* table, file and reference of a handler keeps its shape, and no thread outgrows its limit.
THEOREM TypeCorrect == Spec => []TypeOK
BY Invariant, IInvGives, PTL

\* A plain name finds the channel of that name, and a channel with members has an operator
\* among them, after any joins, parts, kicks, promotions and archivings.
THEOREM ChannelsAreLed == Spec => []Led
BY Invariant, IInvGives, PTL

\* A connected client that a channel counts as a member knows of it, unless the channel is
\* about to drop all its members.
THEOREM MembersKnowTheirs == Spec => []MembersKnow
BY Invariant, IInvGives, PTL

\* What no command is at work on is on disk as it is in memory: the rooms with their names and
\* owners, and the threads.
THEOREM AllSaved == Spec => []Saved
BY Invariant, IInvGives, PTL

\* A closed thread takes no reply, and one that is closed by promotion has been shown whole.
THEOREM ClosedForGood == Spec => Closes
<1>1. CloseStep => /\ \A n \in Names :
                        thread[n].archived => thread'[n].messages = thread[n].messages \/ crashes' # crashes
                   /\ \A c \in Clients :
                        h[c].at = "replay" /\ h'[c].at = "save" =>
                          Ids(thread[h[c].name].messages) \subseteq h[c].shown \cup h[c].late
  BY DEF CloseStep
<1>. QED BY <1>1, Invariant, PTL DEF Closes

=============================================================================
