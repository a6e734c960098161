------------------------------ MODULE Channels ------------------------------
(***************************************************************************)
(* The channels and managed rooms of one server: who is in which, who      *)
(* operates them, under which name they are found, and what of them is on  *)
(* disk (culture/agentirc/client.py, channel.py, ircd.py, room_store.py,   *)
(* skills/rooms.py).                                                       *)
(*                                                                         *)
(* Each client's commands are handled by the task of its connection, one   *)
(* at a time; a handler may be suspended wherever it writes to a client,   *)
(* while the handlers of others run.  h[c] is the handler that c's task is *)
(* in, at the point where it is suspended.  A step here runs from one      *)
(* suspension to the next.  A handler that writes last and changes nothing *)
(* afterwards ends with its last change, since a write need not suspend.   *)
(*                                                                         *)
(* A Channel object outlives its entry in the server's table: handlers and *)
(* clients hold references to it.  Objects are numbered in the order they  *)
(* are created; table finds them by name.  The server's own virtual client *)
(* in #system never acts and is left out.                                  *)
(***************************************************************************)
EXTENDS Naturals, FiniteSets

CONSTANTS
  Clients,     \* nicks of local clients
  Bases,       \* channel names that users choose
  System,      \* SYSTEM_CHANNEL, one of them
  MaxGen,      \* bound: archive names -archived, -archived#2, ... of one name
  MaxObjs,     \* bound: Channel objects created
  Agendas,     \* bound: each says how often every command is given, besides a loss
  MaxCrashes   \* bound: times the server dies and comes back

ASSUME SystemAssumption  == System \in Bases
Commands == {"JOIN", "PART", "QUIT", "CHANARCHIVE", "MODE", "ROOMCREATE", "ROOMMETA",
             "ROOMKICK", "ROOMARCHIVE", "THREAD", "REPLY", "CLOSE", "PROMOTE", "hangup"}
ASSUME AgendasAssumption == Agendas \subseteq [Commands -> Nat]
ASSUME BoundsAssumption  == MaxGen \in Nat /\ MaxObjs \in Nat \ {0}
                            /\ MaxCrashes \in Nat

\* <<base, 0>> is the name base, <<base, k>> its k-th archive name.
Names == Bases \X (0..MaxGen)
Objs  == 1..MaxObjs
Rooms == 1..MaxObjs
None  == "none"
NoName == <<None, 0>>

VARIABLES
  up,       \* IRCd.clients: the nicks that are connected
  table,    \* IRCd.channels: table[n] is an object, 0 where n is no key
  chan,     \* chan[o]: the fields of Channel object o
  created,  \* how many Channel objects there have been
  joined,   \* joined[c]: Client.channels
  h,        \* h[c]: the handler in progress, and where it is suspended
  disk,     \* disk[r]: the file of room r, NoFile where there is none
  rooms,    \* how many room ids were generated
  agenda,   \* how often each command is still given
  crashes   \* how often the server died

chanVars == <<up, table, chan, created, joined, h, disk, rooms, agenda, crashes>>

Blank(n) == [name |-> n, members |-> {}, ops |-> {}, room |-> 0, owner |-> None,
             persistent |-> FALSE, archived |-> FALSE, parent |-> NoName]
NoFile   == [name |-> NoName, owner |-> None, persistent |-> FALSE, archived |-> FALSE]
SavedOf(ch) == [name |-> ch.name, owner |-> ch.owner,
                persistent |-> ch.persistent, archived |-> ch.archived]

\* cmd and at: the command and its suspension point; name, obj, who, to: what the
\* handler looked up before; todo: members still to be sent to; size: of the set
\* of members that is iterated over in place; pos, snap, shown, late: the replay
\* of a thread.
Idle == [cmd |-> None, at |-> None, name |-> NoName, obj |-> 0, who |-> None,
         to |-> NoName, todo |-> {}, size |-> 0, pos |-> 0, snap |-> <<>>,
         shown |-> {}, late |-> {}]

Handler(cmd, at, n, o) == [Idle EXCEPT !.cmd = cmd, !.at = at, !.name = n, !.obj = o]

ChanInit ==
  /\ up = Clients
  /\ table = [n \in Names |-> IF n = <<System, 0>> THEN 1 ELSE 0]
  /\ chan = [o \in Objs |-> IF o = 1 THEN [Blank(<<System, 0>>) EXCEPT !.persistent = TRUE]
                            ELSE Blank(NoName)]
  /\ created = 1
  /\ joined = [c \in Clients |-> {}]
  /\ h = [c \in Clients |-> Idle]
  /\ disk = [r \in Rooms |-> NoFile]
  /\ rooms = 0
  /\ agenda \in Agendas
  /\ crashes = 0

-----------------------------------------------------------------------------
(* Channel.add and Channel.remove.  The new operator is the least nick of   *)
(* those left, in an order that is not modelled.                            *)

WithMember(ch, c) ==
  [ch EXCEPT !.members = @ \cup {c},
             !.ops = IF ch.members = {} THEN @ \cup {c} ELSE @]

\* Seeded fault: an operator who leaves hands on to nobody.
WithoutMemberUnled(ch, c) == [ch EXCEPT !.members = @ \ {c}, !.ops = @ \ {c}]
WithoutMember(ch, c) ==
  LET left == ch.members \ {c}
      led  == ch.ops \ {c}
  IN  [ch EXCEPT !.members = left,
                 !.ops = IF c \in ch.ops /\ led = {} /\ left # {}
                         THEN {CHOOSE m \in left : TRUE} ELSE led]

\* get_or_create_channel: the object under a name, a new one if there is none.
Found(n) == IF table[n] # 0 THEN table[n] ELSE created + 1
Ensured(n) == IF table[n] # 0 THEN chan ELSE [chan EXCEPT ![created + 1] = Blank(n)]
Creates(n) ==
  /\ table[n] # 0 \/ created < MaxObjs
  /\ table' = [table EXCEPT ![n] = Found(n)]
  /\ created' = IF table[n] # 0 THEN created ELSE created + 1

Given(command) == agenda[command] > 0 /\ agenda' = [agenda EXCEPT ![command] = @ - 1]
Ready(c, command) == c \in up /\ h[c] = Idle /\ Given(command)

\* _remove_client: objects emptied for good lose their entry; an entry that is
\* missing ends the clean-up with a KeyError, wherever it had got to.
Emptied(c, ch, O) == {o \in O : ch[o].members \subseteq {c} /\ ~ch[o].persistent}
Detached(c, ch, O) == [o \in Objs |-> IF o \in O THEN WithoutMember(ch[o], c) ELSE ch[o]]
Removed(c, ch, tb, O) ==
  /\ \E D \in SUBSET O :
       LET gone == Emptied(c, ch, D)
           Twice(o) == \E p \in gone \ {o} : ch[p].name = ch[o].name
       IN  /\ \A o \in gone : tb[ch[o].name] # 0 /\ ~Twice(o)
           /\ table' = [n \in Names |-> IF \E o \in gone : ch[o].name = n THEN 0 ELSE tb[n]]
           /\ \/ D = O /\ chan' = Detached(c, ch, D)
              \/ \E f \in Emptied(c, ch, O \ D) :
                    /\ tb[ch[f].name] = 0 \/ Twice(f)
                    /\ chan' = Detached(c, ch, D \cup {f})
  /\ up' = up \ {c}
  /\ joined' = [joined EXCEPT ![c] = {}]
  /\ h' = [h EXCEPT ![c] = Idle]

-----------------------------------------------------------------------------
(* JOIN, PART, QUIT and the end of a connection.                            *)

\* Bound: nobody joins an archive name that there is no channel of.
Join(c, n) ==
  /\ Ready(c, "JOIN")
  /\ n[2] = 0 \/ table[n] # 0
  /\ table[n] # 0 => ~chan[table[n]].archived /\ c \notin chan[table[n]].members
  /\ Creates(n)
  /\ LET o == Found(n)
     IN  /\ chan' = [Ensured(n) EXCEPT ![o] = WithMember(@, c)]
         /\ joined' = [joined EXCEPT ![c] = @ \cup {o}]
         /\ h' = [h EXCEPT ![c] = Handler("JOIN", "notify", n, o)]
  /\ UNCHANGED <<up, disk, rooms, crashes>>

Part(c, n) ==
  /\ Ready(c, "PART")
  /\ table[n] # 0
  /\ c \in chan[table[n]].members
  /\ h' = [h EXCEPT ![c] = Handler("PART", "notify", n, table[n])]
  /\ UNCHANGED <<up, table, chan, created, joined, disk, rooms, crashes>>

Quit(c) ==
  /\ Ready(c, "QUIT")
  /\ h' = [h EXCEPT ![c] = Handler("QUIT", "notify", NoName, 0)]
  /\ UNCHANGED <<up, table, chan, created, joined, disk, rooms, crashes>>

\* emit_event, as far as _deliver_to_members, which iterates over the members of
\* #system in place.
Surface(c) ==
  /\ h[c].cmd \in {"JOIN", "PART", "QUIT"}
  /\ h[c].at = "notify"
  /\ h' = [h EXCEPT ![c].at = "surface", ![c].size = Cardinality(chan[1].members)]
  /\ UNCHANGED <<up, table, chan, created, joined, disk, rooms, agenda, crashes>>

\* A set that changed its size under the iteration raises a RuntimeError.
Raises(c) == h[c].size # 0 /\ h[c].size # Cardinality(chan[1].members)

JoinEnd(c) ==
  /\ h[c].cmd = "JOIN"
  /\ h[c].at = "surface"
  /\ ~Raises(c)
  /\ h' = [h EXCEPT ![c] = Idle]
  /\ UNCHANGED <<up, table, chan, created, joined, disk, rooms, agenda, crashes>>

\* The entry under the name is deleted, whichever object it is of by now.
PartEnd(c) ==
  /\ h[c].cmd = "PART"
  /\ h[c].at = "surface"
  /\ ~Raises(c)
  /\ LET o  == h[c].obj
         ch == [chan EXCEPT ![o] = WithoutMember(@, c)]
         gone == ch[o].members = {} /\ ~ch[o].persistent
     IN  IF gone /\ table[h[c].name] = 0
         THEN Removed(c, ch, table, joined[c] \ {o})
         ELSE /\ chan' = ch
              /\ joined' = [joined EXCEPT ![c] = @ \ {o}]
              /\ table' = IF gone THEN [table EXCEPT ![h[c].name] = 0] ELSE table
              /\ h' = [h EXCEPT ![c] = Idle]
              /\ UNCHANGED up
  /\ UNCHANGED <<created, disk, rooms, agenda, crashes>>

\* The connection ends: after QUIT, with an exception of a handler, or when the
\* client hangs up between two commands.
Disconnect(c) ==
  /\ c \in up
  /\ \/ h[c] = Idle /\ Given("hangup")
     \/ h[c].at = "surface" /\ (h[c].cmd = "QUIT" \/ Raises(c)) /\ UNCHANGED agenda
  /\ Removed(c, chan, table, joined[c])
  /\ UNCHANGED <<created, disk, rooms, crashes>>

-----------------------------------------------------------------------------
(* CHANARCHIVE and MODE.                                                    *)

ChanArchive(c, n) ==
  /\ Ready(c, "CHANARCHIVE")
  /\ table[n] # 0
  /\ c \in chan[table[n]].ops
  /\ ~chan[table[n]].archived
  /\ chan' = [chan EXCEPT ![table[n]].archived = TRUE, ![table[n]].persistent = TRUE]
  /\ UNCHANGED <<up, table, created, joined, h, disk, rooms, crashes>>

\* MODE +o and -o, with the promotion of the least nick when nobody is left.
ModeOp(c, n, t, adding) ==
  /\ Ready(c, "MODE")
  /\ table[n] \notin {0, 1}
  /\ c \in chan[table[n]].ops
  /\ t \in up \cap chan[table[n]].members
  /\ LET ch  == chan[table[n]]
         led == IF adding THEN ch.ops \cup {t} ELSE ch.ops \ {t}
     IN  chan' = [chan EXCEPT ![table[n]].ops =
                    IF led = {} /\ ch.members # {} THEN {CHOOSE m \in ch.members : TRUE}
                    ELSE led]
  /\ UNCHANGED <<up, table, created, joined, h, disk, rooms, crashes>>

-----------------------------------------------------------------------------
(* Managed rooms.                                                           *)

\* The room is in the table before its creator is in it: the agents whose tags
\* match are invited first.
RoomCreate(c, n, persistent) ==
  /\ Ready(c, "ROOMCREATE")
  /\ n[2] = 0
  /\ table[n] = 0
  /\ Creates(n)
  /\ chan' = [Ensured(n) EXCEPT ![Found(n)].room = rooms + 1, ![Found(n)].owner = c,
                                ![Found(n)].persistent = persistent]
  /\ rooms' = rooms + 1
  /\ h' = [h EXCEPT ![c] = Handler("ROOMCREATE", "invite", n, Found(n))]
  /\ UNCHANGED <<up, joined, disk, crashes>>

RoomCreateJoin(c) ==
  /\ h[c].cmd = "ROOMCREATE"
  /\ h[c].at = "invite"
  /\ LET o == h[c].obj
     IN  /\ chan' = [chan EXCEPT ![o] = WithMember(@, c)]
         /\ joined' = [joined EXCEPT ![c] = @ \cup {o}]
  /\ h' = [h EXCEPT ![c].at = "save"]
  /\ UNCHANGED <<up, table, created, disk, rooms, agenda, crashes>>

\* ROOMMETA owner and persistent; the other keys are not modelled.
RoomMeta(c, n, owner, persistent) ==
  /\ Ready(c, "ROOMMETA")
  /\ table[n] # 0
  /\ LET o == table[n]
     IN  /\ chan[o].room # 0
         /\ c = chan[o].owner \/ c \in chan[o].ops
         /\ owner = chan[o].owner \/ persistent = chan[o].persistent
         /\ chan' = [chan EXCEPT ![o].owner = owner, ![o].persistent = persistent]
         /\ h' = [h EXCEPT ![c] = Handler("ROOMMETA", "save", n, o)]
  /\ UNCHANGED <<up, table, created, joined, disk, rooms, crashes>>

\* _persist_room: the file says what the room is by now.
RoomSave(c) ==
  /\ h[c].cmd \in {"ROOMCREATE", "ROOMMETA", "ROOMARCHIVE"}
  /\ h[c].at = "save"
  /\ disk' = [disk EXCEPT ![chan[h[c].obj].room] = SavedOf(chan[h[c].obj])]
  /\ h' = [h EXCEPT ![c] = Idle]
  /\ UNCHANGED <<up, table, chan, created, joined, rooms, agenda, crashes>>

RoomKick(c, n, t) ==
  /\ Ready(c, "ROOMKICK")
  /\ table[n] # 0
  /\ chan[table[n]].room # 0
  /\ chan[table[n]].owner = c
  /\ t \in up \cap chan[table[n]].members
  /\ h' = [h EXCEPT ![c] = [Handler("ROOMKICK", "notify", n, table[n]) EXCEPT !.who = t]]
  /\ UNCHANGED <<up, table, chan, created, joined, disk, rooms, crashes>>

\* Seeded fault: the channel is taken from the list of the one who kicks.
RoomKickSelf(c) ==
  /\ h[c].cmd = "ROOMKICK"
  /\ LET o == h[c].obj
         t == h[c].who
         ch == [chan EXCEPT ![o] = WithoutMember(@, t)]
     IN  /\ chan' = ch
         /\ joined' = [joined EXCEPT ![c] = @ \ {o}]
         /\ table' = IF ch[o].members = {} /\ ~ch[o].persistent
                     THEN [table EXCEPT ![h[c].name] = 0] ELSE table
  /\ h' = [h EXCEPT ![c] = Idle]
  /\ UNCHANGED <<up, created, disk, rooms, agenda, crashes>>
\* A missing entry raises a KeyError, which the skill's dispatcher logs.
RoomKickEnd(c) ==
  /\ h[c].cmd = "ROOMKICK"
  /\ LET o == h[c].obj
         t == h[c].who
         ch == [chan EXCEPT ![o] = WithoutMember(@, t)]
     IN  /\ chan' = ch
         /\ joined' = [joined EXCEPT ![t] = @ \ {o}]
         /\ table' = IF ch[o].members = {} /\ ~ch[o].persistent
                     THEN [table EXCEPT ![h[c].name] = 0] ELSE table
  /\ h' = [h EXCEPT ![c] = Idle]
  /\ UNCHANGED <<up, created, disk, rooms, agenda, crashes>>

\* _next_archive_name, as of when the command came in.
ArchiveNames(n) == {k \in 1..MaxGen : table[<<n[1], k>>] = 0}
ArchiveName(n) == <<n[1], CHOOSE k \in ArchiveNames(n) : \A j \in ArchiveNames(n) : k <= j>>

RoomArchive(c, n) ==
  /\ Ready(c, "ROOMARCHIVE")
  /\ n[2] = 0
  /\ table[n] # 0
  /\ chan[table[n]].room # 0
  /\ c = chan[table[n]].owner \/ c \in chan[table[n]].ops
  /\ ArchiveNames(n) # {}
  /\ h' = [h EXCEPT ![c] = [Handler("ROOMARCHIVE", "notice", n, table[n])
                              EXCEPT !.to = ArchiveName(n)]]
  /\ UNCHANGED <<up, table, chan, created, joined, disk, rooms, crashes>>

\* Seeded fault: the room is not saved once it is renamed.
RenamedUnsaved(c) ==
  LET o == h[c].obj
  IN  /\ chan' = [chan EXCEPT ![o].members = {}, ![o].ops = {}, ![o].name = h[c].to,
                              ![o].archived = TRUE]
      /\ table' = [table EXCEPT ![h[c].name] = 0, ![h[c].to] = o]
      /\ h' = [h EXCEPT ![c] = Idle]
\* Nobody is left in the room; it moves to its archive name unless the old name is
\* gone, which raises a KeyError.
Renamed(c) ==
  LET o == h[c].obj
  IN  IF table[h[c].name] = 0
      THEN /\ chan' = [chan EXCEPT ![o].members = {}, ![o].ops = {}]
           /\ h' = [h EXCEPT ![c] = Idle]
           /\ UNCHANGED table
      ELSE /\ chan' = [chan EXCEPT ![o].members = {}, ![o].ops = {}, ![o].name = h[c].to,
                                   ![o].archived = TRUE]
           /\ table' = [table EXCEPT ![h[c].name] = 0, ![h[c].to] = o]
           /\ h' = [h EXCEPT ![c].at = "save", ![c].todo = {}]

RoomArchiveNotified(c) ==
  /\ h[c].cmd = "ROOMARCHIVE"
  /\ h[c].at = "notice"
  /\ LET members == chan[h[c].obj].members
     IN  IF members = {} THEN Renamed(c)
         ELSE /\ h' = [h EXCEPT ![c].at = "part", ![c].todo = members]
              /\ UNCHANGED <<chan, table>>
  /\ UNCHANGED <<up, created, joined, disk, rooms, agenda, crashes>>

RoomArchivePart(c) ==
  /\ h[c].cmd = "ROOMARCHIVE"
  /\ h[c].at = "part"
  /\ \E m \in h[c].todo :
       /\ joined' = [joined EXCEPT ![m] = @ \ {h[c].obj}]
       /\ IF h[c].todo = {m} THEN Renamed(c)
          ELSE /\ h' = [h EXCEPT ![c].todo = @ \ {m}]
               /\ UNCHANGED <<chan, table>>
  /\ UNCHANGED <<up, created, disk, rooms, agenda, crashes>>

-----------------------------------------------------------------------------
(* The server dies and comes back; its clients connect again.               *)

\* _restore_persistent_rooms: of two files with one name the later one counts.
Latest(r) == /\ disk[r] # NoFile
             /\ \A s \in Rooms : disk[s] # NoFile /\ disk[s].name = disk[r].name => s <= r

Restart ==
  /\ crashes < MaxCrashes
  /\ rooms < MaxObjs
  /\ crashes' = crashes + 1
  /\ up' = Clients
  /\ joined' = [c \in Clients |-> {}]
  /\ h' = [c \in Clients |-> Idle]
  /\ created' = rooms + 1
  /\ table' = [n \in Names |->
       IF n = <<System, 0>> THEN 1
       ELSE IF \E r \in Rooms : Latest(r) /\ disk[r].name = n
       THEN 1 + CHOOSE r \in Rooms : Latest(r) /\ disk[r].name = n
       ELSE 0]
  /\ chan' = [o \in Objs |->
       IF o = 1 THEN [Blank(<<System, 0>>) EXCEPT !.persistent = TRUE]
       ELSE IF o <= rooms + 1 /\ disk[o - 1] # NoFile
       THEN [Blank(disk[o - 1].name) EXCEPT
               !.room = o - 1, !.owner = disk[o - 1].owner,
               !.persistent = disk[o - 1].persistent, !.archived = disk[o - 1].archived]
       ELSE Blank(NoName)]
  /\ UNCHANGED <<disk, rooms, agenda>>

-----------------------------------------------------------------------------

Handlers(c) ==
  \/ Surface(c) \/ JoinEnd(c) \/ PartEnd(c)
  \/ RoomCreateJoin(c) \/ RoomSave(c) \/ RoomKickEnd(c)
  \/ RoomArchiveNotified(c) \/ RoomArchivePart(c)

Orders(c) ==
  \/ Quit(c) \/ Disconnect(c)
  \/ \E n \in Names :
       \/ Join(c, n) \/ Part(c, n) \/ ChanArchive(c, n) \/ RoomArchive(c, n)
       \/ \E t \in Clients : RoomKick(c, n, t)
       \/ \E t \in Clients, b \in BOOLEAN : ModeOp(c, n, t, b) \/ RoomMeta(c, n, t, b)
       \/ \E b \in BOOLEAN : RoomCreate(c, n, b)

ChanNext == Restart \/ \E c \in Clients : Handlers(c) \/ Orders(c)

=============================================================================
