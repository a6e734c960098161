------------------------------ MODULE Threads -------------------------------
(***************************************************************************)
(* Conversation threads in the channels of a server, and their promotion   *)
(* to breakout channels (culture/agentirc/skills/threads.py,               *)
(* thread_store.py), over the handlers of Channels.                        *)
(*                                                                         *)
(* There is one thread name: a thread is found by the name of its channel. *)
(* A message of a thread is its number and its author.  A promotion walks  *)
(* through the list of messages in place, suspended at every write; a      *)
(* reply that overflows the list replaces it by a copy, and the walk stays *)
(* with the old one: snap is that list, <<>> while the walk is on the      *)
(* thread's own, and late are the messages that came too late for it.      *)
(***************************************************************************)
EXTENDS Channels, Sequences

CONSTANTS
  Breakout,    \* the channel name that threads are promoted to
  MaxMessages, \* ThreadsSkill.max_messages
  MaxPosts     \* bound: messages posted in threads

ASSUME BreakoutAssumption == Breakout \in Bases
ASSUME PostsAssumption    == MaxMessages \in Nat \ {0} /\ MaxPosts \in Nat

VARIABLES
  thread,   \* ThreadsSkill._threads: thread[n] is of channel n, NoThread if none
  saved,    \* the files of ThreadStore
  posts     \* how many messages were posted in threads

threadVars == <<thread, saved, posts>>
vars       == <<chanVars, threadVars>>

NoThread == [creator |-> None, messages |-> <<>>, archived |-> FALSE, promoted |-> FALSE]
Messages == [id : 1..MaxPosts, nick : Clients]
BreakoutName == <<Breakout, 0>>

Participants(t) == {t.messages[i].nick : i \in DOMAIN t.messages}
Ids(messages)   == {messages[i].id : i \in DOMAIN messages}

Init ==
  /\ ChanInit
  /\ thread = [n \in Names |-> NoThread]
  /\ saved = [n \in Names |-> NoThread]
  /\ posts = 0

InChannel(c, n) == table[n] # 0 /\ c \in chan[table[n]].members

\* Seeded fault: a closed thread may be replied to, and closed again.
AccessibleClosed(c, n) == InChannel(c, n) /\ thread[n] # NoThread
\* _validate_thread_access.
Accessible(c, n) == InChannel(c, n) /\ thread[n] # NoThread /\ ~thread[n].archived

Message(c) == [id |-> posts + 1, nick |-> c]

\* The message is delivered, which suspends, and then the thread is saved.
ThreadCreate(c, n) ==
  /\ Ready(c, "THREAD") /\ posts < MaxPosts
  /\ InChannel(c, n)
  /\ thread[n] = NoThread
  /\ thread' = [thread EXCEPT ![n] = [NoThread EXCEPT !.creator = c,
                                                      !.messages = <<Message(c)>>]]
  /\ posts' = posts + 1
  /\ h' = [h EXCEPT ![c] = Handler("THREAD", "save", n, 0)]
  /\ UNCHANGED <<up, table, chan, created, joined, disk, rooms, crashes, saved>>

\* The walks through the list of thread n after reply m.
Walking(d, n) == h[d].cmd = "PROMOTE" /\ h[d].at = "replay" /\ h[d].name = n
Overtaken(n, m, overflow) ==
  [d \in Clients |->
     IF ~Walking(d, n) THEN h[d]
     ELSE IF h[d].snap # <<>> THEN [h[d] EXCEPT !.late = @ \cup {m.id}]
     ELSE IF overflow THEN [h[d] EXCEPT !.snap = Append(thread[n].messages, m)]
     ELSE h[d]]

ThreadReply(c, n) ==
  /\ Ready(c, "REPLY") /\ posts < MaxPosts
  /\ Accessible(c, n)
  /\ LET m == Message(c)
         longer == Append(thread[n].messages, m)
         overflow == Len(longer) > MaxMessages
     IN  /\ thread' = [thread EXCEPT ![n].messages = IF overflow THEN Tail(longer) ELSE longer]
         /\ h' = [Overtaken(n, m, overflow) EXCEPT ![c] = Handler("THREAD", "save", n, 0)]
  /\ posts' = posts + 1
  /\ UNCHANGED <<up, table, chan, created, joined, disk, rooms, crashes, saved>>

ThreadClose(c, n) ==
  /\ Ready(c, "CLOSE")
  /\ Accessible(c, n)
  /\ c \in Participants(thread[n]) \cup chan[table[n]].ops
  /\ thread' = [thread EXCEPT ![n].archived = TRUE]
  /\ h' = [h EXCEPT ![c] = Handler("THREAD", "save", n, 0)]
  /\ UNCHANGED <<up, table, chan, created, joined, disk, rooms, crashes, saved, posts>>

\* _persist_thread: the file says what the thread is by now.
ThreadSave(c) ==
  /\ h[c].cmd \in {"THREAD", "PROMOTE"}
  /\ h[c].at = "save"
  /\ saved' = [saved EXCEPT ![h[c].name] = thread[h[c].name]]
  /\ h' = [h EXCEPT ![c] = Idle]
  /\ UNCHANGED <<up, table, chan, created, joined, disk, rooms, agenda, crashes, thread, posts>>

\* _create_breakout_channel and _populate_breakout, up to the JOIN messages.  An
\* existing channel will do if it is the breakout of the same thread.
Promote(c, n) ==
  /\ Ready(c, "PROMOTE")
  /\ Accessible(c, n)
  /\ c \in {thread[n].creator} \cup chan[table[n]].ops
  /\ table[BreakoutName] # 0 => chan[table[BreakoutName]].parent = n
  /\ Creates(BreakoutName)
  /\ LET b == BreakoutName
         o == Found(b)
         new == (Participants(thread[n]) \cap up) \ Ensured(b)[o].members
     IN  /\ chan' = [Ensured(b) EXCEPT
                       ![o].members = @ \cup new,
                       ![o].ops = IF Ensured(b)[o].members = {} /\ new # {}
                                  THEN @ \cup {CHOOSE m \in new : TRUE} ELSE @,
                       ![o].parent = n]
         /\ joined' = [m \in Clients |-> IF m \in new THEN joined[m] \cup {o} ELSE joined[m]]
  /\ h' = [h EXCEPT ![c] = [Handler("PROMOTE", "joins", n, 0) EXCEPT !.to = BreakoutName]]
  /\ UNCHANGED <<up, disk, rooms, crashes, threadVars>>

\* The list that is walked through, and the message that is next.
Walked(c) == IF h[c].snap # <<>> THEN h[c].snap ELSE thread[h[c].name].messages
NextPos(c)  == h[c].pos + 1

\* _replay_thread_history gives up if the breakout is gone when it starts.
Replayed(c) == \/ h[c].at = "joins" /\ table[h[c].to] = 0
               \/ NextPos(c) > Len(Walked(c))

PromoteShow(c) ==
  /\ h[c].cmd = "PROMOTE" /\ h[c].at \in {"joins", "replay"}
  /\ ~Replayed(c)
  /\ h' = [h EXCEPT ![c].at = "replay", ![c].pos = NextPos(c),
                   ![c].shown = @ \cup {Walked(c)[NextPos(c)].id}]
  /\ UNCHANGED <<up, table, chan, created, joined, disk, rooms, agenda, crashes, threadVars>>

\* _finalize_promote, up to the notice.
PromoteEnd(c) ==
  /\ h[c].cmd = "PROMOTE" /\ h[c].at \in {"joins", "replay"}
  /\ Replayed(c)
  /\ thread' = [thread EXCEPT ![h[c].name].archived = TRUE, ![h[c].name].promoted = TRUE]
  /\ h' = [h EXCEPT ![c] = Handler("PROMOTE", "save", h[c].name, 0)]
  /\ UNCHANGED <<up, table, chan, created, joined, disk, rooms, agenda, crashes, saved, posts>>

ThreadHandlers(c) == ThreadSave(c) \/ PromoteShow(c) \/ PromoteEnd(c)
ThreadOrders(c) ==
  \E n \in Names : \/ ThreadCreate(c, n) \/ ThreadReply(c, n)
                   \/ ThreadClose(c, n) \/ Promote(c, n)

\* _restore_threads.
ThreadRestart == Restart /\ thread' = saved /\ UNCHANGED <<saved, posts>>

Next ==
  \/ ThreadRestart
  \/ \E c \in Clients :
       \/ (Handlers(c) \/ Orders(c)) /\ UNCHANGED threadVars
       \/ ThreadHandlers(c) \/ ThreadOrders(c)

Spec == Init /\ [][Next]_vars

-----------------------------------------------------------------------------

ChannelType == [name : Names \cup {NoName}, members : SUBSET Clients, ops : SUBSET Clients,
                room : 0..MaxObjs, owner : Clients \cup {None}, persistent : BOOLEAN,
                archived : BOOLEAN, parent : Names \cup {NoName}]

\* Every table, file and reference of a handler has its shape.
TypeOK ==
  /\ up \subseteq Clients
  /\ table \in [Names -> 0..created]
  /\ chan \in [Objs -> ChannelType]
  /\ created \in Objs
  /\ joined \in [Clients -> SUBSET Objs]
  /\ \A c \in Clients : /\ h[c].obj \in 0..MaxObjs
                        /\ h[c].todo \subseteq Clients
                        /\ h[c].pos \in Nat
  /\ rooms \in 0..MaxObjs
  /\ \A r \in Rooms : disk[r].name \in Names \cup {NoName}
  /\ \A n \in Names : /\ Participants(thread[n]) \subseteq Clients
                      /\ Len(thread[n].messages) <= MaxMessages
                      /\ Len(saved[n].messages) <= MaxMessages

\* A plain name finds the channel of that name, an archive name one archived from that
\* name; and a channel with members has an operator, who is one of them: through joins,
\* parts, kicks, promotions and archivings that overtake each other.
Led ==
  /\ \A n \in Names : table[n] # 0 =>
       IF n[2] = 0 THEN chan[table[n]].name = n
       ELSE chan[table[n]].name \in {n[1]} \X (1..MaxGen)
  /\ \A o \in Objs : /\ chan[o].ops \subseteq chan[o].members
                     /\ chan[o].members # {} => chan[o].ops # {}

Archiving(o) == \E c \in Clients : h[c].cmd = "ROOMARCHIVE" /\ h[c].at = "part" /\ h[c].obj = o

\* A connected client that a channel counts as a member has that channel in its own
\* list, from which it is removed when it leaves: unless the channel is being
\* archived and is about to drop all its members.
MembersKnow ==
  \A c \in up, o \in Objs : c \in chan[o].members => o \in joined[c] \/ Archiving(o)

RoomBusy(o)   == \E c \in Clients : h[c].obj = o /\ h[c].cmd \in {"ROOMCREATE", "ROOMMETA", "ROOMARCHIVE"}
ThreadBusy(n) == \E c \in Clients : h[c].name = n /\ h[c].cmd \in {"THREAD", "PROMOTE"}

\* Once no command is at work on it, the file of a room says who owns it and under
\* which name it is found, and the file of a thread what was said in it and that
\* it is closed.  CHANARCHIVE does not save.
Saved ==
  /\ \A n \in Names :
       LET ch == chan[table[n]]
       IN  table[n] # 0 /\ ch.room # 0 /\ ~RoomBusy(table[n]) =>
             disk[ch.room].name = ch.name /\ disk[ch.room].owner = ch.owner
  /\ \A n \in Names : ThreadBusy(n) \/ saved[n] = thread[n]

\* A closed thread takes no reply, unless the server died before it saved the end of
\* the thread; and a thread that is closed by promotion has had each of its messages
\* shown in the breakout channel that was there for it, the replies among them that
\* came while others were being shown, until the thread overflowed.
Closes ==
  [][ /\ \A n \in Names :
           thread[n].archived => thread'[n].messages = thread[n].messages \/ crashes' # crashes
      /\ \A c \in Clients :
           h[c].at = "replay" /\ h'[c].at = "save" =>
             Ids(thread[h[c].name].messages) \subseteq h[c].shown \cup h[c].late ]_vars

=============================================================================
