----------------------------- MODULE LinkTable ------------------------------
(***************************************************************************)
(* The table of links of each server, the handshake that fills it and the  *)
(* retries that restore it (culture/agentirc/server_link.py, ircd.py and   *)
(* the start-up of culture/cli/server.py).                                 *)
(*                                                                         *)
(* Several connections between the same two servers may be open at once:   *)
(* both sides dial, a retry meets a link that its peer has not yet seen    *)
(* drop, or a slow handshake outlives the retry that dialled it.  Each end *)
(* of a connection is run by its own handler (ServerLink.handle).          *)
(*                                                                         *)
(* Abstractions.  PASS and SERVER travel together as "HELLO" and both      *)
(* sides have the same password; ERROR has no handler and is left out, as  *)
(* is SQUIT, which no code of the repository sends.  Delays are not        *)
(* counted: a retry may wake at any time.                                  *)
(***************************************************************************)
EXTENDS Naturals, Sequences, FiniteSets

CONSTANTS
  Servers,     \* the names of the servers
  Config,      \* Config[s]: the peers that ServerConfig.links of s names
  Reachable,   \* <<s, p>>: a connection dialled by s reaches p
  Prompt,      \* TRUE: a handshake takes less than the 5 s a retry polls, and
               \* an end of file less than the 5 s before the next dial
  Conns,       \* bound: connections that exist at once, 1 .. n
  Tasks,       \* bound: retry tasks that exist at once, 1 .. n
  MaxFaults    \* bound: connections that the network breaks, and crashes

ASSUME ConfigAssumption    == Config \in [Servers -> SUBSET Servers]
ASSUME ReachableAssumption == Reachable \subseteq Servers \X Servers
ASSUME PromptAssumption    == Prompt \in BOOLEAN
ASSUME BoundsAssumption    == Conns \subseteq Nat \ {0} /\ Tasks \subseteq Nat \ {0}

None == 0   \* no connection, no task

VARIABLES
  running,  \* the servers whose process runs
  booted,   \* booted[s]: the configured peers s has dialled at start-up
  ends,     \* ends[c]: the dialler of connection c, the server it dialled, and
            \* whether the dialler's writer has been closed by its retry
  phase,    \* phase[c][s]: the handler of s for its end of c
  inbox,    \* inbox[c][s]: what s has still to read on c
  link,     \* link[s][p]: the connection of the ServerLink in IRCd.links, or None
  retry,    \* retry[s][p]: the task in IRCd._link_retry_state, or None
  task,     \* task[t]: a _retry_link_loop and what it is doing
  known,    \* known[s]: the peers s has been linked to since it started
  faults    \* breaks and crashes so far

vars == <<running, booted, ends, phase, inbox, link, retry, task, known, faults>>

-----------------------------------------------------------------------------
(* Connections. *)

NoEnds == [from |-> "none", to |-> "none", shut |-> FALSE]

\* "open": reading, no handshake yet.  "up": authenticated and reading.
Phases == {"closed", "open", "up"}

NoPair == <<"none", "none">>
NoTask == [of |-> NoPair, at |-> "free", conn |-> None]

\* The slots that may be used next: the lowest free one is taken.
Least(S) == CHOOSE x \in S : \A y \in S : x <= y

FreeConns == {c \in Conns : /\ \A s \in Servers : phase[c][s] = "closed"
                            /\ \A t \in Tasks : task[t].conn # c}
FreeTasks == {t \in Tasks : task[t].at = "free"}

Peer(c, s) == IF ends[c].from = s THEN ends[c].to ELSE ends[c].from

InHandshake(c) == \E s \in Servers : inbox[c][s] # <<>>

\* One end of a connection between s and p is closed and the other not yet.
HalfClosed(s, p) == \E c \in Conns : /\ {ends[c].from, ends[c].to} = {s, p}
                                     /\ "closed" \in {phase[c][s], phase[c][p]}

\* IRCd.connect_to_peer: the dialler's handshake goes out at once.
CanReach(s, p) == <<s, p>> \in Reachable /\ p \in running
Dialling(s, p) == Prompt => ~HalfClosed(s, p)

Dial(s, p) ==
  LET c == Least(FreeConns) IN
  /\ FreeConns # {}
  /\ ends'  = [ends EXCEPT ![c] = [from |-> s, to |-> p, shut |-> FALSE]]
  /\ phase' = [phase EXCEPT ![c] = [q \in Servers |-> IF q \in {s, p} THEN "open" ELSE "closed"]]
  /\ inbox' = [inbox EXCEPT ![c] = [q \in Servers |-> IF q = p THEN <<"HELLO">> ELSE <<>>]]

-----------------------------------------------------------------------------
(* Retries. *)

\* IRCd.maybe_retry_link: a new loop, unless one is recorded for the peer.
\* Seeded fault: unless one has not ended, which a cancelled one has not.
RetryStartedNoneLeft(s, p) == p \in Config[s] /\ \A t \in Tasks : task[t].of # <<s, p>>
RetryStarted(s, p) == p \in Config[s] /\ retry[s][p] = None

MaybeRetry(s, p) ==
  IF RetryStarted(s, p)
  THEN LET t == Least(FreeTasks) IN
       /\ FreeTasks # {}
       /\ retry' = [retry EXCEPT ![s][p] = t]
       /\ task'  = [task EXCEPT ![t] =
                      [of |-> <<s, p>>, at |-> "sleeping", conn |-> None]]
  ELSE UNCHANGED <<retry, task>>

\* IRCd.cancel_link_retry: the recorded loop is forgotten and told to stop.
CancelRetry(s, p) ==
  /\ retry' = [retry EXCEPT ![s][p] = None]
  /\ task'  = IF retry[s][p] = None THEN task
              ELSE [task EXCEPT ![retry[s][p]].at = "cancelled",
                                ![retry[s][p]].conn = None]

\* The finally of _retry_link_loop: whatever is recorded for the peer goes.
FinishTask(t) ==
  LET r == task[t].of IN
  /\ task'  = [task EXCEPT ![t] = NoTask]
  /\ retry' = [retry EXCEPT ![r[1]][r[2]] = None]

-----------------------------------------------------------------------------
(* Start and crash. *)

Init ==
  /\ running = {}
  /\ booted  = [s \in Servers |-> {}]
  /\ ends    = [c \in Conns |-> NoEnds]
  /\ phase   = [c \in Conns |-> [s \in Servers |-> "closed"]]
  /\ inbox   = [c \in Conns |-> [s \in Servers |-> <<>>]]
  /\ link    = [s \in Servers |-> [p \in Servers |-> None]]
  /\ retry   = [s \in Servers |-> [p \in Servers |-> None]]
  /\ task    = [t \in Tasks |-> NoTask]
  /\ known   = [s \in Servers |-> {}]
  /\ faults  = 0

\* IRCd.start: the server listens.
Start(s) ==
  /\ s \notin running
  /\ running' = running \cup {s}
  /\ UNCHANGED <<booted, ends, phase, inbox, link, retry, task, known, faults>>

\* The loop over config.links of _run_server: each peer is dialled once, and
\* retried if it cannot be reached.
\* Seeded fault: not retried, as in culture/agentirc/__main__.py.
BootDialOnce(s, p) ==
  /\ s \in running /\ Dialling(s, p)
  /\ p \in Config[s] \ booted[s]
  /\ booted' = [booted EXCEPT ![s] = @ \cup {p}]
  /\ IF CanReach(s, p) THEN Dial(s, p) ELSE UNCHANGED <<ends, phase, inbox>>
  /\ UNCHANGED <<running, link, retry, task, known, faults>>
BootDial(s, p) ==
  /\ s \in running /\ Dialling(s, p)
  /\ p \in Config[s] \ booted[s]
  /\ booted' = [booted EXCEPT ![s] = @ \cup {p}]
  /\ IF CanReach(s, p)
     THEN Dial(s, p) /\ UNCHANGED <<retry, task>>
     ELSE MaybeRetry(s, p) /\ UNCHANGED <<ends, phase, inbox>>
  /\ UNCHANGED <<running, link, known, faults>>

\* The process dies with its tables, its tasks and its ends of connections.
Crash(s) ==
  /\ s \in running
  /\ faults < MaxFaults
  /\ faults' = faults + 1
  /\ running' = running \ {s}
  /\ booted'  = [booted EXCEPT ![s] = {}]
  /\ phase'   = [c \in Conns |-> [phase[c] EXCEPT ![s] = "closed"]]
  /\ ends'    = [c \in Conns |-> IF \A p \in Servers \ {s} : phase[c][p] = "closed"
                                 THEN NoEnds ELSE ends[c]]
  /\ inbox'   = [c \in Conns |-> [inbox[c] EXCEPT ![s] = <<>>]]
  /\ link'    = [link EXCEPT ![s] = [p \in Servers |-> None]]
  /\ retry'   = [retry EXCEPT ![s] = [p \in Servers |-> None]]
  /\ task'    = [t \in Tasks |-> IF task[t].of[1] = s THEN NoTask ELSE task[t]]
  /\ known'   = [known EXCEPT ![s] = {}]

-----------------------------------------------------------------------------
(* The handler of one end. *)

\* Seeded faults: the entry stays in the table; the peer is not retried.
RemoveLinkKept(c, s, named) ==
  LET p == Peer(c, s) IN
  /\ phase' = [phase EXCEPT ![c][s] = "closed"]
  /\ inbox' = [inbox EXCEPT ![c][s] = <<>>]
  /\ ends'  = IF phase[c][p] = "closed" THEN [ends EXCEPT ![c] = NoEnds] ELSE ends
  /\ IF named THEN MaybeRetry(s, p) ELSE UNCHANGED <<retry, task>>
  /\ UNCHANGED <<running, booted, link, known>>
RemoveLinkNoRetry(c, s, named) ==
  LET p == Peer(c, s) IN
  /\ phase' = [phase EXCEPT ![c][s] = "closed"]
  /\ inbox' = [inbox EXCEPT ![c][s] = <<>>]
  /\ link'  = IF named THEN [link EXCEPT ![s][p] = None] ELSE link
  /\ ends'  = IF phase[c][p] = "closed" THEN [ends EXCEPT ![c] = NoEnds] ELSE ends
  /\ UNCHANGED <<running, booted, known, retry, task>>

\* The finally of ServerLink.handle, with IRCd._remove_link: the entry of the
\* peer's name leaves the table, whichever connection it is for, and the peer
\* is retried.  An end that has not read a SERVER line has no peer's name.
RemoveLink(c, s, named) ==
  LET p == Peer(c, s) IN
  /\ phase' = [phase EXCEPT ![c][s] = "closed"]
  /\ inbox' = [inbox EXCEPT ![c][s] = <<>>]
  /\ link'  = IF named THEN [link EXCEPT ![s][p] = None] ELSE link
  /\ ends'  = IF phase[c][p] = "closed" THEN [ends EXCEPT ![c] = NoEnds] ELSE ends
  /\ IF named THEN MaybeRetry(s, p) ELSE UNCHANGED <<retry, task>>
  /\ UNCHANGED <<running, booted, known>>

\* ServerLink._find_link_config and _validate_peer_credentials: the side that
\* was dialled must have the peer in its configuration, and neither may be
\* linked to it already.
Accepts(c, s) == LET p == Peer(c, s) IN
  /\ ends[c].from = s \/ p \in Config[s]
  /\ link[s][p] = None

\* ServerLink._try_complete_handshake, accepted: the link is registered, a
\* pending retry is cancelled and the side that was dialled answers.
Accept(c, s) ==
  LET p == Peer(c, s) IN
  /\ phase[c][s] = "open" /\ inbox[c][s] # <<>>
  /\ Accepts(c, s)
  /\ phase' = [phase EXCEPT ![c][s] = "up"]
  /\ inbox' = IF ends[c].from # s /\ phase[c][p] # "closed" /\ ~ends[c].shut
              THEN [inbox EXCEPT ![c][s] = <<>>, ![c][p] = <<"HELLO">>]
              ELSE [inbox EXCEPT ![c][s] = <<>>]
  /\ link'  = [link EXCEPT ![s][p] = c]
  /\ known' = [known EXCEPT ![s] = @ \cup {p}]
  /\ CancelRetry(s, p)
  /\ UNCHANGED <<running, booted, ends, faults>>

\* ... and rejected: ConnectionError, caught in handle.
Reject(c, s) ==
  /\ phase[c][s] = "open" /\ inbox[c][s] # <<>>
  /\ ~Accepts(c, s)
  /\ RemoveLink(c, s, TRUE)
  /\ UNCHANGED faults

\* The read returns end of file once the other end, or our writer, is closed.
ReadEof(c, s) ==
  /\ phase[c][s] # "closed" /\ inbox[c][s] = <<>>
  /\ phase[c][Peer(c, s)] = "closed" \/ (ends[c].shut /\ ends[c].from = s)
  /\ RemoveLink(c, s, phase[c][s] = "up")
  /\ UNCHANGED faults

\* The network breaks the connection; this end notices first.
Drop(c, s) ==
  /\ phase[c][s] # "closed"
  /\ faults < MaxFaults
  /\ faults' = faults + 1
  /\ RemoveLink(c, s, phase[c][s] = "up")

-----------------------------------------------------------------------------
(* The retry loop. *)

\* It wakes and finds the peer linked, ...
WakeLinked(t) == LET r == task[t].of IN
  /\ task[t].at = "sleeping" /\ link[r[1]][r[2]] # None
  /\ FinishTask(t)
  /\ UNCHANGED <<running, booted, ends, phase, inbox, link, known, faults>>

\* ... or dials it and polls.  If it cannot be reached the loop sleeps again.
WakeDial(t) == LET r == task[t].of IN
  /\ task[t].at = "sleeping" /\ link[r[1]][r[2]] = None
  /\ CanReach(r[1], r[2]) /\ Dialling(r[1], r[2])
  /\ Dial(r[1], r[2])
  /\ task' = [task EXCEPT ![t].at = "polling", ![t].conn = Least(FreeConns)]
  /\ UNCHANGED <<running, booted, link, retry, known, faults>>

PollLinked(t) == LET r == task[t].of IN
  /\ task[t].at = "polling" /\ link[r[1]][r[2]] # None
  /\ FinishTask(t)
  /\ UNCHANGED <<running, booted, ends, phase, inbox, link, known, faults>>

\* After 50 polls without a link the writer of the connection it dialled is
\* closed, and the loop sleeps again.
PollTimeout(t) == LET r == task[t].of IN
  /\ task[t].at = "polling" /\ link[r[1]][r[2]] = None
  /\ Prompt => ~InHandshake(task[t].conn)
  /\ task' = [task EXCEPT ![t].at = "sleeping", ![t].conn = None]
  /\ ends' = [ends EXCEPT ![task[t].conn].shut = phase[task[t].conn][r[1]] # "closed"]
  /\ UNCHANGED <<running, booted, phase, inbox, link, retry, known, faults>>

\* The CancelledError reaches the loop at its await, after other handlers ran.
Cancelled(t) ==
  /\ task[t].at = "cancelled"
  /\ FinishTask(t)
  /\ UNCHANGED <<running, booted, ends, phase, inbox, link, known, faults>>

-----------------------------------------------------------------------------
(* The specification. *)

Handle(c, s) == Accept(c, s) \/ Reject(c, s) \/ ReadEof(c, s)
Retry(t) == \/ WakeLinked(t) \/ WakeDial(t) \/ PollLinked(t) \/ PollTimeout(t)
            \/ Cancelled(t)

Next ==
  \/ \E s \in Servers : Start(s) \/ Crash(s)
  \/ \E s \in Servers : \E p \in Servers \ {s} : BootDial(s, p)
  \/ \E c \in Conns, s \in Servers : Handle(c, s) \/ Drop(c, s)
  \/ \E t \in Tasks : Retry(t)

Spec == Init /\ [][Next]_vars

\* Operators start the servers, and the event loop of a running server keeps
\* running its start-up, its handlers and its retries.
Fairness ==
  /\ \A s \in Servers : WF_vars(Start(s))
  /\ \A s, p \in Servers : s # p => WF_vars(BootDial(s, p))
  /\ \A c \in Conns, s \in Servers : WF_vars(Handle(c, s))
  /\ \A t \in Tasks : WF_vars(Retry(t))

FairSpec == Spec /\ Fairness

-----------------------------------------------------------------------------
(* Properties. *)

ServerNames == Servers \cup {"none"}

TypeOK ==
  /\ running \in SUBSET Servers
  /\ booted  \in [Servers -> SUBSET Servers]
  /\ ends    \in [Conns -> [from : ServerNames, to : ServerNames, shut : BOOLEAN]]
  /\ phase   \in [Conns -> [Servers -> Phases]]
  /\ inbox   \in [Conns -> [Servers -> {<<>>, <<"HELLO">>}]]
  /\ link    \in [Servers -> [Servers -> Conns \cup {None}]]
  /\ retry   \in [Servers -> [Servers -> Tasks \cup {None}]]
  /\ task    \in [Tasks -> [of : ServerNames \X ServerNames,
                            at : {"free", "sleeping", "polling", "cancelled"},
                            conn : Conns \cup {None}]]
  /\ known   \in [Servers -> SUBSET Servers]
  /\ faults  \in Nat

\* IRCd.links never holds a session that is over: the entry of a peer is an end
\* of ours that is authenticated and still reading, with that peer behind it.
\* What is relayed to it is written to a live writer.
RegisteredIsUp ==
  \A s, p \in Servers : link[s][p] # None =>
    phase[link[s][p]][s] = "up" /\ Peer(link[s][p], s) = p

\* A loop of s for p that has not been told to stop.
Trying(t, s, p) == task[t].of = <<s, p>> /\ task[t].at \in {"sleeping", "polling"}

\* A peer that was linked and is in the configuration is linked or retried,
\* whatever handlers, retries and cancellations have crossed since.
NeverGivenUp ==
  \A s \in Servers : \A p \in known[s] \cap Config[s] :
    link[s][p] # None \/ \E t \in Tasks : Trying(t, s, p)

Linked(s, p) == link[s][p] # None /\ link[p][s] = link[s][p]

\* Two servers of which one is configured for the other end up linked by one
\* connection that both have registered, and stay so, in whatever order they
\* start, unless the network or a process fails.
EventuallyLinked ==
  \A s \in Servers : \A p \in Config[s] : <>[](faults = 0 => Linked(s, p))

CanDial(s, p) == p \in Config[s] /\ <<s, p>> \in Reachable

\* A server that dials keeps its links: a peer it has been linked to since it
\* started is linked again for good once faults cease, whichever of
\* the two broke or crashed in the middle of what.
Relinked ==
  \A s, p \in Servers : CanDial(s, p) => <>[](p \in known[s] => Linked(s, p))

=============================================================================
