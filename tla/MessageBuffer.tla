---------------------------- MODULE MessageBuffer ---------------------------
(***************************************************************************)
(* The agent's buffer of one channel (culture/clients/claude/              *)
(* message_buffer.py): the newest lines, how many were ever added and up   *)
(* to which of them read() has answered.  The time stamp of a line is its  *)
(* place among all that were added.                                        *)
(***************************************************************************)
EXTENDS Naturals, Sequences

CONSTANT MaxBuf   \* max_per_channel

ASSUME MaxBufAssumption == MaxBuf \in Nat \ {0}

EmptyBuffer == [lines |-> <<>>, total |-> 0, cursor |-> 0]

\* The last n members of s, or s if it is no longer.
Newest(n, s) == SubSeq(s, IF n < Len(s) THEN Len(s) - n + 1 ELSE 1, Len(s))

\* Seeded fault: a line that overflows the buffer is not counted.
AddUncounted(b, m) ==
  [b EXCEPT !.lines = Newest(MaxBuf, Append(@, [msg |-> m, at |-> b.total + 1])),
            !.total = IF Len(b.lines) < MaxBuf THEN @ + 1 ELSE @]
\* add; deque(maxlen) drops the oldest line.
Add(b, m) ==
  [b EXCEPT !.lines = Newest(MaxBuf, Append(@, [msg |-> m, at |-> b.total + 1])),
            !.total = @ + 1]

\* read: what is new, the newest of it only when the caller's limit is lower; what
\* the limit cut off counts as read.
Unread(b)       == b.total - b.cursor
Read(b, limit)  == Newest(limit, Newest(Unread(b), b.lines))
AfterRead(b)    == [b EXCEPT !.cursor = b.total]

=============================================================================
