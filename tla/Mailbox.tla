------------------------------ MODULE Mailbox -------------------------------
(***************************************************************************)
(* What the spool of direct messages promises to a nick that is away       *)
(* (docstrings of culture/agentirc/dm_spool_store.py and                   *)
(* skills/chathistory.py): a message that was taken in stays unread until  *)
(* its reader has seen it and says so, or until it is too old.             *)
(***************************************************************************)
EXTENDS Naturals

CONSTANT Msgs   \* messages, numbered in the order they were sent

VARIABLES
  box,    \* box[m]: "none", "unread", "read" or "purged"
  seen,   \* messages that the reader was shown
  old     \* messages up to this one are too old to be kept

vars == <<box, seen, old>>

Init == /\ box = [m \in Msgs |-> "none"]
        /\ seen = {}
        /\ old = 0

TakeIn(m) == /\ box[m] = "none"
             /\ box' = [box EXCEPT ![m] = "unread"]
             /\ UNCHANGED <<seen, old>>

Show == /\ seen' \in SUBSET Msgs
        /\ seen \subseteq seen'
        /\ UNCHANGED <<box, old>>

Settle(m) == /\ m \in seen
             /\ box[m] = "unread"
             /\ box' = [box EXCEPT ![m] = "read"]
             /\ UNCHANGED <<seen, old>>

Age == old' \in Nat /\ old' > old /\ UNCHANGED <<box, seen>>

Purge(M) == /\ \A m \in M : box[m] = "read" \/ (box[m] = "unread" /\ m <= old)
            /\ box' = [m \in Msgs |-> IF m \in M THEN "purged" ELSE box[m]]
            /\ UNCHANGED <<seen, old>>

Next == \/ \E m \in Msgs : TakeIn(m) \/ Settle(m)
        \/ \E M \in SUBSET Msgs : Purge(M)
        \/ Show \/ Age

Spec == Init /\ [][Next]_vars

=============================================================================
