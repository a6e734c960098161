--------------------------- MODULE DmSpoolProofs ----------------------------
(***************************************************************************)
(* Proofs about DmSpool, for any number of messages, batch size and number *)
(* of faults: the spool is a Mailbox.                                      *)
(***************************************************************************)
EXTENDS DmSpool, FiniteSetTheorems, SequenceTheorems, TLAPS

\* What may be on the way to the bridge once k messages were sent, ...
Outgoing(k) == {l \in Lines : l.verb \in {"PRIVMSG", "entry"} => l.msg \in 1..k}

\* ... and to the server, or with it, from a session that was shown S: only what
\* was shown is acknowledged, so only that is looked up and marked.
Incoming(S) == {l \in Lines : l.verb \in {"DELETE", "mark"} => l.msg \in S}

RowsOK == /\ sent \in 0..MaxMsgs /\ old \in 0..sent
          /\ inserting \subseteq 1..sent
          /\ spool \in [Msgs -> {"none", "unread", "read", "purged"}]
          /\ \A m \in Msgs : m > sent => spool[m] = "none"
          /\ \A m \in inserting : spool[m] = "none"
WiresOK == /\ reg \in {"none", "current", "stale"}
           /\ link \in {"down", "up"}
           /\ busy \in Incoming(seen)
           /\ toServer \in Seq(Incoming(seen))
           /\ toBridge \in Seq(Outgoing(sent))
ReaderOK == /\ up \in BOOLEAN
            /\ pending \subseteq reached /\ seen \subseteq reached
            /\ inbox \in Seq(reached) /\ reached \subseteq 1..sent
FaultsOK == breaks \in 0..MaxBreaks /\ crashes \in 0..MaxCrashes

\* The inductive invariant.
IInv == RowsOK /\ WiresOK /\ ReaderOK /\ FaultsOK

-----------------------------------------------------------------------------
(* A batch of the spool. *)

\* Rows of different age have different numbers of rows before them.
LEMMA BeforeRows ==
  ASSUME NEW j \in Msgs, NEW m \in Msgs, j \in Unread, j < m
  PROVE  Before(j) \in Nat /\ Before(m) \in Nat /\ Before(j) < Before(m)
<1>. DEFINE J == {k \in Unread : k < j}
            M == {k \in Unread : k < m}
<1>1. Msgs \subseteq Nat /\ IsFiniteSet(Msgs)
  BY SpoolBoundsAssumption, FS_Interval DEF Msgs
<1>2. Unread \subseteq Msgs
  BY DEF Unread
<1>3. M \in SUBSET Msgs /\ J \in SUBSET M /\ j \in M /\ j \notin J
  <2>1. \A k \in Unread : k \in Nat /\ j \in Nat /\ m \in Nat
    BY <1>1, <1>2
  <2>2. \A k \in Unread : k < j => k < m
    BY <2>1
  <2>3. ~(j < j)
    BY <2>1
  <2>. QED BY <1>2, <2>2, <2>3
<1>4. IsFiniteSet(M)
  BY <1>1, <1>3, FS_Subset
<1>5. /\ IsFiniteSet(J) /\ Cardinality(J) <= Cardinality(M)
      /\ Cardinality(M) = Cardinality(J) => M = J
  BY <1>3, <1>4, FS_Subset
<1>6. Cardinality(J) \in Nat /\ Cardinality(M) \in Nat
  BY <1>4, <1>5, FS_CardinalityType
<1>7. Cardinality(J) # Cardinality(M)
  BY <1>3, <1>5
<1>8. Cardinality(J) < Cardinality(M)
  BY <1>5, <1>6, <1>7
<1>. QED BY <1>6, <1>8 DEF Before

LEMMA OldestFinite ==
  /\ Oldest \subseteq Msgs /\ IsFiniteSet(Oldest) /\ Cardinality(Oldest) \in Nat
<1>1. Oldest \in SUBSET Msgs
  BY DEF Oldest, Unread
<1>2. IsFiniteSet(Msgs)
  BY SpoolBoundsAssumption, FS_Interval DEF Msgs
<1>. QED BY <1>1, <1>2, FS_Subset, FS_CardinalityType

\* The rows before one of a batch are in the batch as well.
LEMMA RankInBatch ==
  ASSUME NEW m \in Oldest
  PROVE  Before(m) \in 0..(Cardinality(Oldest) - 1)
<1>. DEFINE M == {k \in Unread : k < m}
<1>1. m \in Msgs /\ m \in Unread /\ Before(m) < Limit
  BY DEF Oldest, Unread
<1>2. M \subseteq Oldest
  <2>. SUFFICES ASSUME NEW k \in M PROVE k \in Oldest
    OBVIOUS
  <2>1. k \in Unread /\ k \in Msgs /\ k < m
    BY DEF Unread
  <2>2. Before(k) \in Nat /\ Before(m) \in Nat /\ Before(k) < Before(m)
    BY <1>1, <2>1, BeforeRows
  <2>3. Before(k) < Limit
    BY <1>1, <2>2, LimitAssumption
  <2>. QED BY <2>1, <2>3 DEF Oldest
<1>3. m \notin M
  BY <1>1, SpoolBoundsAssumption DEF Msgs
<1>4. M \in SUBSET (Oldest \ {m})
  BY <1>2, <1>3
<1>5. IsFiniteSet(Oldest \ {m}) /\ Cardinality(Oldest \ {m}) = Cardinality(Oldest) - 1
  BY OldestFinite, FS_RemoveElement
<1>6. IsFiniteSet(M) /\ Cardinality(M) <= Cardinality(Oldest) - 1
  BY <1>4, <1>5, FS_Subset
<1>7. Cardinality(M) \in Nat
  BY <1>6, FS_CardinalityType
<1>. QED BY <1>6, <1>7, OldestFinite DEF Before

\* query_for_nick: every entry of a batch is a row that is unread.
LEMMA RowOfBatch ==
  ASSUME NEW i \in 1..Cardinality(Oldest)
  PROVE  (CHOOSE m \in Oldest : Before(m) = i - 1) \in Oldest
<1>. DEFINE n == Cardinality(Oldest)
            rank == [m \in Oldest |-> Before(m) + 1]
<1>1. n \in Nat
  BY OldestFinite
<1>2. rank \in [Oldest -> 1..n]
  BY <1>1, RankInBatch
<1>3. ASSUME NEW j \in Oldest, NEW m \in Oldest, rank[j] = rank[m] PROVE j = m
  <2>1. j \in Msgs /\ m \in Msgs /\ j \in Unread /\ m \in Unread
    BY DEF Oldest, Unread
  <2>2. Before(j) = Before(m)
    BY <1>1, <1>3, RankInBatch
  <2>3. ~(j < m) /\ ~(m < j)
    BY <2>1, <2>2, BeforeRows
  <2>4. j \in Nat /\ m \in Nat
    BY <2>1, SpoolBoundsAssumption DEF Msgs
  <2>. QED BY <2>3, <2>4
<1>4. rank \in Injection(Oldest, 1..n)
  BY <1>2, <1>3 DEF Injection, IsInjective
<1>5. IsFiniteSet(1..n) /\ Cardinality(1..n) = n
  BY <1>1, FS_Interval
<1>6. rank \in Surjection(Oldest, 1..n)
  BY <1>4, <1>5, FS_Injection
<1>7. PICK m \in Oldest : rank[m] = i
  BY <1>6 DEF Surjection
<1>8. Before(m) = i - 1
  BY <1>1, <1>7, RankInBatch
<1>. QED BY <1>8

-----------------------------------------------------------------------------
(* Lines. *)

LEMMA LineType ==
  ASSUME NEW verb \in Verbs, NEW m \in 0..MaxMsgs
  PROVE  Line(verb, m) \in Lines /\ Line(verb, m).verb = verb /\ Line(verb, m).msg = m
BY DEF Line, Lines

LEMMA OutgoingLine ==
  ASSUME NEW k \in Nat, NEW verb \in Verbs, NEW m \in 0..MaxMsgs,
         verb \in {"PRIVMSG", "entry"} => m \in 1..k
  PROVE  Line(verb, m) \in Outgoing(k)
BY LineType DEF Outgoing

LEMMA IncomingLine ==
  ASSUME NEW S, NEW verb \in Verbs, NEW m \in 0..MaxMsgs,
         verb \in {"DELETE", "mark"} => m \in S
  PROVE  Line(verb, m) \in Incoming(S)
BY LineType DEF Incoming

LEMMA PlainLines ==
  ASSUME NEW k \in Nat, NEW S
  PROVE  /\ Line("END", 0) \in Outgoing(k) /\ Line("001", 0) \in Outgoing(k)
         /\ Line("433", 0) \in Outgoing(k)
         /\ Line("NICK", 0) \in Incoming(S) /\ Line("CHATHISTORY", 0) \in Incoming(S)
         /\ Free \in Incoming(S)
<1>1. 0 \in 0..MaxMsgs
  BY SpoolBoundsAssumption
<1>. QED BY <1>1, OutgoingLine, IncomingLine DEF Verbs, Free

\* More may be on the way once more was sent, and be acknowledged once more was
\* shown.
LEMMA OutgoingGrows ==
  ASSUME NEW k \in Nat, NEW n \in Nat, k <= n
  PROVE  Outgoing(k) \subseteq Outgoing(n)
<1>1. 1..k \subseteq 1..n
  OBVIOUS
<1>. QED BY <1>1 DEF Outgoing

LEMMA IncomingGrows ==
  ASSUME NEW S, NEW T, S \subseteq T
  PROVE  Incoming(S) \subseteq Incoming(T)
BY DEF Incoming

LEMMA SeqGrows ==
  ASSUME NEW S, NEW T, S \subseteq T, NEW seq \in Seq(S)
  PROVE  seq \in Seq(T)
BY SeqMonotonic

LEMMA HeadTail ==
  ASSUME NEW S, NEW seq \in Seq(S), seq # <<>>
  PROVE  Head(seq) \in S /\ Tail(seq) \in Seq(S)
BY HeadTailProperties

LEMMA Appended ==
  ASSUME NEW S, NEW seq \in Seq(S), NEW elt \in S
  PROVE  Append(seq, elt) \in Seq(S)
BY AppendProperties

LEMMA BatchLines == RowsOK => Batch \in Seq(Outgoing(sent))
<1>. SUFFICES ASSUME RowsOK PROVE Batch \in Seq(Outgoing(sent))
  OBVIOUS
<1>. DEFINE n == Cardinality(Oldest)
<1>1. n \in Nat
  BY OldestFinite
<1>2. sent \in Nat
  BY SpoolBoundsAssumption DEF RowsOK
<1>3. ASSUME NEW i \in 1..n
      PROVE  Line("entry", CHOOSE m \in Oldest : Before(m) = i - 1) \in Outgoing(sent)
  <2>1. PICK m : m = (CHOOSE k \in Oldest : Before(k) = i - 1)
    OBVIOUS
  <2>2. m \in Oldest
    BY <2>1, RowOfBatch
  <2>3. m \in Msgs /\ spool[m] = "unread"
    BY <2>2 DEF Oldest, Unread
  <2>4. m \in 1..sent /\ m \in 0..MaxMsgs
    BY <1>2, <2>3, SpoolBoundsAssumption DEF RowsOK, Msgs
  <2>5. Line("entry", m) \in Outgoing(sent)
    BY <1>2, <2>4, OutgoingLine DEF Verbs
  <2>. QED BY <2>1, <2>5
<1>4. Batch \in [1..n -> Outgoing(sent)]
  BY <1>3, Zenon DEF Batch
<1>. QED BY <1>1, <1>4, SeqDef

-----------------------------------------------------------------------------
(* Steps: parts of the invariant that an action leaves alone. *)

LEMMA RowsSame ==
  ASSUME RowsOK, UNCHANGED <<sent, inserting, spool, old>>
  PROVE  RowsOK'
BY DEF RowsOK

LEMMA WiresSame ==
  ASSUME WiresOK, UNCHANGED <<reg, link, busy, seen, toServer, toBridge, sent>>
  PROVE  WiresOK'
BY DEF WiresOK

LEMMA ReaderSame ==
  ASSUME ReaderOK, UNCHANGED <<up, pending, seen, reached, inbox, sent>>
  PROVE  ReaderOK'
BY DEF ReaderOK

LEMMA FaultsSame ==
  ASSUME FaultsOK, UNCHANGED <<breaks, crashes>>
  PROVE  FaultsOK'
BY DEF FaultsOK

LEMMA SentNat == RowsOK => sent \in Nat /\ sent \in 0..MaxMsgs
BY SpoolBoundsAssumption DEF RowsOK

\* The connection is lost, or a new one is opened.
LEMMA Cut ==
  ASSUME RowsOK, WiresOK, Lost \/ (Dialed /\ UNCHANGED reg), UNCHANGED <<busy, seen, sent>>
  PROVE  WiresOK'
<1>1. /\ toServer' = <<>> \/ toServer' = <<Line("NICK", 0)>>
      /\ toBridge' = <<>>
      /\ reg' \in {"none", "current", "stale"} /\ link' \in {"down", "up"}
  BY DEF Lost, Dialed, WiresOK
<1>2. Line("NICK", 0) \in Incoming(seen)
  BY SentNat, PlainLines
<1>3. <<Line("NICK", 0)>> \in Seq(Incoming(seen)) /\ <<>> \in Seq(Incoming(seen))
  BY <1>2
<1>4. <<>> \in Seq(Outgoing(sent))
  BY EmptySeq
<1>. QED BY <1>1, <1>3, <1>4 DEF WiresOK

LEMMA WrittenOK ==
  ASSUME WiresOK, NEW lines \in Seq(Outgoing(sent)), Written(lines)
  PROVE  toBridge' \in Seq(Outgoing(sent))
<1>1. toBridge \in Seq(Outgoing(sent))
  BY DEF WiresOK
<1>2. toBridge \o lines \in Seq(Outgoing(sent))
  BY <1>1, ConcatProperties
<1>. QED BY <1>1, <1>2 DEF Written

LEMMA SayOK ==
  ASSUME WiresOK, NEW line \in Incoming(seen), Say(line)
  PROVE  toServer' \in Seq(Incoming(seen))
BY Appended DEF WiresOK, Say

\* What the bridge reads is well-typed, and so is what is left.
LEMMA Reads ==
  ASSUME RowsOK, WiresOK, NEW verb, Receives(verb)
  PROVE  /\ Head(toBridge) \in Outgoing(sent) /\ Head(toBridge).verb = verb
         /\ Tail(toBridge) \in Seq(Outgoing(sent))
BY HeadTail DEF WiresOK, Receives

LEMMA Serves ==
  ASSUME RowsOK, WiresOK, NEW verb, Command(verb)
  PROVE  /\ Head(toServer) \in Incoming(seen) /\ Head(toServer).verb = verb
         /\ toServer' \in Seq(Incoming(seen))
BY HeadTail DEF WiresOK, Command

-----------------------------------------------------------------------------
(* The steps of the server. *)

LEMMA SendLiveStep == IInv /\ SendLive => IInv'
<1>. SUFFICES ASSUME IInv, SendLive PROVE IInv'
  OBVIOUS
<1>. USE DEF IInv
<1>1. sent \in Nat /\ sent' = sent + 1 /\ sent' \in 1..MaxMsgs
  BY SentNat, SpoolBoundsAssumption DEF SendLive, RowsOK
<1>2. 1..sent \subseteq 1..sent' /\ 0..sent \subseteq 0..sent'
  BY <1>1
<1>3. RowsOK'
  BY <1>1, <1>2, SpoolBoundsAssumption DEF RowsOK, SendLive, Msgs
<1>4. Outgoing(sent) \subseteq Outgoing(sent')
  <2>1. sent' \in Nat /\ sent <= sent'
    BY <1>1
  <2>. QED BY <1>1, <2>1, OutgoingGrows
<1>5. toBridge \in Seq(Outgoing(sent'))
  BY <1>4, SeqGrows DEF WiresOK
<1>6. Line("PRIVMSG", sent + 1) \in Outgoing(sent')
  BY <1>1, OutgoingLine DEF Verbs
<1>7. toBridge' \in Seq(Outgoing(sent'))
  <2>1. <<Line("PRIVMSG", sent + 1)>> \in Seq(Outgoing(sent'))
    BY <1>6
  <2>2. toBridge \o <<Line("PRIVMSG", sent + 1)>> \in Seq(Outgoing(sent'))
    BY <1>5, <2>1, ConcatProperties
  <2>. QED BY <1>5, <2>2 DEF SendLive, Written
<1>8. WiresOK'
  BY <1>7 DEF SendLive, WiresOK
<1>9. ReaderOK'
  BY <1>2 DEF SendLive, ReaderOK, bridgeVars
<1>. QED BY <1>3, <1>8, <1>9, FaultsSame DEF SendLive, faultVars

LEMMA SendSpooledStep == IInv /\ SendSpooled => IInv'
<1>. SUFFICES ASSUME IInv, SendSpooled PROVE IInv'
  OBVIOUS
<1>. USE DEF IInv
<1>1. sent \in Nat /\ sent' = sent + 1 /\ sent' \in 1..MaxMsgs
  BY SentNat, SpoolBoundsAssumption DEF SendSpooled, RowsOK
<1>2. 1..sent \subseteq 1..sent' /\ 0..sent \subseteq 0..sent' /\ sent' \in 1..sent' /\ sent' > sent
  BY <1>1
<1>3. RowsOK'
  <2>1. inserting' = inserting \cup {sent'} /\ spool' = spool /\ old' = old
    BY <1>1 DEF SendSpooled
  <2>2. spool[sent'] = "none"
    BY <1>1, <1>2 DEF RowsOK, Msgs
  <2>3. \A m \in Msgs : m > sent' => spool[m] = "none"
    BY <1>1, SpoolBoundsAssumption DEF RowsOK, Msgs
  <2>4. sent' \in 0..MaxMsgs /\ old' \in 0..sent' /\ inserting' \subseteq 1..sent'
    BY <1>1, <1>2, <2>1 DEF RowsOK
  <2>5. \A m \in inserting' : spool[m] = "none"
    BY <2>1, <2>2 DEF RowsOK
  <2>. QED BY <2>1, <2>3, <2>4, <2>5 DEF RowsOK
<1>4. Outgoing(sent) \subseteq Outgoing(sent')
  <2>1. sent' \in Nat /\ sent <= sent'
    BY <1>1
  <2>. QED BY <1>1, <2>1, OutgoingGrows
<1>5. toBridge \in Seq(Outgoing(sent'))
  BY <1>4, SeqGrows DEF WiresOK
<1>6. WiresOK'
  BY <1>5 DEF SendSpooled, WiresOK, wireVars
<1>7. ReaderOK'
  BY <1>2 DEF SendSpooled, ReaderOK, bridgeVars
<1>. QED BY <1>3, <1>6, <1>7, FaultsSame DEF SendSpooled, faultVars

LEMMA InsertedStep ==
  ASSUME IInv, NEW m \in Msgs, Inserted(m)
  PROVE  IInv'
<1>. USE DEF IInv
<1>1. m \in inserting /\ inserting' = inserting \ {m} /\ m \in 1..sent
  BY DEF Inserted, RowsOK
<1>2. sent \in Nat /\ \A k \in Msgs : k > sent => k # m
  BY <1>1, SentNat
<1>3. RowsOK'
  <2>1. CASE spool' = [spool EXCEPT ![m] = "unread"]
    BY <1>1, <1>2, <2>1 DEF Inserted, RowsOK
  <2>2. CASE spool' = spool
    BY <1>1, <2>2 DEF Inserted, RowsOK
  <2>. QED BY <2>1, <2>2 DEF Inserted
<1>. QED BY <1>3, WiresSame, ReaderSame, FaultsSame DEF Inserted, wireVars, bridgeVars, faultVars

LEMMA AgeStep == IInv /\ Age => IInv'
<1>. SUFFICES ASSUME IInv, Age PROVE IInv'
  OBVIOUS
<1>. USE DEF IInv
<1>1. old' \in 0..sent
  BY SentNat DEF Age, RowsOK
<1>2. RowsOK'
  BY <1>1 DEF Age, RowsOK
<1>. QED BY <1>2, WiresSame, ReaderSame, FaultsSame DEF Age, wireVars, bridgeVars, faultVars

LEMMA GcStep == IInv /\ Gc => IInv'
<1>. SUFFICES ASSUME IInv, Gc PROVE IInv'
  OBVIOUS
<1>. USE DEF IInv
<1>1. PICK M \in SUBSET Msgs :
        /\ Purged(M) /\ spool' = [m \in Msgs |-> IF m \in M THEN "purged" ELSE spool[m]]
        /\ UNCHANGED <<sent, inserting, old, reg, busy, wireVars, bridgeVars, seen, faultVars>>
  BY DEF Gc
<1>2. \A m \in M : spool[m] # "none"
  BY <1>1 DEF Purged
<1>3. RowsOK'
  <2>1. spool' \in [Msgs -> {"none", "unread", "read", "purged"}]
    BY <1>1 DEF RowsOK
  <2>2. \A m \in Msgs : spool[m] = "none" => spool'[m] = "none"
    BY <1>1, <1>2
  <2>3. inserting \subseteq Msgs
    BY SentNat, SpoolBoundsAssumption DEF RowsOK, Msgs
  <2>. QED BY <1>1, <2>1, <2>2, <2>3 DEF RowsOK
<1>. QED BY <1>1, <1>3, WiresSame, ReaderSame, FaultsSame DEF wireVars, bridgeVars, faultVars

LEMMA RegisterStep == IInv /\ Register => IInv'
<1>. SUFFICES ASSUME IInv, Register PROVE IInv'
  OBVIOUS
<1>. USE DEF IInv
<1>1. toServer' \in Seq(Incoming(seen))
  BY Serves DEF Register
<1>2. Line("001", 0) \in Outgoing(sent) /\ Line("433", 0) \in Outgoing(sent)
  BY SentNat, PlainLines
<1>3. toBridge' \in Seq(Outgoing(sent)) /\ reg' \in {"none", "current", "stale"}
  BY <1>2, Appended DEF Register, WiresOK
<1>4. WiresOK'
  BY <1>1, <1>3 DEF Register, WiresOK
<1>. QED BY <1>4, RowsSame, ReaderSame, FaultsSame DEF Register, bridgeVars, faultVars

LEMMA NoticeStep == IInv /\ Notice => IInv'
<1>. SUFFICES ASSUME IInv, Notice PROVE IInv'
  OBVIOUS
<1>1. WiresOK'
  BY DEF IInv, Notice, WiresOK, wireVars
<1>. QED BY <1>1, RowsSame, ReaderSame, FaultsSame DEF IInv, Notice, wireVars, bridgeVars, faultVars

LEMMA BeginStep == IInv /\ Begin => IInv'
<1>. SUFFICES ASSUME IInv, Begin PROVE IInv'
  OBVIOUS
<1>. USE DEF IInv
<1>1. busy' \in Incoming(seen) /\ toServer' \in Seq(Incoming(seen))
  BY Serves DEF Begin
<1>2. WiresOK'
  BY <1>1 DEF Begin, WiresOK
<1>. QED BY <1>2, RowsSame, ReaderSame, FaultsSame DEF Begin, bridgeVars, faultVars

LEMMA HandOutStep == IInv /\ HandOut => IInv'
<1>. SUFFICES ASSUME IInv, HandOut PROVE IInv'
  OBVIOUS
<1>. USE DEF IInv
<1>1. Line("END", 0) \in Outgoing(sent) /\ Free \in Incoming(seen)
  BY SentNat, PlainLines
<1>2. Append(Batch, Line("END", 0)) \in Seq(Outgoing(sent))
  BY <1>1, BatchLines, Appended
<1>3. toBridge' \in Seq(Outgoing(sent))
  BY <1>2, WrittenOK DEF HandOut
<1>4. WiresOK'
  BY <1>1, <1>3 DEF HandOut, WiresOK
<1>. QED BY <1>4, RowsSame, ReaderSame, FaultsSame DEF HandOut, bridgeVars, faultVars

\* Only what was acknowledged is looked up, ...
LEMMA FindStep == IInv /\ Find => IInv'
<1>. SUFFICES ASSUME IInv, Find PROVE IInv'
  OBVIOUS
<1>. USE DEF IInv
<1>1. busy \in Lines /\ busy.msg \in seen
  BY DEF Find, WiresOK, Incoming
<1>2. [busy EXCEPT !.verb = "mark"] \in Incoming(seen)
  BY <1>1 DEF Incoming, Lines, Verbs
<1>3. Free \in Incoming(seen)
  BY SentNat, PlainLines
<1>4. WiresOK'
  BY <1>2, <1>3 DEF Find, WiresOK, wireVars
<1>. QED BY <1>4, RowsSame, ReaderSame, FaultsSame DEF Find, wireVars, bridgeVars, faultVars

\* ... and marked.
LEMMA MarkStep == IInv /\ Mark => IInv'
<1>. SUFFICES ASSUME IInv, Mark PROVE IInv'
  OBVIOUS
<1>. USE DEF IInv
<1>1. Free \in Incoming(seen)
  BY SentNat, PlainLines
<1>2. WiresOK'
  BY <1>1 DEF Mark, WiresOK, wireVars
<1>3. RowsOK'
  <2>1. CASE spool[busy.msg] = "unread"
    <3>1. spool' = [spool EXCEPT ![busy.msg] = "read"]
      BY <2>1 DEF Mark
    <3>2. spool' \in [Msgs -> {"none", "unread", "read", "purged"}]
      BY <3>1 DEF RowsOK
    <3>3. \A m \in Msgs : spool[m] = "none" => spool'[m] = "none"
      BY <2>1, <3>1 DEF RowsOK
    <3>4. inserting \subseteq Msgs
      BY SentNat, SpoolBoundsAssumption DEF RowsOK, Msgs
    <3>. QED BY <3>2, <3>3, <3>4 DEF Mark, RowsOK
  <2>2. CASE spool[busy.msg] # "unread"
    BY <2>2, RowsSame DEF Mark
  <2>. QED BY <2>1, <2>2
<1>. QED BY <1>2, <1>3, ReaderSame, FaultsSame DEF Mark, wireVars, bridgeVars, faultVars

-----------------------------------------------------------------------------
(* The steps of the connection, the bridge and the session. *)

\* A crash of the server ends its command and its insertions with the connection.
LEMMA ServerCrashStep == IInv /\ ServerCrash => IInv'
<1>. SUFFICES ASSUME IInv, ServerCrash PROVE IInv'
  OBVIOUS
<1>. USE DEF IInv
<1>1. RowsOK'
  BY DEF ServerCrash, RowsOK
<1>2. Free \in Incoming(seen)
  BY SentNat, PlainLines
<1>3. <<>> \in Seq(Incoming(seen)) /\ <<>> \in Seq(Outgoing(sent))
  BY EmptySeq
<1>4. WiresOK'
  BY <1>2, <1>3 DEF ServerCrash, WiresOK
<1>5. FaultsOK'
  BY SpoolBoundsAssumption DEF ServerCrash, FaultsOK
<1>. QED BY <1>1, <1>4, <1>5, ReaderSame DEF ServerCrash, bridgeVars

LEMMA BreakStep == IInv /\ Break => IInv'
<1>. SUFFICES ASSUME IInv, Break PROVE IInv'
  OBVIOUS
<1>. USE DEF IInv
<1>1. WiresOK'
  BY Cut DEF Break
<1>2. FaultsOK'
  BY SpoolBoundsAssumption DEF Break, FaultsOK
<1>. QED BY <1>1, <1>2, RowsSame, ReaderSame DEF Break, bridgeVars

LEMMA ReconnectStep == IInv /\ Reconnect => IInv'
<1>. SUFFICES ASSUME IInv, Reconnect PROVE IInv'
  OBVIOUS
<1>. USE DEF IInv
<1>1. WiresOK'
  BY Cut DEF Reconnect, serverVars
<1>. QED BY <1>1, RowsSame, ReaderSame, FaultsSame
         DEF Reconnect, serverVars, bridgeVars, faultVars

LEMMA BridgeStartStep == IInv /\ BridgeStart => IInv'
<1>. SUFFICES ASSUME IInv, BridgeStart PROVE IInv'
  OBVIOUS
<1>. USE DEF IInv
<1>1. WiresOK'
  BY Cut DEF BridgeStart, serverVars
<1>2. ReaderOK'
  BY DEF BridgeStart, ReaderOK, serverVars
<1>. QED BY <1>1, <1>2, RowsSame, FaultsSame DEF BridgeStart, serverVars, faultVars

LEMMA BridgeCrashStep == IInv /\ BridgeCrash => IInv'
<1>. SUFFICES ASSUME IInv, BridgeCrash PROVE IInv'
  OBVIOUS
<1>. USE DEF IInv
<1>1. WiresOK'
  BY Cut DEF BridgeCrash, Died
<1>2. ReaderOK'
  BY DEF BridgeCrash, Died, ReaderOK
<1>3. FaultsOK'
  BY SpoolBoundsAssumption DEF BridgeCrash, FaultsOK
<1>. QED BY <1>1, <1>2, <1>3, RowsSame DEF BridgeCrash

LEMMA NickInUseStep == IInv /\ NickInUse => IInv'
<1>. SUFFICES ASSUME IInv, NickInUse PROVE IInv'
  OBVIOUS
<1>. USE DEF IInv
<1>1. WiresOK'
  BY Cut DEF NickInUse, Died
<1>2. ReaderOK'
  BY DEF NickInUse, Died, ReaderOK
<1>. QED BY <1>1, <1>2, RowsSame, FaultsSame DEF NickInUse, faultVars

LEMMA WelcomeStep == IInv /\ Welcome => IInv'
<1>. SUFFICES ASSUME IInv, Welcome PROVE IInv'
  OBVIOUS
<1>. USE DEF IInv
<1>1. Line("CHATHISTORY", 0) \in Incoming(seen)
  BY SentNat, PlainLines
<1>2. toServer' \in Seq(Incoming(seen))
  BY <1>1, SayOK DEF Welcome
<1>3. toBridge' \in Seq(Outgoing(sent))
  BY Reads DEF Welcome, ReadOn
<1>4. WiresOK'
  BY <1>2, <1>3 DEF Welcome, WiresOK, serverVars
<1>. QED BY <1>4, RowsSame, ReaderSame, FaultsSame
         DEF Welcome, serverVars, bridgeVars, faultVars

LEMMA EndStep == IInv /\ End => IInv'
<1>. SUFFICES ASSUME IInv, End PROVE IInv'
  OBVIOUS
<1>. USE DEF IInv
<1>1. toBridge' \in Seq(Outgoing(sent))
  BY Reads DEF End, ReadOn
<1>2. WiresOK'
  BY <1>1 DEF End, WiresOK, serverVars
<1>. QED BY <1>2, RowsSame, ReaderSame, FaultsSame
         DEF End, serverVars, bridgeVars, faultVars

\* What reaches the inbox was sent.
LEMMA SpooledOK ==
  ASSUME IInv, NEW verb \in {"PRIVMSG", "entry"}, Receives(verb), NEW m,
         m = Head(toBridge).msg, Spooled(m)
  PROVE  /\ m \in reached' /\ reached \subseteq reached' /\ reached' \subseteq 1..sent
         /\ inbox' \in Seq(reached')
<1>. USE DEF IInv
<1>1. m \in 1..sent
  BY Reads DEF Outgoing
<1>2. reached' = reached \cup {m} /\ inbox' = Append(inbox, m)
  BY DEF Spooled
<1>3. inbox \in Seq(reached \cup {m})
  BY SeqGrows DEF ReaderOK
<1>4. Append(inbox, m) \in Seq(reached \cup {m})
  BY <1>3, Appended
<1>. QED BY <1>1, <1>2, <1>4 DEF ReaderOK

LEMMA LiveStep == IInv /\ Live => IInv'
<1>. SUFFICES ASSUME IInv, Live PROVE IInv'
  OBVIOUS
<1>1. /\ reached \subseteq reached' /\ reached' \subseteq 1..sent
      /\ inbox' \in Seq(reached')
  BY SpooledOK DEF Live
<1>. USE DEF IInv
<1>2. toBridge' \in Seq(Outgoing(sent))
  BY Reads DEF Live, ReadOn
<1>3. WiresOK'
  BY <1>2 DEF Live, WiresOK, serverVars
<1>4. ReaderOK'
  BY <1>1 DEF Live, ReaderOK, serverVars
<1>. QED BY <1>3, <1>4, RowsSame, FaultsSame DEF Live, serverVars, faultVars

LEMMA EntryStep == IInv /\ Entry => IInv'
<1>. SUFFICES ASSUME IInv, Entry PROVE IInv'
  OBVIOUS
<1>1. /\ Head(toBridge).msg \in reached'
      /\ reached \subseteq reached' /\ reached' \subseteq 1..sent
      /\ inbox' \in Seq(reached')
  BY SpooledOK DEF Entry
<1>. USE DEF IInv
<1>2. toBridge' \in Seq(Outgoing(sent))
  BY Reads DEF Entry, ReadOn
<1>3. WiresOK'
  BY <1>2 DEF Entry, WiresOK, serverVars
<1>4. ReaderOK'
  BY <1>1 DEF Entry, ReaderOK, serverVars
<1>. QED BY <1>3, <1>4, RowsSame, FaultsSame DEF Entry, serverVars, faultVars

LEMMA DrainShows ==
  ASSUME IInv, Drain
  PROVE  seen \subseteq seen' /\ seen' \subseteq reached
<1>1. PICK n : seen' = seen \cup {inbox[i] : i \in {j \in DOMAIN inbox : j <= n}}
  BY DEF Drain
<1>2. inbox \in Seq(reached) /\ seen \subseteq reached
  BY DEF IInv, ReaderOK
<1>3. DOMAIN inbox = 1..Len(inbox)
  BY <1>2, LenProperties
<1>4. \A i \in DOMAIN inbox : inbox[i] \in reached
  BY <1>2, <1>3, ElementOfSeq
<1>. QED BY <1>1, <1>2, <1>4

LEMMA DrainStep == IInv /\ Drain => IInv'
<1>. SUFFICES ASSUME IInv, Drain PROVE IInv'
  OBVIOUS
<1>1. seen \subseteq seen' /\ seen' \subseteq reached
  BY DrainShows
<1>. USE DEF IInv
<1>2. Incoming(seen) \subseteq Incoming(seen')
  BY <1>1, IncomingGrows
<1>3. toServer \in Seq(Incoming(seen'))
  BY <1>2, SeqGrows DEF WiresOK
<1>4. WiresOK'
  BY <1>2, <1>3 DEF Drain, WiresOK, serverVars, wireVars
<1>5. <<>> \in Seq(reached)
  BY EmptySeq
<1>6. ReaderOK'
  BY <1>1, <1>5 DEF Drain, ReaderOK, serverVars
<1>. QED BY <1>4, <1>6, RowsSame, FaultsSame DEF Drain, serverVars, faultVars

LEMMA AckStep ==
  ASSUME IInv, NEW m \in Msgs, Ack(m)
  PROVE  IInv'
<1>. USE DEF IInv
<1>1. m \in seen /\ m \in 0..MaxMsgs
  BY SpoolBoundsAssumption DEF Ack, Msgs
<1>2. Line("DELETE", m) \in Incoming(seen)
  BY <1>1, IncomingLine DEF Verbs
<1>3. toServer' \in Seq(Incoming(seen))
  BY <1>2, SayOK DEF Ack
<1>4. WiresOK'
  BY <1>3 DEF Ack, WiresOK, serverVars
<1>5. ReaderOK'
  BY DEF Ack, ReaderOK, serverVars
<1>. QED BY <1>4, <1>5, RowsSame, FaultsSame DEF Ack, serverVars, faultVars

-----------------------------------------------------------------------------
(* Invariance. *)

LEMMA InitIInv == Init => IInv
<1>. SUFFICES ASSUME Init PROVE IInv
  OBVIOUS
<1>1. Free \in Incoming({}) /\ <<>> \in Seq(Incoming({})) /\ <<>> \in Seq(Outgoing(0))
  BY PlainLines, EmptySeq
<1>2. RowsOK
  BY SpoolBoundsAssumption DEF Init, RowsOK
<1>3. WiresOK
  BY <1>1 DEF Init, WiresOK
<1>4. ReaderOK
  BY EmptySeq DEF Init, ReaderOK
<1>5. FaultsOK
  BY SpoolBoundsAssumption DEF Init, FaultsOK
<1>. QED BY <1>2, <1>3, <1>4, <1>5 DEF IInv

LEMMA NextIInv == IInv /\ [Next]_vars => IInv'
<1>. SUFFICES ASSUME IInv, [Next]_vars PROVE IInv'
  OBVIOUS
<1>1. CASE Server
  BY <1>1, InsertedStep, RegisterStep, NoticeStep, BeginStep, HandOutStep, FindStep, MarkStep
     DEF Server
<1>2. CASE Bridge
  BY <1>2, ReconnectStep, WelcomeStep, NickInUseStep, LiveStep, EntryStep, EndStep DEF Bridge
<1>3. CASE Session
  BY <1>3, DrainStep, AckStep DEF Session
<1>4. CASE SendLive \/ SendSpooled \/ Age \/ Gc
  BY <1>4, SendLiveStep, SendSpooledStep, AgeStep, GcStep
<1>5. CASE Break \/ BridgeStart \/ BridgeCrash \/ ServerCrash
  BY <1>5, BreakStep, BridgeStartStep, BridgeCrashStep, ServerCrashStep
<1>6. CASE UNCHANGED vars
  BY <1>6, RowsSame, WiresSame, ReaderSame, FaultsSame
     DEF IInv, vars, serverVars, wireVars, bridgeVars, faultVars
<1>. QED BY <1>1, <1>2, <1>3, <1>4, <1>5, <1>6 DEF Next

LEMMA Invariance == Spec => []IInv
BY InitIInv, NextIInv, PTL DEF Spec

LEMMA IInvTypes == IInv => TypeOK
<1>. SUFFICES ASSUME IInv PROVE TypeOK
  OBVIOUS
<1>1. Incoming(seen) \subseteq Lines /\ Outgoing(sent) \subseteq Lines
  BY DEF Incoming, Outgoing
<1>2. toServer \in Seq(Lines) /\ toBridge \in Seq(Lines) /\ busy \in Lines
  BY <1>1, SeqGrows DEF IInv, WiresOK
<1>3. inbox \in Seq(1..sent)
  BY SeqGrows DEF IInv, ReaderOK
<1>. QED BY <1>2, <1>3 DEF IInv, RowsOK, WiresOK, ReaderOK, FaultsOK, TypeOK

\* Only messages that were sent are anywhere on their way, and what is pending or
\* was shown has been in the bridge's inbox.
THEOREM TypeCorrect == Spec => []TypeOK
BY Invariance, IInvTypes, PTL

-----------------------------------------------------------------------------
(* The spool as a mailbox. *)

\* Every step of the spool, the server, the bridge and the session is a step of
\* the mailbox or leaves it as it is.
LEMMA StepSimulation == IInv /\ IInv' /\ [Next]_vars => [BoxSpec!Next]_BoxSpec!vars
<1>. SUFFICES ASSUME IInv, IInv', [Next]_vars PROVE [BoxSpec!Next]_BoxSpec!vars
  OBVIOUS
<1>. USE DEF BoxSpec!vars, serverVars, wireVars, bridgeVars, faultVars
<1>1. ASSUME NEW m \in Msgs, Inserted(m) PROVE [BoxSpec!Next]_BoxSpec!vars
  <2>1. spool[m] = "none"
    BY <1>1 DEF Inserted, IInv, RowsOK
  <2>2. BoxSpec!TakeIn(m) \/ UNCHANGED BoxSpec!vars
    BY <1>1, <2>1 DEF Inserted, BoxSpec!TakeIn
  <2>. QED BY <2>2 DEF BoxSpec!Next
<1>2. CASE Mark
  <2>1. busy.msg \in seen /\ seen \subseteq Msgs
    <3>1. busy.msg \in seen
      BY <1>2 DEF Mark, IInv, WiresOK, Incoming
    <3>2. seen \subseteq 1..sent /\ sent \in Nat /\ sent \in 0..MaxMsgs
      BY SentNat DEF IInv, ReaderOK
    <3>. QED BY <3>1, <3>2, SpoolBoundsAssumption DEF Msgs
  <2>2. BoxSpec!Settle(busy.msg) \/ UNCHANGED BoxSpec!vars
    BY <1>2, <2>1 DEF Mark, BoxSpec!Settle
  <2>. QED BY <2>1, <2>2 DEF BoxSpec!Next
<1>3. CASE Gc
  <2>1. PICK M \in SUBSET Msgs : BoxSpec!Purge(M)
    BY <1>3 DEF Gc, Purged, BoxSpec!Purge
  <2>. QED BY <2>1 DEF BoxSpec!Next
<1>4. CASE Age
  <2>1. old' \in Nat /\ old' > old
    BY <1>4, SentNat DEF Age, IInv, RowsOK
  <2>. QED BY <1>4, <2>1 DEF Age, BoxSpec!Age, BoxSpec!Next
<1>5. CASE Drain
  <2>1. seen \subseteq seen' /\ seen' \subseteq reached
    BY <1>5, DrainShows
  <2>2. reached \subseteq 1..sent /\ sent \in Nat /\ sent \in 0..MaxMsgs
    BY SentNat DEF IInv, ReaderOK
  <2>3. seen' \in SUBSET Msgs
    BY <2>1, <2>2, SpoolBoundsAssumption DEF Msgs
  <2>. QED BY <1>5, <2>1, <2>3 DEF Drain, BoxSpec!Show, BoxSpec!Next
<1>6. CASE Register \/ Notice \/ Begin \/ HandOut \/ Find
  BY <1>6 DEF Register, Notice, Begin, HandOut, Find
<1>7. CASE Bridge \/ BridgeStart
  BY <1>7 DEF Bridge, Reconnect, Welcome, NickInUse, Live, Entry, End, BridgeStart
<1>8. CASE SendLive \/ SendSpooled
  BY <1>8 DEF SendLive, SendSpooled
<1>9. CASE Break \/ BridgeCrash \/ ServerCrash
  BY <1>9 DEF Break, BridgeCrash, ServerCrash
<1>10. ASSUME NEW m \in Msgs, Ack(m) PROVE UNCHANGED BoxSpec!vars
  BY <1>10 DEF Ack
<1>11. CASE UNCHANGED vars
  BY <1>11 DEF vars
<1>. QED BY <1>1, <1>2, <1>3, <1>4, <1>5, <1>6, <1>7, <1>8, <1>9, <1>10, <1>11
         DEF Next, Server, Session

\* A message that is taken in for a boss who is away stays unread until the
\* session was shown it and said so, or it is too old, whatever breaks or dies
\* between the hand-out, the inbox, the acknowledgement and the mark.
THEOREM SpoolIsMailbox == Spec => MailboxSpec
<1>1. Init => BoxSpec!Init
  BY DEF Init, BoxSpec!Init
<1>. QED BY <1>1, Invariance, StepSimulation, PTL DEF Spec, MailboxSpec, BoxSpec!Spec

=============================================================================
