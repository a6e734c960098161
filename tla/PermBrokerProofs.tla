-------------------------- MODULE PermBrokerProofs --------------------------
(***************************************************************************)
(* Proofs about PermBroker, for any numbers of workers, requests, tools    *)
(* and approvers: the type invariant, that neither the workers nor the     *)
(* bridge ever add a rule to a policy that is bare or that nobody meant,   *)
(* that no empty decision file is left behind, and that the broker         *)
(* implements PermRegister.                                                *)
(*                                                                         *)
(* The invariants on policies are not inductive: a rule travels from a     *)
(* decision over the locals of gate to the policy, and the policies that   *)
(* are read in between come back later.  Safe says of each of these places *)
(* what the invariants say of the policies.  Answers does the same for the *)
(* verdicts: an allowance in a file or in a local was told on this request.*)
(***************************************************************************)
EXTENDS PermBroker, TLAPS

\* A policy of w, or an old copy of one, that has only rules that it may have.
Narrow(rule) == rule.tool \in HighRisk => rule.narrow
Sound(P, w)  == \A rule \in P.auto_allow : Narrow(rule) /\ rule \in given[w]

\* What was asked has a worker and a call.
AskedKnown ==
  \A r \in Requests : IF gate[r] = "new" THEN by[r] = None
                      ELSE by[r] \in Workers /\ call[r] \in Calls

\* Approvers act only on what was asked.
QueueAsked == \A r \in queue : gate[r] # "new"
DecidedAsked ==
  \A a \in Approvers : approver[a].at # "idle" =>
    approver[a].req \in Requests /\ gate[approver[a].req] # "new"

\* The rule of an allowance for good is one that somebody meant the worker to have.
Meant(d, r) ==
  d.scope = "always" => gate[r] # "new" /\ RuleOf(d, call[r].tool) \in given[by[r]]

\* Policies, decisions, the locals of gate and those of the bridge hold such rules only.
PoliciesSound  == \A w \in Workers : Sound(policy[w], w)
DecisionsMeant == \A r \in Requests : Meant(decision[r], r) /\ Meant(local[r].decision, r)
LocalSound ==
  \A r \in Requests :
    /\ gate[r] \in {"sticky", "appending"} => Sticks(r)
    /\ gate[r] = "appending" => Sound(local[r].policy, by[r])
EditorSound ==
  editor.worker # None =>
    /\ Narrow(editor.rule) /\ editor.rule \in given[editor.worker]
    /\ Sound(editor.seen, editor.worker)

\* The strengthening of the three invariants.
Safe == /\ AskedKnown /\ QueueAsked /\ DecidedAsked
        /\ PoliciesSound /\ DecisionsMeant /\ LocalSound /\ EditorSound

\* What a step does not undo: a request that was asked, and what was meant.
Asked == /\ \A r \in Requests : gate[r] # "new" =>
              gate'[r] # "new" /\ by'[r] = by[r] /\ call'[r] = call[r]
         /\ \A w \in Workers : given[w] \subseteq given'[w]

IInv == TypeOK /\ Safe

-----------------------------------------------------------------------------
\* What is at a path without a decision is no decision.
LEMMA Constructors ==
  /\ Absent \notin Decisions /\ Empty \notin Decisions
  /\ TimeoutDecision \in Decisions
  /\ NoPolicy \in Policies /\ Seeded \in Policies
BY SeedAssumption
   DEF Absent, Empty, Decisions, TimeoutDecision, NoPolicy, Policies, Seeded, Rules

\* A decision on a call of a tool makes a rule about a tool.
LEMMA RuleTyped ==
  \A d \in Decisions, t \in Tools : RuleOf(d, t) \in Rules
BY DEF RuleOf, Decisions, Rules

\* Every action keeps the types.
LEMMA TypeStep == IInv /\ [Next]_vars => TypeOK'
<1> SUFFICES ASSUME IInv, [Next]_vars PROVE TypeOK'
  OBVIOUS
<1> USE Constructors DEF IInv, TypeOK, files, workers, bounds
<1>1. ASSUME NEW w \in Workers, NEW r \in Requests, NEW c \in Calls, Ask(w, r, c)
      PROVE TypeOK'
  <2>1. Verdict(c, policy[w]) \in {"allow", "deny", "ask"}
    BY DEF Verdict
  <2>2. NoLocal \in [decision : Decisions, policy : Policies]
    BY DEF NoLocal
  <2>3. CASE Verdict(c, policy[w]) = "ask"
    <3>1. /\ by' = [by EXCEPT ![r] = w] /\ call' = [call EXCEPT ![r] = c]
          /\ queue' = queue \cup {r} /\ gate' = [gate EXCEPT ![r] = "waiting"]
          /\ UNCHANGED <<local, result>>
      BY <1>1, <2>3 DEF Ask, MoveTo
    <3>2. UNCHANGED <<alive, decision, policy, approver, editor, cleaner, bounds, told,
                      dead, given>>
      BY <1>1 DEF Ask
    <3>. QED BY <3>1, <3>2
  <2>4. CASE Verdict(c, policy[w]) # "ask"
    <3>1. /\ by' = [by EXCEPT ![r] = w] /\ call' = [call EXCEPT ![r] = c]
          /\ queue' = queue /\ gate' = [gate EXCEPT ![r] = "done"]
          /\ result' = [result EXCEPT ![r] = Verdict(c, policy[w])]
          /\ local' = [local EXCEPT ![r] = NoLocal]
      BY <1>1, <2>4 DEF Ask, MoveTo, Return
    <3>2. UNCHANGED <<alive, decision, policy, approver, editor, cleaner, bounds, told,
                      dead, given>>
      BY <1>1 DEF Ask
    <3>. QED BY <2>1, <2>2, <2>4, <3>1, <3>2 DEF bounds
  <2>. QED BY <2>3, <2>4
<1>2. ASSUME NEW r \in Requests, Read(r) PROVE TypeOK'
  <2>1. decision[r] \in Decisions
    BY <1>2 DEF Read
  <2>. QED BY <1>2, <2>1 DEF Read, Take, MoveTo
<1>3. ASSUME NEW r \in Requests, TimeOut(r) PROVE TypeOK'
  BY <1>3, ZenonT(60) DEF TimeOut, Take, MoveTo
<1>4. ASSUME NEW r \in Requests, Cancel(r) PROVE TypeOK'
  BY <1>4 DEF Cancel, MoveTo, Return, NoLocal
<1>5. ASSUME NEW r \in Requests, Unqueue(r) PROVE TypeOK'
  BY <1>5 DEF Unqueue, MoveTo
<1>6. ASSUME NEW r \in Requests, Unlink(r) PROVE TypeOK'
  <2>1. local[r].decision.verdict \in {"allow", "deny"}
    BY DEF Decisions
  <2>2. NoLocal \in [decision : Decisions, policy : Policies]
    BY DEF NoLocal
  <2>3. CASE Sticks(r)
    <3>1. /\ decision' = [decision EXCEPT ![r] = Absent]
          /\ gate' = [gate EXCEPT ![r] = "sticky"]
          /\ UNCHANGED <<local, result>>
      BY <1>6, <2>3 DEF Unlink, MoveTo
    <3>2. UNCHANGED <<queue, policy, alive, by, call, approver, editor, cleaner, bounds, told,
                      dead, given>>
      BY <1>6 DEF Unlink
    <3>. QED BY <3>1, <3>2
  <2>4. CASE ~Sticks(r)
    <3>1. /\ decision' = [decision EXCEPT ![r] = Absent]
          /\ gate' = [gate EXCEPT ![r] = "done"]
          /\ result' = [result EXCEPT ![r] = local[r].decision.verdict]
          /\ local' = [local EXCEPT ![r] = NoLocal]
      BY <1>6, <2>4 DEF Unlink, MoveTo, Return
    <3>2. UNCHANGED <<queue, policy, alive, by, call, approver, editor, cleaner, bounds, told,
                      dead, given>>
      BY <1>6 DEF Unlink
    <3>. QED BY <2>1, <2>2, <3>1, <3>2 DEF bounds
  <2>. QED BY <2>3, <2>4
<1>7. ASSUME NEW r \in Requests, ReadPolicy(r) PROVE TypeOK'
  <2>1. policy[by[r]] \in Policies
    BY <1>7 DEF ReadPolicy, Safe, AskedKnown
  <2>. QED BY <1>7, <2>1, ZenonT(60) DEF ReadPolicy, MoveTo
<1>8. ASSUME NEW r \in Requests, WritePolicy(r) PROVE TypeOK'
  <2>1. local[r].decision.verdict \in {"allow", "deny"}
    BY DEF Decisions
  <2>2. RuleOf(local[r].decision, call[r].tool) \in Rules
    BY <1>8, RuleTyped DEF WritePolicy, Safe, AskedKnown, Calls
  <2>3. With(local[r].policy, RuleOf(local[r].decision, call[r].tool)) \in Policies
    BY <2>2 DEF With, Policies
  <2>4. NoLocal \in [decision : Decisions, policy : Policies]
    BY DEF NoLocal
  <2>. QED BY <1>8, <2>1, <2>3, <2>4 DEF WritePolicy, MoveTo, Return
<1>9. ASSUME NEW w \in Workers, Crash(w) PROVE TypeOK'
  BY <1>9 DEF Crash, NoLocal
<1>10. ASSUME NEW w \in Workers, Start(w) PROVE TypeOK'
  BY <1>10 DEF Start
<1>11. ASSUME NEW a \in Approvers, NEW r \in Requests, NEW d \in Decisions,
              NEW t \in Tools \cup {None}, Look(a, r, d, t)
       PROVE TypeOK'
  BY <1>11 DEF Look
<1>12. ASSUME NEW a \in Approvers, Create(a) PROVE TypeOK'
  <2>1. approver[a].req \in Requests
    BY <1>12 DEF Create, Safe, DecidedAsked
  <2>2. CASE decision[approver[a].req] = Absent
    <3>1. /\ decision' = [decision EXCEPT ![approver[a].req] = Empty]
          /\ approver' = [approver EXCEPT ![a].at = "created"]
      BY <1>12, <2>2 DEF Create
    <3>2. UNCHANGED <<queue, policy, workers, editor, cleaner, bounds, told, dead, given>>
      BY <1>12 DEF Create
    <3>. QED BY <2>1, <3>1, <3>2, SMTT(30) DEF workers, bounds
  <2>3. CASE decision[approver[a].req] # Absent
    BY <1>12, <2>1, <2>3, SMTT(30) DEF Create, Idle
  <2>. QED BY <2>2, <2>3
<1>13. ASSUME NEW a \in Approvers, Install(a) PROVE TypeOK'
  <2>1. approver[a].req \in Requests /\ approver[a].decision \in Decisions
    BY <1>13 DEF Install, Safe, DecidedAsked
  <2>2. call[approver[a].req].tool \in Tools
    BY <1>13 DEF Install, Safe, DecidedAsked, AskedKnown, Calls
  <2>3. RuleOf(approver[a].decision, call[approver[a].req].tool) \in Rules
    BY <2>1, <2>2, RuleTyped
  <2>4. approver[a].decision.verdict \in {"allow", "deny"}
    BY <2>1 DEF Decisions
  <2>5. given' \in [Workers -> SUBSET Rules]
    BY <1>13, <2>3 DEF Install
  <2>6. told' \in [Requests -> SUBSET (Approvers \X {"allow", "deny"})]
    <3> DEFINE new == {<<a, approver[a].decision.verdict>>}
    <3>1. new \subseteq Approvers \X {"allow", "deny"}
      BY <2>4
    <3>2. told' = [told EXCEPT ![approver[a].req] = @ \cup new]
      BY <1>13 DEF Install
    <3> HIDE DEF new
    <3>. QED BY <3>1, <3>2
  <2>. QED BY <1>13, <2>1, <2>5, <2>6 DEF Install, Idle
<1>14. ASSUME NEW a \in Approvers, Fail(a) PROVE TypeOK'
  BY <1>14 DEF Fail, Idle
<1>15. ASSUME NEW a \in Approvers, Die(a) PROVE TypeOK'
  <2>1. approver[a].req \in Requests
    BY <1>15 DEF Die, Safe, DecidedAsked
  <2>. QED BY <1>15, <2>1 DEF Die, Idle
<1>16. ASSUME NEW w \in Workers, NEW rule \in Rules, Grant(w, rule) PROVE TypeOK'
  BY <1>16 DEF Grant, Edit
<1>17. ASSUME WriteGrant PROVE TypeOK'
  BY <1>17 DEF WriteGrant, With, NoGrant, Policies
<1>18. ASSUME NEW w \in Workers, NEW rule \in Rules, PutPolicy(w, rule) PROVE TypeOK'
  BY <1>18 DEF PutPolicy, Edit, Policies
<1>19. ASSUME CleanBegin PROVE TypeOK'
  BY <1>19 DEF CleanBegin, Edit
<1>20. ASSUME CleanList PROVE TypeOK'
  BY <1>20 DEF CleanList
<1>21. ASSUME NEW r \in Requests, CleanRequest(r) PROVE TypeOK'
  BY <1>21 DEF CleanRequest
<1>22. ASSUME CleanListDecisions PROVE TypeOK'
  BY <1>22 DEF CleanListDecisions
<1>23. ASSUME NEW r \in Requests, CleanDecision(r) PROVE TypeOK'
  BY <1>23 DEF CleanDecision
<1>24. ASSUME CleanEnd PROVE TypeOK'
  BY <1>24 DEF CleanEnd, NotCleaning
<1>25. CASE UNCHANGED vars
  BY <1>25 DEF vars
<1>. QED
  BY <1>1, <1>2, <1>3, <1>4, <1>5, <1>6, <1>7, <1>8, <1>9, <1>10, <1>11, <1>12, <1>13,
      <1>14, <1>15, <1>16, <1>17, <1>18, <1>19, <1>20, <1>21, <1>22, <1>23, <1>24, <1>25
     DEF Next, Worker, Approve, Manage, Resume, Finish

\* What was asked stays so, by the same worker about the same call.
LEMMA AskedStep == IInv /\ [Next]_vars => Asked
<1> SUFFICES ASSUME IInv, [Next]_vars PROVE Asked
  OBVIOUS
<1> USE DEF IInv, TypeOK, Asked, files, workers, bounds
<1>1. ASSUME NEW w \in Workers, NEW r \in Requests, NEW c \in Calls, Ask(w, r, c)
      PROVE Asked
  BY <1>1 DEF Ask, Verdict, MoveTo, Return
<1>2. ASSUME NEW r \in Requests, Read(r) PROVE Asked
  BY <1>2 DEF Read, Take, MoveTo
<1>3. ASSUME NEW r \in Requests, TimeOut(r) PROVE Asked
  BY <1>3 DEF TimeOut, Take, MoveTo
<1>4. ASSUME NEW r \in Requests, Cancel(r) PROVE Asked
  BY <1>4 DEF Cancel, MoveTo, Return
<1>5. ASSUME NEW r \in Requests, Unqueue(r) PROVE Asked
  BY <1>5 DEF Unqueue, MoveTo
<1>6. ASSUME NEW r \in Requests, Unlink(r) PROVE Asked
  BY <1>6 DEF Unlink, MoveTo, Return
<1>7. ASSUME NEW r \in Requests, ReadPolicy(r) PROVE Asked
  BY <1>7 DEF ReadPolicy, MoveTo
<1>8. ASSUME NEW r \in Requests, WritePolicy(r) PROVE Asked
  BY <1>8 DEF WritePolicy, MoveTo, Return, With, RuleOf
<1>9. ASSUME NEW w \in Workers, Crash(w) PROVE Asked
  BY <1>9 DEF Crash
<1>10. ASSUME NEW w \in Workers, Start(w) PROVE Asked
  BY <1>10 DEF Start
<1>11. ASSUME NEW a \in Approvers, NEW r \in Requests, NEW d \in Decisions,
              NEW t \in Tools \cup {None}, Look(a, r, d, t)
       PROVE Asked
  BY <1>11 DEF Look
<1>12. ASSUME NEW a \in Approvers, Create(a) PROVE Asked
  BY <1>12 DEF Create
<1>13. ASSUME NEW a \in Approvers, Install(a) PROVE Asked
  BY <1>13 DEF Install, RuleOf
<1>14. ASSUME NEW a \in Approvers, Fail(a) PROVE Asked
  BY <1>14 DEF Fail
<1>15. ASSUME NEW a \in Approvers, Die(a) PROVE Asked
  BY <1>15 DEF Die
<1>16. ASSUME NEW w \in Workers, NEW rule \in Rules, Grant(w, rule) PROVE Asked
  BY <1>16 DEF Grant, Edit
<1>17. ASSUME WriteGrant PROVE Asked
  BY <1>17 DEF WriteGrant, With
<1>18. ASSUME NEW w \in Workers, NEW rule \in Rules, PutPolicy(w, rule) PROVE Asked
  BY <1>18 DEF PutPolicy, Edit
<1>19. ASSUME CleanBegin PROVE Asked
  BY <1>19 DEF CleanBegin, Edit
<1>20. ASSUME CleanList PROVE Asked
  BY <1>20 DEF CleanList
<1>21. ASSUME NEW r \in Requests, CleanRequest(r) PROVE Asked
  BY <1>21 DEF CleanRequest
<1>22. ASSUME CleanListDecisions PROVE Asked
  BY <1>22 DEF CleanListDecisions
<1>23. ASSUME NEW r \in Requests, CleanDecision(r) PROVE Asked
  BY <1>23 DEF CleanDecision
<1>24. ASSUME CleanEnd PROVE Asked
  BY <1>24 DEF CleanEnd
<1>25. CASE UNCHANGED vars
  BY <1>25 DEF vars
<1>. QED
  BY <1>1, <1>2, <1>3, <1>4, <1>5, <1>6, <1>7, <1>8, <1>9, <1>10, <1>11, <1>12, <1>13,
      <1>14, <1>15, <1>16, <1>17, <1>18, <1>19, <1>20, <1>21, <1>22, <1>23, <1>24, <1>25
     DEF Next, Worker, Approve, Manage, Resume, Finish

\* Every action keeps what is known of a request, and of those who act on it.
LEMMA KnownStep == IInv /\ [Next]_vars => (AskedKnown /\ QueueAsked /\ DecidedAsked)'
<1> SUFFICES ASSUME IInv, [Next]_vars PROVE (AskedKnown /\ QueueAsked /\ DecidedAsked)'
  OBVIOUS
<1>a. Asked
  BY AskedStep
<1> USE <1>a DEF IInv, TypeOK, Safe, AskedKnown, QueueAsked, DecidedAsked, Asked, files,
    workers, bounds, Idle
<1>1. ASSUME NEW w \in Workers, NEW r \in Requests, NEW c \in Calls, Ask(w, r, c)
      PROVE (AskedKnown /\ QueueAsked /\ DecidedAsked)'
  <2>1. queue' \subseteq queue \cup {r} /\ approver' = approver
    BY <1>1 DEF Ask
  <2>2. by'[r] = w /\ call'[r] = c /\ gate'[r] # "new"
    BY <1>1 DEF Ask, Verdict, MoveTo, Return
  <2>3. \A q \in Requests \ {r} : gate'[q] = gate[q] /\ by'[q] = by[q] /\ call'[q] = call[q]
    BY <1>1 DEF Ask, Verdict, MoveTo, Return
  <2>. QED BY <2>1, <2>2, <2>3
<1>2. ASSUME NEW r \in Requests, Read(r) PROVE (AskedKnown /\ QueueAsked /\ DecidedAsked)'
  BY <1>2 DEF Read, Take, MoveTo
<1>3. ASSUME NEW r \in Requests, TimeOut(r)
      PROVE (AskedKnown /\ QueueAsked /\ DecidedAsked)'
  BY <1>3 DEF TimeOut, Take, MoveTo
<1>4. ASSUME NEW r \in Requests, Cancel(r) PROVE (AskedKnown /\ QueueAsked /\ DecidedAsked)'
  BY <1>4 DEF Cancel, MoveTo, Return
<1>5. ASSUME NEW r \in Requests, Unqueue(r)
      PROVE (AskedKnown /\ QueueAsked /\ DecidedAsked)'
  BY <1>5 DEF Unqueue, MoveTo
<1>6. ASSUME NEW r \in Requests, Unlink(r) PROVE (AskedKnown /\ QueueAsked /\ DecidedAsked)'
  BY <1>6 DEF Unlink, MoveTo, Return
<1>7. ASSUME NEW r \in Requests, ReadPolicy(r)
      PROVE (AskedKnown /\ QueueAsked /\ DecidedAsked)'
  BY <1>7 DEF ReadPolicy, MoveTo
<1>8. ASSUME NEW r \in Requests, WritePolicy(r)
      PROVE (AskedKnown /\ QueueAsked /\ DecidedAsked)'
  BY <1>8 DEF WritePolicy, MoveTo, Return, With, RuleOf
<1>9. ASSUME NEW w \in Workers, Crash(w) PROVE (AskedKnown /\ QueueAsked /\ DecidedAsked)'
  <2>1. AskedKnown'
    BY <1>9, NoneAssumption DEF Crash
  <2>2. queue' = queue /\ approver' = approver
    BY <1>9 DEF Crash, files
  <2>. QED BY <2>1, <2>2
<1>10. ASSUME NEW w \in Workers, Start(w) PROVE (AskedKnown /\ QueueAsked /\ DecidedAsked)'
  BY <1>10 DEF Start
<1>11. ASSUME NEW a \in Approvers, NEW r \in Requests, NEW d \in Decisions,
              NEW t \in Tools \cup {None}, Look(a, r, d, t)
       PROVE (AskedKnown /\ QueueAsked /\ DecidedAsked)'
  BY <1>11 DEF Look
<1>12. ASSUME NEW a \in Approvers, Create(a)
       PROVE (AskedKnown /\ QueueAsked /\ DecidedAsked)'
  <2>1. gate' = gate /\ by' = by /\ call' = call /\ queue' = queue
    BY <1>12 DEF Create, workers
  <2>2. \A b \in Approvers : approver'[b].at # "idle" =>
           approver[b].at # "idle" /\ approver'[b].req = approver[b].req
    <3>1. \/ approver' = [approver EXCEPT ![a].at = "created"]
          \/ approver' = [approver EXCEPT ![a] = Idle]
      BY <1>12 DEF Create
    <3>2. CASE approver' = [approver EXCEPT ![a].at = "created"]
      BY <1>12, <3>2 DEF Create
    <3>3. CASE approver' = [approver EXCEPT ![a] = Idle]
      BY <3>3 DEF Idle
    <3>. QED BY <3>1, <3>2, <3>3
  <2>. QED BY <2>1, <2>2
<1>13. ASSUME NEW a \in Approvers, Install(a)
       PROVE (AskedKnown /\ QueueAsked /\ DecidedAsked)'
  BY <1>13 DEF Install, RuleOf
<1>14. ASSUME NEW a \in Approvers, Fail(a) PROVE (AskedKnown /\ QueueAsked /\ DecidedAsked)'
  BY <1>14 DEF Fail
<1>15. ASSUME NEW a \in Approvers, Die(a) PROVE (AskedKnown /\ QueueAsked /\ DecidedAsked)'
  BY <1>15 DEF Die
<1>16. ASSUME NEW w \in Workers, NEW rule \in Rules, Grant(w, rule)
       PROVE (AskedKnown /\ QueueAsked /\ DecidedAsked)'
  BY <1>16 DEF Grant, Edit
<1>17. ASSUME WriteGrant PROVE (AskedKnown /\ QueueAsked /\ DecidedAsked)'
  BY <1>17 DEF WriteGrant, With
<1>18. ASSUME NEW w \in Workers, NEW rule \in Rules, PutPolicy(w, rule)
       PROVE (AskedKnown /\ QueueAsked /\ DecidedAsked)'
  BY <1>18 DEF PutPolicy, Edit
<1>19. ASSUME CleanBegin PROVE (AskedKnown /\ QueueAsked /\ DecidedAsked)'
  BY <1>19 DEF CleanBegin, Edit
<1>20. ASSUME CleanList PROVE (AskedKnown /\ QueueAsked /\ DecidedAsked)'
  BY <1>20 DEF CleanList
<1>21. ASSUME NEW r \in Requests, CleanRequest(r)
       PROVE (AskedKnown /\ QueueAsked /\ DecidedAsked)'
  BY <1>21 DEF CleanRequest
<1>22. ASSUME CleanListDecisions PROVE (AskedKnown /\ QueueAsked /\ DecidedAsked)'
  BY <1>22 DEF CleanListDecisions
<1>23. ASSUME NEW r \in Requests, CleanDecision(r)
       PROVE (AskedKnown /\ QueueAsked /\ DecidedAsked)'
  BY <1>23 DEF CleanDecision
<1>24. ASSUME CleanEnd PROVE (AskedKnown /\ QueueAsked /\ DecidedAsked)'
  BY <1>24 DEF CleanEnd
<1>25. CASE UNCHANGED vars
  BY <1>25 DEF vars
<1>. QED
  BY <1>1, <1>2, <1>3, <1>4, <1>5, <1>6, <1>7, <1>8, <1>9, <1>10, <1>11, <1>12, <1>13,
      <1>14, <1>15, <1>16, <1>17, <1>18, <1>19, <1>20, <1>21, <1>22, <1>23, <1>24, <1>25
     DEF Next, Worker, Approve, Manage, Resume, Finish

\* Two steps write a policy from an old copy of it, and one takes an allowance away.
LEMMA PoliciesStep == IInv /\ [Next]_vars => PoliciesSound'
<1> SUFFICES ASSUME IInv, [Next]_vars PROVE PoliciesSound'
  OBVIOUS
<1>a. Asked
  BY AskedStep
<1> USE <1>a DEF IInv, TypeOK, Safe, AskedKnown, DecidedAsked, Asked, PoliciesSound, Sound,
    Narrow, files, workers, bounds, Idle, NoLocal, NoGrant
<1>1. ASSUME NEW w \in Workers, NEW r \in Requests, NEW c \in Calls, Ask(w, r, c)
      PROVE PoliciesSound'
  BY <1>1 DEF Ask, Verdict, MoveTo, Return
<1>2. ASSUME NEW r \in Requests, Read(r) PROVE PoliciesSound'
  BY <1>2 DEF Read, Take, MoveTo
<1>3. ASSUME NEW r \in Requests, TimeOut(r) PROVE PoliciesSound'
  BY <1>3 DEF TimeOut, Take, MoveTo
<1>4. ASSUME NEW r \in Requests, Cancel(r) PROVE PoliciesSound'
  BY <1>4 DEF Cancel, MoveTo, Return
<1>5. ASSUME NEW r \in Requests, Unqueue(r) PROVE PoliciesSound'
  BY <1>5 DEF Unqueue, MoveTo
<1>6. ASSUME NEW r \in Requests, Unlink(r) PROVE PoliciesSound'
  BY <1>6 DEF Unlink, MoveTo, Return
<1>7. ASSUME NEW r \in Requests, ReadPolicy(r) PROVE PoliciesSound'
  BY <1>7 DEF ReadPolicy, MoveTo
<1>8. ASSUME NEW r \in Requests, WritePolicy(r) PROVE PoliciesSound'
  <2> DEFINE rule == RuleOf(local[r].decision, call[r].tool)
  <2>1. by[r] \in Workers /\ Sticks(r) /\ Sound(local[r].policy, by[r])
    BY <1>8 DEF WritePolicy, LocalSound
  <2>2. rule \in given[by[r]]
    BY <2>1 DEF DecisionsMeant, Meant, Sticks
  <2>3. Narrow(rule)
    BY <2>1 DEF Narrow, RuleOf, Sticks, Bare
  <2>4. /\ policy' = [policy EXCEPT ![by[r]] = With(local[r].policy, rule)]
        /\ given' = given
    BY <1>8 DEF WritePolicy
  <2>5. \A p \in With(local[r].policy, rule).auto_allow : Narrow(p) /\ p \in given[by[r]]
    <3> HIDE DEF rule
    <3>. QED BY <2>1, <2>2, <2>3 DEF With, Policies
  <2> HIDE DEF rule
  <2>. QED BY <2>1, <2>4, <2>5
<1>9. ASSUME NEW w \in Workers, Crash(w) PROVE PoliciesSound'
  BY <1>9 DEF Crash
<1>10. ASSUME NEW w \in Workers, Start(w) PROVE PoliciesSound'
  BY <1>10 DEF Start
<1>11. ASSUME NEW a \in Approvers, NEW r \in Requests, NEW d \in Decisions,
              NEW t \in Tools \cup {None}, Look(a, r, d, t)
       PROVE PoliciesSound'
  BY <1>11 DEF Look
<1>12. ASSUME NEW a \in Approvers, Create(a) PROVE PoliciesSound'
  BY <1>12 DEF Create
<1>13. ASSUME NEW a \in Approvers, Install(a) PROVE PoliciesSound'
  BY <1>13 DEF Install, RuleOf
<1>14. ASSUME NEW a \in Approvers, Fail(a) PROVE PoliciesSound'
  BY <1>14 DEF Fail
<1>15. ASSUME NEW a \in Approvers, Die(a) PROVE PoliciesSound'
  BY <1>15 DEF Die
<1>16. ASSUME NEW w \in Workers, NEW rule \in Rules, Grant(w, rule) PROVE PoliciesSound'
  BY <1>16 DEF Grant, Edit
<1>17. ASSUME WriteGrant PROVE PoliciesSound'
  <2>1. editor.worker \in Workers /\ editor.seen \in Policies
    BY <1>17 DEF WriteGrant
  <2>2. /\ Narrow(editor.rule) /\ editor.rule \in given[editor.worker]
        /\ Sound(editor.seen, editor.worker)
    BY <2>1, NoneAssumption DEF EditorSound
  <2>3. /\ \/ policy' = policy
           \/ policy' = [policy EXCEPT ![editor.worker] = With(editor.seen, editor.rule)]
        /\ given' = given
    BY <1>17 DEF WriteGrant
  <2>4. \A p \in With(editor.seen, editor.rule).auto_allow :
           Narrow(p) /\ p \in given[editor.worker]
    BY <2>1, <2>2 DEF With, Policies
  <2>. QED BY <2>1, <2>3, <2>4
<1>18. ASSUME NEW w \in Workers, NEW rule \in Rules, PutPolicy(w, rule) PROVE PoliciesSound'
  BY <1>18 DEF PutPolicy, Edit
<1>19. ASSUME CleanBegin PROVE PoliciesSound'
  BY <1>19 DEF CleanBegin, Edit
<1>20. ASSUME CleanList PROVE PoliciesSound'
  BY <1>20 DEF CleanList
<1>21. ASSUME NEW r \in Requests, CleanRequest(r) PROVE PoliciesSound'
  BY <1>21 DEF CleanRequest
<1>22. ASSUME CleanListDecisions PROVE PoliciesSound'
  BY <1>22 DEF CleanListDecisions
<1>23. ASSUME NEW r \in Requests, CleanDecision(r) PROVE PoliciesSound'
  BY <1>23 DEF CleanDecision
<1>24. ASSUME CleanEnd PROVE PoliciesSound'
  BY <1>24 DEF CleanEnd
<1>25. CASE UNCHANGED vars
  BY <1>25 DEF vars
<1>. QED
  BY <1>1, <1>2, <1>3, <1>4, <1>5, <1>6, <1>7, <1>8, <1>9, <1>10, <1>11, <1>12, <1>13,
      <1>14, <1>15, <1>16, <1>17, <1>18, <1>19, <1>20, <1>21, <1>22, <1>23, <1>24, <1>25
     DEF Next, Worker, Approve, Manage, Resume, Finish

\* Nothing that is at a path without a decision is for good.
LEMMA Once ==
  /\ Absent.scope = "once" /\ Empty.scope = "once" /\ TimeoutDecision.scope = "once"
  /\ NoLocal.decision = TimeoutDecision
BY DEF Absent, Empty, TimeoutDecision, NoLocal

\* Only Install makes a decision for good, and it records the rule as meant.
LEMMA DecisionsStep == IInv /\ [Next]_vars => DecisionsMeant'
<1> SUFFICES ASSUME IInv, [Next]_vars PROVE DecisionsMeant'
  OBVIOUS
<1>a. Asked
  BY AskedStep
<1> USE <1>a DEF IInv, TypeOK, Safe, AskedKnown, DecidedAsked, Asked, DecisionsMeant, Meant,
    files, workers, bounds, Idle, NoLocal, NoGrant
<1>1. ASSUME NEW w \in Workers, NEW r \in Requests, NEW c \in Calls, Ask(w, r, c)
      PROVE DecisionsMeant'
  <2>1. decision' = decision /\ given' = given
    BY <1>1 DEF Ask
  <2>2. \A q \in Requests : local'[q] = local[q] \/ local'[q] = NoLocal
    BY <1>1 DEF Ask, Verdict, MoveTo, Return
  <2>. QED BY <2>1, <2>2, Once
<1>2. ASSUME NEW r \in Requests, Read(r) PROVE DecisionsMeant'
  BY <1>2 DEF Read, Take, MoveTo
<1>3. ASSUME NEW r \in Requests, TimeOut(r) PROVE DecisionsMeant'
  <2>1. decision' = decision /\ given' = given
    BY <1>3 DEF TimeOut, Take, files
  <2>2. \A q \in Requests : \/ local'[q].decision = local[q].decision
                           \/ local'[q].decision = TimeoutDecision
    BY <1>3 DEF TimeOut, Take
  <2>. QED BY <2>1, <2>2, Once
<1>4. ASSUME NEW r \in Requests, Cancel(r) PROVE DecisionsMeant'
  <2>1. decision' = decision /\ given' = given
    BY <1>4 DEF Cancel, Return
  <2>2. \A q \in Requests : local'[q] = local[q] \/ local'[q] = NoLocal
    BY <1>4 DEF Cancel, Return
  <2>. QED BY <2>1, <2>2, Once
<1>5. ASSUME NEW r \in Requests, Unqueue(r) PROVE DecisionsMeant'
  BY <1>5 DEF Unqueue, MoveTo
<1>6. ASSUME NEW r \in Requests, Unlink(r) PROVE DecisionsMeant'
  <2>1. \A q \in Requests : decision'[q] = decision[q] \/ decision'[q] = Absent
    BY <1>6 DEF Unlink
  <2>2. given' = given /\ \A q \in Requests : local'[q] = local[q] \/ local'[q] = NoLocal
    BY <1>6 DEF Unlink, Return
  <2>. QED BY <2>1, <2>2, Once
<1>7. ASSUME NEW r \in Requests, ReadPolicy(r) PROVE DecisionsMeant'
  BY <1>7 DEF ReadPolicy, MoveTo
<1>8. ASSUME NEW r \in Requests, WritePolicy(r) PROVE DecisionsMeant'
  <2>1. decision' = decision /\ given' = given
    BY <1>8 DEF WritePolicy, Return
  <2>2. \A q \in Requests : local'[q] = local[q] \/ local'[q] = NoLocal
    BY <1>8 DEF WritePolicy, Return
  <2>. QED BY <2>1, <2>2, Once
<1>9. ASSUME NEW w \in Workers, Crash(w) PROVE DecisionsMeant'
  <2>1. decision' = decision /\ given' = given
    BY <1>9 DEF Crash, files
  <2>2. \A q \in Requests : local'[q] = local[q] \/ local'[q] = NoLocal
    BY <1>9 DEF Crash, files
  <2>. QED BY <2>1, <2>2, Once
<1>10. ASSUME NEW w \in Workers, Start(w) PROVE DecisionsMeant'
  BY <1>10 DEF Start
<1>11. ASSUME NEW a \in Approvers, NEW r \in Requests, NEW d \in Decisions,
              NEW t \in Tools \cup {None}, Look(a, r, d, t)
       PROVE DecisionsMeant'
  BY <1>11 DEF Look
<1>12. ASSUME NEW a \in Approvers, Create(a) PROVE DecisionsMeant'
  <2>1. \A q \in Requests : decision'[q] = decision[q] \/ decision'[q] = Empty
    BY <1>12 DEF Create
  <2>2. given' = given /\ local' = local
    BY <1>12 DEF Create, workers
  <2>. QED BY <2>1, <2>2, Once
<1>13. ASSUME NEW a \in Approvers, Install(a) PROVE DecisionsMeant'
  BY <1>13 DEF Install, RuleOf
<1>14. ASSUME NEW a \in Approvers, Fail(a) PROVE DecisionsMeant'
  <2>1. \A q \in Requests : decision'[q] = decision[q] \/ decision'[q] = Absent
    BY <1>14 DEF Fail
  <2>2. given' = given /\ local' = local
    BY <1>14 DEF Fail, workers
  <2>. QED BY <2>1, <2>2, Once
<1>15. ASSUME NEW a \in Approvers, Die(a) PROVE DecisionsMeant'
  BY <1>15 DEF Die
<1>16. ASSUME NEW w \in Workers, NEW rule \in Rules, Grant(w, rule) PROVE DecisionsMeant'
  BY <1>16 DEF Grant, Edit
<1>17. ASSUME WriteGrant PROVE DecisionsMeant'
  BY <1>17 DEF WriteGrant, With
<1>18. ASSUME NEW w \in Workers, NEW rule \in Rules, PutPolicy(w, rule)
       PROVE DecisionsMeant'
  BY <1>18 DEF PutPolicy, Edit
<1>19. ASSUME CleanBegin PROVE DecisionsMeant'
  BY <1>19 DEF CleanBegin, Edit
<1>20. ASSUME CleanList PROVE DecisionsMeant'
  BY <1>20 DEF CleanList
<1>21. ASSUME NEW r \in Requests, CleanRequest(r) PROVE DecisionsMeant'
  BY <1>21 DEF CleanRequest
<1>22. ASSUME CleanListDecisions PROVE DecisionsMeant'
  BY <1>22 DEF CleanListDecisions
<1>23. ASSUME NEW r \in Requests, CleanDecision(r) PROVE DecisionsMeant'
  <2>1. \A q \in Requests : decision'[q] = decision[q] \/ decision'[q] = Absent
    BY <1>23 DEF CleanDecision
  <2>2. given' = given /\ local' = local
    BY <1>23 DEF CleanDecision, workers
  <2>. QED BY <2>1, <2>2, Once
<1>24. ASSUME CleanEnd PROVE DecisionsMeant'
  BY <1>24 DEF CleanEnd
<1>25. CASE UNCHANGED vars
  BY <1>25 DEF vars
<1>. QED
  BY <1>1, <1>2, <1>3, <1>4, <1>5, <1>6, <1>7, <1>8, <1>9, <1>10, <1>11, <1>12, <1>13,
      <1>14, <1>15, <1>16, <1>17, <1>18, <1>19, <1>20, <1>21, <1>22, <1>23, <1>24, <1>25
     DEF Next, Worker, Approve, Manage, Resume, Finish

\* A gate holds a policy only after it has checked that its rule is not bare.
LEMMA LocalStep == IInv /\ [Next]_vars => LocalSound'
<1> SUFFICES ASSUME IInv, [Next]_vars PROVE LocalSound'
  OBVIOUS
<1>a. Asked
  BY AskedStep
<1> USE <1>a DEF IInv, TypeOK, Safe, AskedKnown, DecidedAsked, Asked, LocalSound, Sound,
    Narrow, Sticks, files, workers, bounds, Idle, NoLocal, NoGrant
<1>1. ASSUME NEW w \in Workers, NEW r \in Requests, NEW c \in Calls, Ask(w, r, c)
      PROVE LocalSound'
  BY <1>1 DEF Ask, Verdict, MoveTo, Return
<1>2. ASSUME NEW r \in Requests, Read(r) PROVE LocalSound'
  BY <1>2 DEF Read, Take, MoveTo
<1>3. ASSUME NEW r \in Requests, TimeOut(r) PROVE LocalSound'
  BY <1>3 DEF TimeOut, Take, MoveTo
<1>4. ASSUME NEW r \in Requests, Cancel(r) PROVE LocalSound'
  BY <1>4 DEF Cancel, MoveTo, Return
<1>5. ASSUME NEW r \in Requests, Unqueue(r) PROVE LocalSound'
  BY <1>5 DEF Unqueue, MoveTo
<1>6. ASSUME NEW r \in Requests, Unlink(r) PROVE LocalSound'
  BY <1>6 DEF Unlink, MoveTo, Return
<1>7. ASSUME NEW r \in Requests, ReadPolicy(r) PROVE LocalSound'
  <2>1. by[r] \in Workers /\ Sound(policy[by[r]], by[r]) /\ Sticks(r)
    BY <1>7 DEF ReadPolicy, PoliciesSound
  <2>2. /\ local' = [local EXCEPT ![r].policy = policy[by[r]]]
        /\ gate' = [gate EXCEPT ![r] = "appending"]
    BY <1>7 DEF ReadPolicy, MoveTo
  <2>3. given' = given /\ by' = by /\ call' = call
    BY <1>7 DEF ReadPolicy
  <2>4. \A q \in Requests : local'[q].decision = local[q].decision
    BY <2>2
  <2>5. local'[r].policy = policy[by[r]] /\ \A q \in Requests \ {r} : local'[q] = local[q]
    BY <2>2
  <2>. QED BY <2>1, <2>2, <2>3, <2>4, <2>5
<1>8. ASSUME NEW r \in Requests, WritePolicy(r) PROVE LocalSound'
  BY <1>8 DEF WritePolicy, MoveTo, Return, With, RuleOf
<1>9. ASSUME NEW w \in Workers, Crash(w) PROVE LocalSound'
  BY <1>9 DEF Crash
<1>10. ASSUME NEW w \in Workers, Start(w) PROVE LocalSound'
  BY <1>10 DEF Start
<1>11. ASSUME NEW a \in Approvers, NEW r \in Requests, NEW d \in Decisions,
              NEW t \in Tools \cup {None}, Look(a, r, d, t)
       PROVE LocalSound'
  BY <1>11 DEF Look
<1>12. ASSUME NEW a \in Approvers, Create(a) PROVE LocalSound'
  BY <1>12 DEF Create
<1>13. ASSUME NEW a \in Approvers, Install(a) PROVE LocalSound'
  BY <1>13 DEF Install, RuleOf
<1>14. ASSUME NEW a \in Approvers, Fail(a) PROVE LocalSound'
  BY <1>14 DEF Fail
<1>15. ASSUME NEW a \in Approvers, Die(a) PROVE LocalSound'
  BY <1>15 DEF Die
<1>16. ASSUME NEW w \in Workers, NEW rule \in Rules, Grant(w, rule) PROVE LocalSound'
  BY <1>16 DEF Grant, Edit
<1>17. ASSUME WriteGrant PROVE LocalSound'
  BY <1>17 DEF WriteGrant, With
<1>18. ASSUME NEW w \in Workers, NEW rule \in Rules, PutPolicy(w, rule) PROVE LocalSound'
  BY <1>18 DEF PutPolicy, Edit
<1>19. ASSUME CleanBegin PROVE LocalSound'
  BY <1>19 DEF CleanBegin, Edit
<1>20. ASSUME CleanList PROVE LocalSound'
  BY <1>20 DEF CleanList
<1>21. ASSUME NEW r \in Requests, CleanRequest(r) PROVE LocalSound'
  BY <1>21 DEF CleanRequest
<1>22. ASSUME CleanListDecisions PROVE LocalSound'
  BY <1>22 DEF CleanListDecisions
<1>23. ASSUME NEW r \in Requests, CleanDecision(r) PROVE LocalSound'
  BY <1>23 DEF CleanDecision
<1>24. ASSUME CleanEnd PROVE LocalSound'
  BY <1>24 DEF CleanEnd
<1>25. CASE UNCHANGED vars
  BY <1>25 DEF vars
<1>. QED
  BY <1>1, <1>2, <1>3, <1>4, <1>5, <1>6, <1>7, <1>8, <1>9, <1>10, <1>11, <1>12, <1>13,
      <1>14, <1>15, <1>16, <1>17, <1>18, <1>19, <1>20, <1>21, <1>22, <1>23, <1>24, <1>25
     DEF Next, Worker, Approve, Manage, Resume, Finish

\* The bridge checks its rule before it reads the policy.
LEMMA EditorStep == IInv /\ [Next]_vars => EditorSound'
<1> SUFFICES ASSUME IInv, [Next]_vars PROVE EditorSound'
  OBVIOUS
<1>a. Asked
  BY AskedStep
<1> USE <1>a DEF IInv, TypeOK, Safe, AskedKnown, DecidedAsked, Asked, EditorSound, Sound,
    Narrow, files, workers, bounds, Idle, NoLocal, NoGrant
<1>1. ASSUME NEW w \in Workers, NEW r \in Requests, NEW c \in Calls, Ask(w, r, c)
      PROVE EditorSound'
  BY <1>1 DEF Ask, Verdict, MoveTo, Return
<1>2. ASSUME NEW r \in Requests, Read(r) PROVE EditorSound'
  BY <1>2 DEF Read, Take, MoveTo
<1>3. ASSUME NEW r \in Requests, TimeOut(r) PROVE EditorSound'
  BY <1>3 DEF TimeOut, Take, MoveTo
<1>4. ASSUME NEW r \in Requests, Cancel(r) PROVE EditorSound'
  BY <1>4 DEF Cancel, MoveTo, Return
<1>5. ASSUME NEW r \in Requests, Unqueue(r) PROVE EditorSound'
  BY <1>5 DEF Unqueue, MoveTo
<1>6. ASSUME NEW r \in Requests, Unlink(r) PROVE EditorSound'
  BY <1>6 DEF Unlink, MoveTo, Return
<1>7. ASSUME NEW r \in Requests, ReadPolicy(r) PROVE EditorSound'
  BY <1>7 DEF ReadPolicy, MoveTo
<1>8. ASSUME NEW r \in Requests, WritePolicy(r) PROVE EditorSound'
  BY <1>8 DEF WritePolicy, MoveTo, Return, With, RuleOf
<1>9. ASSUME NEW w \in Workers, Crash(w) PROVE EditorSound'
  BY <1>9 DEF Crash
<1>10. ASSUME NEW w \in Workers, Start(w) PROVE EditorSound'
  BY <1>10 DEF Start
<1>11. ASSUME NEW a \in Approvers, NEW r \in Requests, NEW d \in Decisions,
              NEW t \in Tools \cup {None}, Look(a, r, d, t)
       PROVE EditorSound'
  BY <1>11 DEF Look
<1>12. ASSUME NEW a \in Approvers, Create(a) PROVE EditorSound'
  BY <1>12 DEF Create
<1>13. ASSUME NEW a \in Approvers, Install(a) PROVE EditorSound'
  BY <1>13 DEF Install, RuleOf
<1>14. ASSUME NEW a \in Approvers, Fail(a) PROVE EditorSound'
  BY <1>14 DEF Fail
<1>15. ASSUME NEW a \in Approvers, Die(a) PROVE EditorSound'
  BY <1>15 DEF Die
<1>16. ASSUME NEW w \in Workers, NEW rule \in Rules, Grant(w, rule) PROVE EditorSound'
  <2>1. Sound(policy[w], w)
    BY DEF PoliciesSound
  <2>2. /\ editor' = [worker |-> w, rule |-> rule, seen |-> policy[w]]
        /\ given' = [given EXCEPT ![w] = @ \cup {rule}]
        /\ rule.tool \in HighRisk => rule.narrow
    BY <1>16 DEF Grant
  <2>. QED BY <2>1, <2>2
<1>17. ASSUME WriteGrant PROVE EditorSound'
  BY <1>17 DEF WriteGrant, With
<1>18. ASSUME NEW w \in Workers, NEW rule \in Rules, PutPolicy(w, rule) PROVE EditorSound'
  BY <1>18 DEF PutPolicy, Edit
<1>19. ASSUME CleanBegin PROVE EditorSound'
  BY <1>19 DEF CleanBegin, Edit
<1>20. ASSUME CleanList PROVE EditorSound'
  BY <1>20 DEF CleanList
<1>21. ASSUME NEW r \in Requests, CleanRequest(r) PROVE EditorSound'
  BY <1>21 DEF CleanRequest
<1>22. ASSUME CleanListDecisions PROVE EditorSound'
  BY <1>22 DEF CleanListDecisions
<1>23. ASSUME NEW r \in Requests, CleanDecision(r) PROVE EditorSound'
  BY <1>23 DEF CleanDecision
<1>24. ASSUME CleanEnd PROVE EditorSound'
  BY <1>24 DEF CleanEnd
<1>25. CASE UNCHANGED vars
  BY <1>25 DEF vars
<1>. QED
  BY <1>1, <1>2, <1>3, <1>4, <1>5, <1>6, <1>7, <1>8, <1>9, <1>10, <1>11, <1>12, <1>13,
      <1>14, <1>15, <1>16, <1>17, <1>18, <1>19, <1>20, <1>21, <1>22, <1>23, <1>24, <1>25
     DEF Next, Worker, Approve, Manage, Resume, Finish

-----------------------------------------------------------------------------
\* The invariant holds at the start ...
LEMMA InitInv == Init => IInv
<1> SUFFICES ASSUME Init PROVE IInv
  OBVIOUS
<1> USE DEF Init
<1>1. TypeOK
  BY Constructors, SeedAssumption
     DEF TypeOK, Idle, NoLocal, NoGrant, NotCleaning, NoCall, Seeded
<1>2. AskedKnown /\ QueueAsked /\ DecidedAsked
  BY DEF AskedKnown, QueueAsked, DecidedAsked, Idle
<1>3. PoliciesSound
  BY SeedAssumption DEF PoliciesSound, Sound, Narrow, Seeded
<1>4. DecisionsMeant
  BY Once DEF DecisionsMeant, Meant
<1>5. LocalSound /\ EditorSound
  BY DEF LocalSound, EditorSound, NoGrant
<1>. QED BY <1>1, <1>2, <1>3, <1>4, <1>5 DEF IInv, Safe

\* ... and every step keeps it.
LEMMA StepInv == IInv /\ [Next]_vars => IInv'
BY TypeStep, KnownStep, PoliciesStep, DecisionsStep, LocalStep, EditorStep DEF IInv, Safe

\* Safe holds of every place a rule passes on its way to a policy.
THEOREM Inductive == Spec => []IInv
BY InitInv, StepInv, PTL DEF Spec

\* Every variable keeps its type: a decision or a policy that is half written, or
\* a rule without a tool, is never read back as one.
THEOREM TypeCorrect == Spec => []TypeOK
BY Inductive, PTL DEF IInv

\* write_decision, _append_sticky_rule and the bridge each refuse a bare rule for a
\* high-risk tool; no interleaving of them lets one into a policy.
THEOREM NeverBare == Spec => []NoBareHighRisk
<1>1. IInv => NoBareHighRisk
  BY DEF IInv, Safe, PoliciesSound, Sound, Narrow, NoBareHighRisk
<1>. QED BY <1>1, Inductive, PTL

\* A rule gets into a policy only if somebody meant the worker to have it, though
\* old copies of policies are written back and decision files are removed by others.
THEOREM OnlyGiven == Spec => []RulesGiven
<1>1. IInv => RulesGiven
  BY DEF IInv, Safe, TypeOK, PoliciesSound, Sound, RulesGiven
<1>. QED BY <1>1, Inductive, PTL

-----------------------------------------------------------------------------
(* What becomes of a request.  That the broker implements PermRegister needs    *)
(* to know that an allowance, where it lies, was somebody's verdict on this     *)
(* very request, and that a request that a rule has answered reaches nobody.    *)

Granted(r) == result[r] = "allow" /\ told[r] = {}
Allowed(d, r) == d.verdict = "allow" => "allow" \in Verdicts(r)

Answers ==
  \A r \in Requests :
    /\ gate[r] = "new" => told[r] = {}
    /\ gate[r] # "done" => result[r] = "none"
    /\ Allowed(decision[r], r) /\ Allowed(local[r].decision, r)
    /\ Granted(r) => r \notin queue /\ \A a \in Approvers : approver[a].at # "idle" => approver[a].req # r

Full == IInv /\ Answers /\ PlaceholderHeld

\* What Register shows of the requests.
Outcome(r) == IF gate[r] = "new" THEN "unasked"
              ELSE IF gate[r] = "done" THEN result[r] ELSE "asked"
Shown == <<[r \in Requests |-> Verdicts(r)], {r \in Requests : Granted(r)},
           [r \in Requests |-> Outcome(r)]>>

LEMMA StaysHeld ==
  ASSUME PlaceholderHeld, dead \subseteq dead',
         \A r \in Requests : decision'[r] = Empty =>
           \/ decision[r] = Empty \/ \E a \in Approvers : approver'[a].at = "created" /\ approver'[a].req = r,
         \A a \in Approvers : approver[a].at = "created" =>
           \/ approver'[a] = approver[a]
           \/ approver[a].req \in dead'
           \/ decision'[approver[a].req] # Empty
  PROVE  PlaceholderHeld'
<1>. SUFFICES ASSUME NEW r \in Requests, decision'[r] = Empty
              PROVE  r \in dead' \/ \E a \in Approvers : approver'[a].at = "created" /\ approver'[a].req = r
  BY DEF PlaceholderHeld
<1>1. CASE decision[r] = Empty /\ r \notin dead
  BY <1>1 DEF PlaceholderHeld
<1>. QED BY <1>1

\* An empty file is filled, removed or, where its approver is killed, counted.
LEMMA HeldStep == Full /\ [Next]_vars => PlaceholderHeld'
<1> SUFFICES ASSUME Full, [Next]_vars PROVE PlaceholderHeld'
  OBVIOUS
<1> USE StaysHeld DEF Full, IInv, TypeOK, files, workers, bounds
<1>a. Absent # Empty /\ \A d \in Decisions : d # Empty
  BY Constructors DEF Absent, Empty
<1>1. ASSUME NEW r \in Requests, Unlink(r) \/ CleanDecision(r) PROVE PlaceholderHeld'
  <2>1. UNCHANGED <<approver, dead>> /\ \A q \in Requests : decision'[q] = decision[q] \/ decision'[q] = Absent
    BY <1>1 DEF Unlink, CleanDecision
  <2>. QED BY <2>1, <1>a
<1>2. ASSUME NEW a \in Approvers, NEW r \in Requests, NEW d \in Decisions,
              NEW t \in Tools \cup {None}, Look(a, r, d, t)
       PROVE PlaceholderHeld'
  <2>1. UNCHANGED <<decision, dead>> /\ approver[a].at = "idle"
        /\ \A b \in Approvers \ {a} : approver'[b] = approver[b]
    BY <1>2 DEF Look
  <2>. QED BY <2>1
<1>3. ASSUME NEW a \in Approvers, Create(a) PROVE PlaceholderHeld'
  <2>. DEFINE r == approver[a].req
  <2>1. r \in Requests /\ approver[a].at = "looked" /\ dead' = dead
        /\ \A b \in Approvers \ {a} : approver'[b] = approver[b]
    BY <1>3 DEF Create, Safe, DecidedAsked
  <2>2. CASE decision[r] = Absent
    <3>1. approver'[a].at = "created" /\ approver'[a].req = r
          /\ \A q \in Requests \ {r} : decision'[q] = decision[q]
      BY <1>3, <2>1, <2>2 DEF Create
    <3>. QED BY <2>1, <3>1
  <2>3. CASE decision[r] # Absent
    <3>1. decision' = decision
      BY <1>3, <2>3 DEF Create
    <3>. QED BY <2>1, <3>1
  <2>. QED BY <2>2, <2>3
<1>4. ASSUME NEW a \in Approvers, Install(a) \/ Fail(a) PROVE PlaceholderHeld'
  <2>. DEFINE r == approver[a].req
  <2>1. r \in Requests /\ dead' = dead /\ \A b \in Approvers \ {a} : approver'[b] = approver[b]
    BY <1>4 DEF Install, Fail, Safe, DecidedAsked
  <2>2. decision'[r] # Empty /\ \A q \in Requests \ {r} : decision'[q] = decision[q]
    BY <1>4, <1>a, <2>1 DEF Install, Fail
  <2>. QED BY <2>1, <2>2
<1>5. ASSUME NEW a \in Approvers, Die(a) PROVE PlaceholderHeld'
  <2>1. decision' = decision /\ dead' = dead \cup {approver[a].req}
        /\ \A b \in Approvers \ {a} : approver'[b] = approver[b]
    BY <1>5 DEF Die
  <2>. QED BY <2>1
<1>6. CASE UNCHANGED <<decision, approver, dead>>
  BY <1>6
<1>7. ASSUME NEW r \in Requests, Resume(r) \/ Cancel(r) \/ Unqueue(r) \/ ReadPolicy(r)
                                 \/ WritePolicy(r) \/ CleanRequest(r)
      PROVE UNCHANGED <<decision, approver, dead>>
  BY <1>7 DEF Resume, Read, TimeOut, Take, Cancel, Unqueue, ReadPolicy, WritePolicy, CleanRequest
<1>8. ASSUME NEW w \in Workers, NEW r \in Requests, NEW c \in Calls, Ask(w, r, c)
      PROVE UNCHANGED <<decision, approver, dead>>
  BY <1>8 DEF Ask
<1>9. ASSUME NEW w \in Workers, Crash(w) \/ Start(w) PROVE UNCHANGED <<decision, approver, dead>>
  BY <1>9 DEF Crash, Start
<1>10. ASSUME NEW w \in Workers, NEW rule \in Rules, Grant(w, rule) \/ PutPolicy(w, rule)
       PROVE UNCHANGED <<decision, approver, dead>>
  BY <1>10 DEF Grant, PutPolicy, Edit
<1>11. CASE WriteGrant \/ CleanBegin \/ CleanList \/ CleanListDecisions \/ CleanEnd
  BY <1>6, <1>11 DEF WriteGrant, CleanBegin, CleanList, CleanListDecisions, CleanEnd, Edit
<1>12. CASE UNCHANGED vars
  BY <1>6, <1>12 DEF vars
<1>. QED BY <1>1, <1>2, <1>3, <1>4, <1>5, <1>6, <1>7, <1>8, <1>9, <1>10, <1>11, <1>12
         DEF Next, Worker, Approve, Manage, Finish

Step == Answers' /\ [Register!Next]_Shown

\* A step that tells nobody anything.
LEMMA Unnoticed ==
  ASSUME Full, UNCHANGED <<told, result>>, queue' \subseteq queue,
         \A r \in Requests : /\ gate[r] = "new" <=> gate'[r] = "new"
                             /\ gate[r] = "done" <=> gate'[r] = "done"
                             /\ decision'[r] \in {decision[r], Absent, Empty}
                             /\ local'[r].decision \in {local[r].decision, decision[r], TimeoutDecision},
         \A a \in Approvers : approver'[a].at # "idle" =>
           \/ approver[a].at # "idle" /\ approver'[a].req = approver[a].req
           \/ approver'[a].req \in queue
  PROVE  Step
<1>1. Answers'
  <2>. SUFFICES ASSUME NEW r \in Requests
                PROVE  /\ gate'[r] = "new" => told[r] = {}
                       /\ gate'[r] # "done" => result[r] = "none"
                       /\ Allowed(decision'[r], r) /\ Allowed(local'[r].decision, r)
                       /\ Granted(r) => /\ r \notin queue'
                                        /\ \A a \in Approvers : approver'[a].at # "idle" => approver'[a].req # r
    BY DEF Answers, Allowed, Verdicts, Granted
  <2>1. Allowed(Absent, r) /\ Allowed(Empty, r) /\ Allowed(TimeoutDecision, r)
    BY DEF Allowed, Absent, Empty, TimeoutDecision
  <2>2. Allowed(decision[r], r) /\ Allowed(local[r].decision, r)
    BY DEF Full, Answers
  <2>3. Allowed(decision'[r], r) /\ Allowed(local'[r].decision, r)
    <3>1. \A x, y : x = y /\ Allowed(y, r) => Allowed(x, r)
      OBVIOUS
    <3>2. decision'[r] = decision[r] \/ decision'[r] = Absent \/ decision'[r] = Empty
      OBVIOUS
    <3>3. \/ local'[r].decision = local[r].decision \/ local'[r].decision = decision[r]
          \/ local'[r].decision = TimeoutDecision
      OBVIOUS
    <3>. QED BY <2>1, <2>2, <3>1, <3>2, <3>3
  <2>. QED BY <2>3 DEF Full, Answers
<1>2. \A r \in Requests : Outcome(r)' = Outcome(r)
  BY DEF Outcome
<1>3. UNCHANGED Shown
  BY <1>2 DEF Shown, Verdicts, Granted
<1>. QED BY <1>1, <1>3 DEF Step

\* The caller of r is told v.
LEMMA Returns ==
  ASSUME Full, UNCHANGED told, queue' \subseteq queue, NEW r \in Requests, NEW v,
         gate[r] \notin {"new", "done"}, gate' = [gate EXCEPT ![r] = "done"],
         result' = [result EXCEPT ![r] = v], local' = [local EXCEPT ![r] = NoLocal],
         v \in {"allow", "deny", "gone"}, v = "allow" => "allow" \in Verdicts(r),
         \A q \in Requests : decision'[q] \in {decision[q], Absent}, UNCHANGED approver
  PROVE  Step
<1>1. \A q \in Requests : /\ gate'[q] = (IF q = r THEN "done" ELSE gate[q])
                          /\ result'[q] = (IF q = r THEN v ELSE result[q])
                          /\ local'[q].decision \in {local[q].decision, TimeoutDecision}
  BY DEF Full, IInv, TypeOK, NoLocal
<1>2. result[r] = "none"
  BY DEF Full, Answers
<1>3. v = "allow" => told[r] # {}
  BY DEF Verdicts
<1>4. \A q \in Requests : Granted(q)' <=> Granted(q)
  BY <1>1, <1>2, <1>3 DEF Granted
<1>5. Answers'
  <2>. SUFFICES ASSUME NEW q \in Requests
                PROVE  /\ gate'[q] = "new" => told[q] = {}
                       /\ gate'[q] # "done" => result'[q] = "none"
                       /\ Allowed(decision'[q], q) /\ Allowed(local'[q].decision, q)
                       /\ Granted(q) => /\ q \notin queue'
                                        /\ \A a \in Approvers : approver[a].at # "idle" => approver[a].req # q
    BY <1>4 DEF Answers, Allowed, Verdicts
  <2>1. Allowed(Absent, q) /\ Allowed(TimeoutDecision, q)
    BY DEF Allowed, Absent, TimeoutDecision
  <2>2. Allowed(decision[q], q) /\ Allowed(local[q].decision, q)
    BY DEF Full, Answers
  <2>3. Allowed(decision'[q], q) /\ Allowed(local'[q].decision, q)
    <3>1. \A x, y : x = y /\ Allowed(y, q) => Allowed(x, q)
      OBVIOUS
    <3>2. decision'[q] = decision[q] \/ decision'[q] = Absent
      OBVIOUS
    <3>3. local'[q].decision = local[q].decision \/ local'[q].decision = TimeoutDecision
      BY <1>1
    <3>. QED BY <2>1, <2>2, <3>1, <3>2, <3>3
  <2>. QED BY <1>1, <2>3 DEF Full, Answers
<1>6. Outcome(r) = "asked" /\ \A q \in Requests : Outcome(q)' = IF q = r THEN v ELSE Outcome(q)
  BY <1>1 DEF Outcome
<1>. DEFINE out == [q \in Requests |-> Outcome(q)]
<1>7. /\ [q \in Requests |-> Verdicts(q)]' = [q \in Requests |-> Verdicts(q)]
      /\ {q \in Requests : Granted(q)}' = {q \in Requests : Granted(q)}
      /\ out' = [q \in Requests |-> IF q = r THEN v ELSE Outcome(q)]
  BY <1>4, <1>6 DEF Verdicts
<1>8. Register!Next
  <2>1. CASE v = "gone"
    <3>1. Register!Abandon({r})
      BY <1>6, <1>7, <2>1 DEF Register!Abandon, Outcome, Granted
    <3>. QED BY <3>1 DEF Register!Next
  <2>2. CASE v \in {"allow", "deny"}
    <3>1. out' = [out EXCEPT ![r] = v]
      BY <1>7
    <3>2. Register!Answer(r, v)
      BY <1>6, <1>7, <3>1 DEF Register!Answer, Outcome, Granted
    <3>. QED BY <2>2, <3>2 DEF Register!Next
  <2>. QED BY <2>1, <2>2
<1>. QED BY <1>5, <1>8 DEF Step

\* The gate is called for r.
LEMMA AskTells ==
  ASSUME Full, NEW w \in Workers, NEW r \in Requests, NEW c \in Calls, Ask(w, r, c)
  PROVE  Step
<1>. DEFINE v == Verdict(c, policy[w])
<1>1. v \in {"allow", "deny", "ask"}
  BY DEF Verdict
<1>2. /\ gate[r] = "new" /\ told[r] = {} /\ result[r] = "none" /\ r \notin queue
      /\ \A a \in Approvers : approver[a].at # "idle" => approver[a].req # r
  BY DEF Ask, Full, Answers, IInv, Safe, QueueAsked, DecidedAsked
<1>3. UNCHANGED <<told, decision, approver>>
  BY DEF Ask
<1>4. CASE v = "ask"
  <2>1. queue' = queue \cup {r} /\ gate' = [gate EXCEPT ![r] = "waiting"] /\ UNCHANGED <<local, result>>
    BY <1>4 DEF Ask, MoveTo
  <2>2. \A q \in Requests : gate'[q] = IF q = r THEN "waiting" ELSE gate[q]
    BY <2>1 DEF Full, IInv, TypeOK
  <2>3. Answers'
    <3>. SUFFICES ASSUME NEW q \in Requests
                  PROVE  /\ gate'[q] = "new" => told[q] = {}
                         /\ gate'[q] # "done" => result[q] = "none"
                         /\ Allowed(decision[q], q) /\ Allowed(local[q].decision, q)
                         /\ Granted(q) => /\ q \notin queue'
                                          /\ \A a \in Approvers : approver[a].at # "idle" => approver[a].req # q
      BY <1>3, <2>1 DEF Answers, Allowed, Verdicts, Granted
    <3>1. ~Granted(r)
      BY <1>2 DEF Granted
    <3>. QED BY <1>2, <2>1, <2>2, <3>1 DEF Full, Answers
  <2>4. Outcome(r) = "unasked" /\ \A q \in Requests : Outcome(q)' = IF q = r THEN "asked" ELSE Outcome(q)
    BY <1>2, <2>1, <2>2 DEF Outcome
  <2>. DEFINE out == [q \in Requests |-> Outcome(q)]
  <2>5. /\ [q \in Requests |-> Verdicts(q)]' = [q \in Requests |-> Verdicts(q)]
        /\ {q \in Requests : Granted(q)}' = {q \in Requests : Granted(q)}
        /\ out' = [out EXCEPT ![r] = "asked"]
    BY <1>3, <2>1, <2>4 DEF Verdicts, Granted
  <2>6. Register!Ask(r)
    BY <2>4, <2>5 DEF Register!Ask, Outcome, Granted
  <2>. QED BY <2>3, <2>6 DEF Step, Register!Next
<1>5. CASE v # "ask"
  <2>1. /\ queue' = queue /\ gate' = [gate EXCEPT ![r] = "done"]
        /\ result' = [result EXCEPT ![r] = v] /\ local' = [local EXCEPT ![r] = NoLocal]
    BY <1>5 DEF Ask, MoveTo, Return
  <2>2. \A q \in Requests : /\ gate'[q] = (IF q = r THEN "done" ELSE gate[q])
                            /\ result'[q] = (IF q = r THEN v ELSE result[q])
                            /\ local'[q].decision \in {local[q].decision, TimeoutDecision}
    BY <2>1 DEF Full, IInv, TypeOK, NoLocal
  <2>3. Answers'
    <3>. SUFFICES ASSUME NEW q \in Requests
                  PROVE  /\ gate'[q] = "new" => told[q] = {}
                         /\ gate'[q] # "done" => result'[q] = "none"
                         /\ Allowed(decision[q], q) /\ Allowed(local'[q].decision, q)
                         /\ Granted(q)' => /\ q \notin queue
                                           /\ \A a \in Approvers : approver[a].at # "idle" => approver[a].req # q
      BY <1>3, <2>1 DEF Answers, Allowed, Verdicts
    <3>1. Allowed(local'[q].decision, q)
      <4>1. \A x, y : x = y /\ Allowed(y, q) => Allowed(x, q)
        OBVIOUS
      <4>2. Allowed(TimeoutDecision, q) /\ Allowed(local[q].decision, q)
        BY DEF Allowed, TimeoutDecision, Full, Answers
      <4>3. local'[q].decision = local[q].decision \/ local'[q].decision = TimeoutDecision
        BY <2>2
      <4>. QED BY <4>1, <4>2, <4>3
    <3>2. q # r => (Granted(q)' <=> Granted(q))
      BY <1>3, <2>2 DEF Granted
    <3>. QED BY <1>2, <2>2, <3>1, <3>2 DEF Full, Answers
  <2>4. Outcome(r) = "unasked" /\ \A q \in Requests : Outcome(q)' = IF q = r THEN v ELSE Outcome(q)
    BY <1>2, <2>2 DEF Outcome
  <2>. DEFINE out == [q \in Requests |-> Outcome(q)]
              granted == {q \in Requests : Granted(q)}
  <2>5. /\ [q \in Requests |-> Verdicts(q)]' = [q \in Requests |-> Verdicts(q)]
        /\ out' = [out EXCEPT ![r] = v]
    BY <1>3, <2>4 DEF Verdicts
  <2>6. granted' = IF v = "allow" THEN granted \cup {r} ELSE granted
    BY <1>1, <1>2, <1>3, <1>5, <2>2 DEF Granted
  <2>7. Register!Ask(r)
    <3>1. CASE v = "allow"
      BY <3>1, <2>4, <2>5, <2>6 DEF Register!Ask, Outcome, Granted
    <3>2. CASE v = "deny"
      BY <3>2, <2>4, <2>5, <2>6 DEF Register!Ask, Outcome, Granted
    <3>. QED BY <1>1, <1>5, <3>1, <3>2
  <2>. QED BY <2>3, <2>7 DEF Step, Register!Next
<1>. QED BY <1>4, <1>5

\* Approver a is told that its decision d on r, with verdict v, stands.
Stands(a, r, d, v) ==
  /\ v \in {"allow", "deny"} /\ d.verdict = v
  /\ gate[r] # "new" /\ ~Granted(r)
  /\ UNCHANGED <<queue, gate, result, local>>
  /\ \A q \in Requests : decision'[q] = IF q = r THEN d ELSE decision[q]
  /\ \A q \in Requests : told'[q] = IF q = r THEN told[q] \cup {<<a, v>>} ELSE told[q]
  /\ \A b \in Approvers : approver'[b].at # "idle" => approver'[b] = approver[b]

LEMMA Tells ==
  ASSUME Full, NEW a \in Approvers, NEW r \in Requests, NEW d, NEW v, Stands(a, r, d, v)
  PROVE  Step
<1>. USE DEF Stands
<1>1. \A q \in Requests : Verdicts(q)' = IF q = r THEN Verdicts(q) \cup {v} ELSE Verdicts(q)
  <2>1. \A q \in Requests \ {r} : Verdicts(q)' = Verdicts(q)
    BY DEF Verdicts
  <2>2. told'[r] = told[r] \cup {<<a, v>>}
    OBVIOUS
  <2>3. \A u, b : <<b, u>> \in told'[r] <=> <<b, u>> \in told[r] \/ (b = a /\ u = v)
    BY <2>2
  <2>4. Verdicts(r)' = Verdicts(r) \cup {v}
    BY <2>3 DEF Verdicts
  <2>. QED BY <2>1, <2>4
<1>2. \A q \in Requests : Granted(q)' <=> Granted(q)
  <2>1. told'[r] = told[r] \cup {<<a, v>>}
    OBVIOUS
  <2>2. told'[r] # {}
    BY <2>1
  <2>. QED BY <2>2 DEF Granted
<1>3. Answers'
  <2>1. \A q \in Requests : Verdicts(q) \subseteq Verdicts(q)'
    BY <1>1
  <2>2. \A q \in Requests : Allowed(decision[q], q) /\ Allowed(local[q].decision, q)
    BY DEF Full, Answers
  <2>4. \A q \in Requests : decision'[q].verdict = "allow" => "allow" \in Verdicts(q)'
    <3>1. decision'[r].verdict = "allow" => "allow" \in Verdicts(r)'
      BY <1>1
    <3>2. \A q \in Requests \ {r} : decision'[q].verdict = "allow" => "allow" \in Verdicts(q)'
      BY <2>1, <2>2 DEF Allowed
    <3>. QED BY <3>1, <3>2
  <2>5. \A q \in Requests : local'[q].decision.verdict = "allow" => "allow" \in Verdicts(q)'
    BY <2>1, <2>2 DEF Allowed
  <2>6. \A q \in Requests : gate'[q] = "new" => told'[q] = {}
    BY DEF Full, Answers
  <2>7. \A q \in Requests : gate'[q] # "done" => result'[q] = "none"
    BY DEF Full, Answers
  <2>8. \A q \in Requests : Granted(q)' =>
          q \notin queue' /\ \A b \in Approvers : approver'[b].at # "idle" => approver'[b].req # q
    BY <1>2 DEF Full, Answers
  <2>. QED BY <2>4, <2>5, <2>6, <2>7, <2>8 DEF Answers, Allowed
<1>4. Outcome(r) # "unasked" /\ \A q \in Requests : Outcome(q)' = Outcome(q)
  <2>1. result[r] # "unasked"
    BY DEF Full, IInv, TypeOK
  <2>. QED BY <2>1 DEF Outcome
<1>. DEFINE said == [q \in Requests |-> Verdicts(q)]
<1>5. /\ said' = [said EXCEPT ![r] = @ \cup {v}]
      /\ [q \in Requests |-> Outcome(q)]' = [q \in Requests |-> Outcome(q)]
      /\ {q \in Requests : Granted(q)}' = {q \in Requests : Granted(q)}
  BY <1>1, <1>2, <1>4
<1>6. Register!Decide(r, v)
  BY <1>4, <1>5 DEF Register!Decide, Outcome, Granted
<1>. QED BY <1>3, <1>6 DEF Step, Register!Next

LEMMA InstallTells ==
  ASSUME Full, NEW a \in Approvers, Install(a)
  PROVE  Step
<1>1. approver[a].at # "idle" /\ approver[a].req \in Requests /\ gate[approver[a].req] # "new"
  BY DEF Install, Full, IInv, Safe, DecidedAsked
<1>2. approver[a].decision.verdict \in {"allow", "deny"}
  <2>1. \A x \in Decisions : x.verdict \in {"allow", "deny"}
    BY DEF Decisions
  <2>. QED BY <2>1 DEF Full, IInv, TypeOK
<1>3. PICK r \in Requests : r = approver[a].req
  BY <1>1
<1>4. PICK d : d = approver[a].decision
  OBVIOUS
<1>5. PICK v \in {"allow", "deny"} : v = d.verdict
  BY <1>2, <1>4
<1>6. ~Granted(r)
  BY <1>1, <1>3 DEF Full, Answers
<1>7. UNCHANGED <<queue, gate, result, local>>
  BY DEF Install, workers
<1>8. /\ \A q \in Requests : decision'[q] = IF q = r THEN d ELSE decision[q]
      /\ \A q \in Requests : told'[q] = IF q = r THEN told[q] \cup {<<a, v>>} ELSE told[q]
  BY <1>3, <1>4, <1>5 DEF Install, Full, IInv, TypeOK
<1>9. \A b \in Approvers : approver'[b].at # "idle" => approver'[b] = approver[b]
  BY DEF Install, Full, IInv, TypeOK, Idle
<1>10. gate[r] # "new" /\ d.verdict = v
  BY <1>1, <1>3, <1>5
<1>11. Stands(a, r, d, v)
  BY <1>5, <1>6, <1>7, <1>8, <1>9, <1>10 DEF Stands
<1>. QED BY <1>3, <1>11, Tells

\* The daemon of w dies: its calls are lost.
LEMMA CrashTells ==
  ASSUME Full, NEW w \in Workers, Crash(w)
  PROVE  Step
<1>1. PICK lost \in SUBSET Requests : lost = {r \in Requests : by[r] = w /\ gate[r] # "done"}
  OBVIOUS
<1>2. \A r \in lost : gate[r] \notin {"new", "done"} /\ result[r] = "none"
  BY <1>1, NoneAssumption DEF Full, IInv, Safe, AskedKnown, Answers
<1>3. UNCHANGED <<queue, decision, approver, told>>
  BY DEF Crash, files
<1>4. \A r \in Requests : /\ gate'[r] = (IF r \in lost THEN "done" ELSE gate[r])
                          /\ result'[r] = (IF r \in lost THEN "gone" ELSE result[r])
                          /\ local'[r] = (IF r \in lost THEN NoLocal ELSE local[r])
  BY <1>1 DEF Crash
<1>5. \A r \in Requests : Granted(r)' <=> Granted(r)
  BY <1>2, <1>3, <1>4 DEF Granted
<1>6. Answers'
  <2>1. \A r \in Requests : Allowed(NoLocal.decision, r)
    BY DEF Allowed, NoLocal, TimeoutDecision
  <2>2. \A r \in Requests : Allowed(decision[r], r) /\ Allowed(local[r].decision, r)
    BY DEF Full, Answers
  <2>3. \A r \in Requests : Allowed(local'[r].decision, r)
    <3>1. \A r \in lost : local'[r] = NoLocal
      BY <1>4
    <3>2. \A r \in Requests \ lost : local'[r] = local[r]
      BY <1>4
    <3>. QED BY <2>1, <2>2, <3>1, <3>2
  <2>4. \A r \in Requests : gate'[r] = "new" => told'[r] = {}
    BY <1>3, <1>4 DEF Full, Answers
  <2>5. \A r \in Requests : gate'[r] # "done" => result'[r] = "none"
    BY <1>4 DEF Full, Answers
  <2>6. \A r \in Requests : Granted(r)' =>
          r \notin queue' /\ \A b \in Approvers : approver'[b].at # "idle" => approver'[b].req # r
    BY <1>3, <1>5 DEF Full, Answers
  <2>. QED BY <1>3, <2>2, <2>3, <2>4, <2>5, <2>6 DEF Answers, Allowed, Verdicts
<1>7. /\ \A r \in lost : Outcome(r) = "asked"
      /\ \A r \in Requests : Outcome(r)' = IF r \in lost THEN "gone" ELSE Outcome(r)
  BY <1>2, <1>4 DEF Outcome
<1>8. /\ [q \in Requests |-> Verdicts(q)]' = [q \in Requests |-> Verdicts(q)]
      /\ {q \in Requests : Granted(q)}' = {q \in Requests : Granted(q)}
      /\ [q \in Requests |-> Outcome(q)]' = [q \in Requests |-> IF q \in lost THEN "gone" ELSE Outcome(q)]
  BY <1>3, <1>5, <1>7 DEF Verdicts
<1>9. Register!Abandon(lost)
  BY <1>7, <1>8 DEF Register!Abandon, Outcome, Granted
<1>. QED BY <1>6, <1>9 DEF Step, Register!Next

\* Whatever happens, the register does a step of its own or none.
LEMMA AnswersStep == Full /\ [Next]_vars => Step
<1> SUFFICES ASSUME Full, [Next]_vars PROVE Step
  OBVIOUS
<1>a. TypeOK
  BY DEF Full, IInv
<1>1. ASSUME NEW w \in Workers, NEW r \in Requests, NEW c \in Calls, Ask(w, r, c) PROVE Step
  BY <1>1, AskTells
<1>2. ASSUME NEW r \in Requests, Resume(r) PROVE Step
  <2>1. UNCHANGED <<told, result, queue, decision, approver>>
    BY <1>2 DEF Resume, Read, TimeOut, Take, files
  <2>2. gate[r] = "waiting" /\ gate' = [gate EXCEPT ![r] = "took"]
    BY <1>2 DEF Resume, Read, TimeOut, Take, MoveTo
  <2>3. \A q \in Requests : local'[q].decision \in {local[q].decision, decision[q], TimeoutDecision}
    <3>1. PICK d \in {decision[r], TimeoutDecision} : local' = [local EXCEPT ![r].decision = d]
      BY <1>2 DEF Resume, Read, TimeOut, Take
    <3>2. \A q \in Requests : local'[q].decision = IF q = r THEN d ELSE local[q].decision
      BY <3>1, <1>a DEF TypeOK
    <3>. QED BY <3>1, <3>2
  <2>4. \A q \in Requests : (gate[q] = "new" <=> gate'[q] = "new") /\ (gate[q] = "done" <=> gate'[q] = "done")
    BY <2>2, <1>a DEF TypeOK
  <2>. QED BY <2>1, <2>3, <2>4, Unnoticed
<1>3. ASSUME NEW r \in Requests, Cancel(r) PROVE Step
  BY <1>3, Returns DEF Cancel, Return, MoveTo
<1>4. ASSUME NEW r \in Requests, Unqueue(r) \/ ReadPolicy(r) PROVE Step
  <2>1. UNCHANGED <<told, result, decision, approver>> /\ queue' \subseteq queue
    BY <1>4 DEF Unqueue, ReadPolicy, files
  <2>2. \A q \in Requests : local'[q].decision = local[q].decision
    BY <1>4, <1>a DEF Unqueue, ReadPolicy, TypeOK
  <2>3. \A q \in Requests : (gate[q] = "new" <=> gate'[q] = "new") /\ (gate[q] = "done" <=> gate'[q] = "done")
    BY <1>4, <1>a DEF Unqueue, ReadPolicy, MoveTo, TypeOK
  <2>. QED BY <2>1, <2>2, <2>3, Unnoticed
<1>5. ASSUME NEW r \in Requests, Unlink(r) PROVE Step
  <2>1. /\ UNCHANGED <<told, queue, approver>> /\ gate[r] = "unqueued"
        /\ \A q \in Requests : decision'[q] \in {decision[q], Absent}
    BY <1>5, <1>a DEF Unlink, TypeOK
  <2>2. CASE Sticks(r)
    <3>1. gate' = [gate EXCEPT ![r] = "sticky"] /\ UNCHANGED <<local, result>>
      BY <1>5, <2>2 DEF Unlink, MoveTo
    <3>2. \A q \in Requests : (gate[q] = "new" <=> gate'[q] = "new") /\ (gate[q] = "done" <=> gate'[q] = "done")
      BY <2>1, <3>1, <1>a DEF TypeOK
    <3>. QED BY <2>1, <3>1, <3>2, Unnoticed
  <2>3. CASE ~Sticks(r)
    <3>1. PICK v : v = local[r].decision.verdict
      OBVIOUS
    <3>2. /\ gate' = [gate EXCEPT ![r] = "done"] /\ result' = [result EXCEPT ![r] = v]
          /\ local' = [local EXCEPT ![r] = NoLocal]
      BY <1>5, <2>3, <3>1 DEF Unlink, Return, MoveTo
    <3>3. v \in {"allow", "deny"}
      BY <3>1, <1>a DEF TypeOK, Decisions
    <3>4. v = "allow" => "allow" \in Verdicts(r)
      BY <3>1 DEF Full, Answers, Allowed
    <3>. QED BY <2>1, <3>2, <3>3, <3>4, Returns
  <2>. QED BY <2>2, <2>3
<1>6. ASSUME NEW r \in Requests, WritePolicy(r) PROVE Step
  <2>1. PICK v : v = local[r].decision.verdict
    OBVIOUS
  <2>2. /\ UNCHANGED <<told, queue, decision, approver>> /\ gate[r] = "appending"
        /\ gate' = [gate EXCEPT ![r] = "done"] /\ result' = [result EXCEPT ![r] = v]
        /\ local' = [local EXCEPT ![r] = NoLocal]
    BY <1>6, <2>1 DEF WritePolicy, Return, MoveTo
  <2>3. v \in {"allow", "deny"}
    BY <2>1, <1>a DEF TypeOK, Decisions
  <2>4. v = "allow" => "allow" \in Verdicts(r)
    BY <2>1 DEF Full, Answers, Allowed
  <2>. QED BY <2>2, <2>3, <2>4, Returns
<1>7. ASSUME NEW w \in Workers, Crash(w) PROVE Step
  BY <1>7, CrashTells
<1>8. ASSUME NEW a \in Approvers, NEW r \in Requests, NEW d \in Decisions,
             NEW t \in Tools \cup {None}, Look(a, r, d, t)
      PROVE Step
  <2>1. UNCHANGED <<told, result, queue, decision, gate, local>> /\ r \in queue
    BY <1>8 DEF Look, files, workers
  <2>2. approver' = [approver EXCEPT ![a] = [at |-> "looked", req |-> r, decision |-> d]]
    BY <1>8 DEF Look
  <2>3. \A b \in Approvers : approver'[b] = approver[b] \/ approver'[b].req \in queue
    BY <2>1, <2>2, <1>a DEF TypeOK
  <2>. QED BY <2>1, <2>3, Unnoticed
<1>9. ASSUME NEW a \in Approvers, Create(a) \/ Fail(a) \/ Die(a) PROVE Step
  <2>1. UNCHANGED <<told, result, queue, gate, local>> /\ approver[a].at # "idle"
    BY <1>9 DEF Create, Fail, Die, files, workers
  <2>2. \A q \in Requests : decision'[q] \in {decision[q], Absent, Empty}
    BY <1>9, <1>a DEF Create, Fail, Die, files, TypeOK
  <2>3. approver' = [approver EXCEPT ![a].at = "created"] \/ approver' = [approver EXCEPT ![a] = Idle]
    BY <1>9 DEF Create, Fail, Die
  <2>4. \A b \in Approvers : approver'[b].at # "idle" =>
          approver[b].at # "idle" /\ approver'[b].req = approver[b].req
    <3>1. CASE approver' = [approver EXCEPT ![a].at = "created"]
      BY <2>1, <3>1, <1>a DEF TypeOK
    <3>2. CASE approver' = [approver EXCEPT ![a] = Idle]
      BY <3>2, <1>a DEF TypeOK, Idle
    <3>. QED BY <2>3, <3>1, <3>2
  <2>. QED BY <2>1, <2>2, <2>4, Unnoticed
<1>10. ASSUME NEW a \in Approvers, Install(a) PROVE Step
  BY <1>10, InstallTells
<1>11. ASSUME UNCHANGED <<told, result, gate, local, approver>>, queue' \subseteq queue,
              \A q \in Requests : decision'[q] \in {decision[q], Absent}
       PROVE Step
  BY <1>11, Unnoticed
<1>12. ASSUME NEW w \in Workers, Start(w) PROVE Step
  BY <1>11, <1>12 DEF Start, files
<1>13. ASSUME NEW w \in Workers, NEW rule \in Rules, Grant(w, rule) \/ PutPolicy(w, rule) PROVE Step
  BY <1>11, <1>13 DEF Grant, PutPolicy, Edit, files, workers
<1>14. CASE WriteGrant \/ CleanBegin \/ CleanList \/ CleanListDecisions \/ CleanEnd
  BY <1>11, <1>14 DEF WriteGrant, CleanBegin, CleanList, CleanListDecisions, CleanEnd, Edit, files,
                      workers
<1>15. ASSUME NEW r \in Requests, CleanRequest(r) \/ CleanDecision(r) PROVE Step
  <2>1. UNCHANGED <<told, result, gate, local, approver>> /\ queue' \subseteq queue
    BY <1>15 DEF CleanRequest, CleanDecision, workers
  <2>2. \A q \in Requests : decision'[q] \in {decision[q], Absent}
    BY <1>15, <1>a DEF CleanRequest, CleanDecision, TypeOK
  <2>. QED BY <1>11, <2>1, <2>2
<1>16. CASE UNCHANGED vars
  BY <1>11, <1>16 DEF vars, files, workers
<1>. QED BY <1>1, <1>2, <1>3, <1>4, <1>5, <1>6, <1>7, <1>8, <1>9, <1>10, <1>12, <1>13, <1>14,
            <1>15, <1>16
         DEF Next, Worker, Approve, Manage, Finish

LEMMA InitFull == Init => Full /\ Register!Init
<1> SUFFICES ASSUME Init PROVE Full /\ Register!Init
  OBVIOUS
<1>1. \A r \in Requests : Verdicts(r) = {} /\ ~Granted(r)
  BY DEF Init, Verdicts, Granted
<1>2. Answers
  BY <1>1 DEF Init, Answers, Allowed, Absent, NoLocal, TimeoutDecision
<1>3. PlaceholderHeld
  BY DEF Init, PlaceholderHeld, Absent, Empty
<1>4. Register!Init
  BY <1>1 DEF Init, Register!Init, Granted
<1>. QED BY <1>2, <1>3, <1>4, InitInv DEF Full

LEMMA FullStep == Full /\ [Next]_vars => Full' /\ [Register!Next]_Shown
BY AnswersStep, HeldStep, StepInv DEF Full, Step

\* The strengthening of PlaceholderHeld and of the register's step conditions.
THEOREM FullInductive == Spec => []Full
BY InitFull, FullStep, PTL DEF Spec

\* An empty decision file, which hides its request from every approver, is about
\* to be filled or is where an approver was killed.
THEOREM PlaceholdersHeld == Spec => []PlaceholderHeld
BY FullInductive, PTL DEF Full

\* Every call that is gated is answered at most once, and allowed only by a rule
\* or by a verdict on this very call: the broker implements PermRegister.
THEOREM BrokerIsRegister == Spec => RegisterSpec
<1>1. Full /\ [Next]_vars => [Register!Next]_(Register!vars)
  <2>1. Register!vars = Shown /\ Register!vars' = Shown'
    BY DEF Register!vars, Shown, Granted, Outcome
  <2>. QED BY <2>1, FullStep
<1>. QED BY <1>1, InitFull, FullInductive, PTL DEF Spec, RegisterSpec, Register!Spec

=============================================================================
