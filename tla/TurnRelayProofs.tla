--------------------------- MODULE TurnRelayProofs ---------------------------
(***************************************************************************)
(* Proofs about TurnRelay, for any of its backends and any bounds: that    *)
(* one runner serves at a time, and that the targets stay in step with the *)
(* prompts as long as none of the steps that set `skewed' has happened.    *)
(* IInv holds in any case; InLine says how, when nothing is skewed, the    *)
(* queue of the targets is made up: of the target of the turn under way,   *)
(* those of the prompts that wait, and those of the tasks, in this order.  *)
(***************************************************************************)
EXTENDS TurnRelay, FiniteSetTheorems, SequenceTheorems, TLAPS

\* The end of a runner is handled only when its program, or for copilot its loop, is gone
\* for good.
Dead(m) == IF backend = "copilot"
           THEN m.turn = "gone" /\ m.boot # "starting" /\ ~m.running
           ELSE m.reader = "ended"

\* What a runner m whose end has set off e has been through.
Course(m, e) ==
  /\ m.boot = "no" => e = "none" /\ m.turn = "idle" /\ m.reader = "off" /\ ~m.running
  /\ m.boot = "starting" => ~m.running /\ (backend = "copilot" => m.turn = "idle")
  /\ backend = "copilot" => m.reader = "off"
  /\ m.reader = "ended" => ~m.process
  /\ e # "none" => Dead(m)
  /\ e \in {"restart", "over"} => m.boot # "starting"

\* The runners were created in their order, the n-th is the one that may still have to be
\* replaced, and the daemon knows it unless its program is gone.
Latest(n) ==
  /\ \A r \in Runners : run[r].boot = "no" <=> r > n
  /\ \A r \in Runners : r < n => exit[r] = "over"
  /\ slot = n \/ (slot = 0 /\ (n # 0 => ~run[n].process))

Outside == /\ alive \in BOOLEAN
           /\ tasks \in Seq(Jobs) /\ targets \in Seq(Asks) /\ asked \in Asks
           /\ told \in [about : SUBSET Asks, to : Asks]
           /\ skewed \in BOOLEAN
Exits   == {"none", "handling", "restart", "over"}
Inside  == /\ backend \in Backends /\ slot \in 0..MaxRunners
           /\ run \in [Runners -> Machines] /\ exit \in [Runners -> Exits]
           /\ \A r \in Runners : Course(run[r], exit[r])
OnePending == \E n \in 0..MaxRunners : Latest(n)

\* The inductive invariant.
IInv == Outside /\ Inside /\ OnePending

LEMMA IInvGives == IInv => TypeOK /\ OneServing
<1>. SUFFICES ASSUME IInv PROVE TypeOK /\ OneServing
  OBVIOUS
<1>1. TypeOK
  BY DEF IInv, Outside, Inside, Exits, TypeOK
<1>2. ASSUME NEW r \in Runners, run[r].running, run[r].process PROVE r = slot
  <2>1. PICK n \in 0..MaxRunners : Latest(n)
    BY DEF IInv, OnePending
  <2>2. exit[r] = "none" /\ run[r].boot # "no"
    BY <1>2 DEF IInv, Inside, Course, Dead
  <2>3. r = n
    BY <2>1, <2>2, RelayBoundsAssumption DEF Latest, Runners
  <2>. QED
    BY <1>2, <2>1, <2>3, RelayBoundsAssumption DEF Latest, Runners
<1>. QED
  BY <1>1, <1>2 DEF OneServing

-----------------------------------------------------------------------------
(* Numbers. *)

\* The budgets are among the numbers of Asks.
LEMMA AsksFacts ==
  ASSUME NEW b \in Backends
  PROVE  \E N \in Nat : Asks = 0..N /\ Budget[b] <= N
<1>. DEFINE S == {Budget[c] : c \in Backends}
<1>1. S \subseteq Nat
  BY RelayBoundsAssumption
<1>2. PICK c \in Backends : \A d \in Backends : Budget[c] >= Budget[d]
  BY BackendsAssumption, RelayBoundsAssumption
<1>3. Max(S) \in S /\ \A x \in S : Max(S) >= x
  <2>1. Budget[c] \in S /\ \A x \in S : Budget[c] >= x
    BY <1>2
  <2>. QED
    BY <2>1 DEF Max
<1>. QED
  BY <1>1, <1>3 DEF Asks

\* How many runners were created.
LEMMA CreatedIs ==
  ASSUME NEW n \in 0..MaxRunners, \A r \in Runners : run[r].boot = "no" <=> r > n
  PROVE  Created = n
<1>1. {r \in Runners : run[r].boot # "no"} = 1..n
  BY RelayBoundsAssumption DEF Runners
<1>2. Cardinality(1..n) = n
  BY FS_Interval, RelayBoundsAssumption
<1>. QED
  BY <1>1, <1>2 DEF Created

\* One more prompt is within the bound.
LEMMA NextAsk == IInv /\ Bounded => asked + 1 \in Asks
<1>. SUFFICES ASSUME IInv, Bounded PROVE asked + 1 \in Asks
  OBVIOUS
<1>1. Created \in Nat
  BY CreatedIs, RelayBoundsAssumption DEF IInv, OnePending, Latest
<1>2. PICK N \in Nat : Asks = 0..N /\ Budget[backend] <= N
  BY AsksFacts DEF IInv, Inside
<1>. QED
  BY <1>1, <1>2, RelayBoundsAssumption DEF IInv, Inside, Outside, Bounded

LEMMA ZeroAsk == IInv => 0 \in Asks
BY AsksFacts DEF IInv, Inside

-----------------------------------------------------------------------------
(* Types. *)

LEMMA Empty == \A S : <<>> \in Seq(S)
OBVIOUS

LEMMA Names ==
  /\ \A x \in {"off", "reading", "relaying", "ended"} : x \in Readers
  /\ \A x \in {"idle", "asked", "waiting", "responded", "relaying", "failing", "gone"} : x \in Turns
  /\ \A x \in {"no", "starting", "done", "failed"} : x \in Boots
  /\ 1 \in 1..2 /\ 2 \in 1..2 /\ {} \in SUBSET Asks
BY DEF Readers, Turns, Boots

LEMMA HeadTail ==
  ASSUME NEW S, NEW s \in Seq(S), s # <<>>
  PROVE  Head(s) \in S /\ Tail(s) \in Seq(S)
OBVIOUS

LEMMA PromptType ==
  ASSUME NEW n \in Asks, NEW to \in Asks, NEW owed \in BOOLEAN
  PROVE  Prompt(n, to, owed) \in Prompts
BY DEF Prompt, Prompts

LEMMA SystemQueue ==
  IInv => \E q \in Seq(Prompts) : q = IF backend = "acp" THEN <<SystemPrompt>> ELSE <<>>
<1>. SUFFICES ASSUME IInv
              PROVE  (IF backend = "acp" THEN <<SystemPrompt>> ELSE <<>>) \in Seq(Prompts)
  OBVIOUS
<1>1. SystemPrompt \in Prompts
  BY ZeroAsk, PromptType DEF SystemPrompt, NoTarget
<1>2. <<SystemPrompt>> \in Seq(Prompts)
  BY <1>1
<1>. QED
  BY <1>2, Empty

LEMMA MessageType ==
  ASSUME NEW k \in Kinds \cup {"ask"}, NEW p \in Prompts, NEW try \in 1..2
  PROVE  Message(k, p, try) \in Messages
BY DEF Message, Messages

LEMMA TakenType ==
  ASSUME NEW m \in Machines, m.queue # <<>>
  PROVE  Taken(m) \in Machines /\ Head(m.queue) \in Prompts
<1>1. m.queue \in Seq(Prompts)
  BY DEF Machines
<1>2. Tail(m.queue) \in Seq(Prompts) /\ Head(m.queue) \in Prompts
  BY <1>1, HeadTail
<1>. QED
  BY <1>2, Names DEF Machines, Taken

LEMMA RequestType ==
  ASSUME NEW m \in Machines, NEW p \in Prompts, NEW try \in 1..2
  PROVE  Request(m, p, try) \in Machines
<1>. DEFINE todo == IF m.process /\ backend # "copilot"
                    THEN Append(m.todo, Message("ask", p, try)) ELSE m.todo
<1>1. todo \in Seq(Messages)
  <2>1. m.todo \in Seq(Messages) /\ Message("ask", p, try) \in Messages
    BY MessageType DEF Machines
  <2>2. Append(m.todo, Message("ask", p, try)) \in Seq(Messages)
    BY <2>1
  <2>. QED
    BY <2>1, <2>2
<1>2. Request(m, p, try) = [m EXCEPT !.turn = "asked", !.at = p, !.try = try, !.pending = TRUE,
                                     !.busy = TRUE, !.todo = todo]
  BY DEF Request
<1>. HIDE DEF todo
<1>. QED
  BY <1>1, <1>2, Names, ZenonT(60) DEF Machines

LEMMA EndedType == ASSUME NEW m \in Machines PROVE Ended(m) \in Machines
BY Names DEF Machines, Ended

LEMMA PopsType == IInv /\ Pops => targets' \in Seq(Asks)
<1>1. targets # <<>> /\ targets \in Seq(Asks) => Tail(targets) \in Seq(Asks)
  BY HeadTail
<1>. QED
  BY <1>1 DEF IInv, Outside, Pops

LEMMA TellsType ==
  ASSUME IInv, NEW about \in SUBSET Asks, Tells(about)
  PROVE  told' \in [about : SUBSET Asks, to : Asks]
<1>1. targets # <<>> => Head(targets) \in Asks
  BY HeadTail DEF IInv, Outside
<1>. QED
  BY <1>1, ZeroAsk DEF Tells, NoTarget

-----------------------------------------------------------------------------
(* One runner at a time. *)

\* Runner r becomes m and its end has set off e.
LEMMA Changes ==
  ASSUME IInv, Outside', backend' = backend, slot' = slot,
         NEW r \in Runners, NEW m \in Machines, NEW e \in Exits,
         run' = [run EXCEPT ![r] = m], exit' = [exit EXCEPT ![r] = e],
         Course(m, e), m.boot = "no" <=> run[r].boot = "no",
         m.process => run[r].process, exit[r] = "over" => e = "over"
  PROVE  IInv'
<1>1. Inside'
  <2>1. run' \in [Runners -> Machines] /\ exit' \in [Runners -> Exits]
    BY DEF IInv, Inside
  <2>2. ASSUME NEW s \in Runners PROVE Course(run[s], exit[s])'
    <3>1. CASE s = r
      <4>1. run'[s] = m /\ exit'[s] = e
        BY <3>1 DEF IInv, Inside
      <4>. QED
        BY <4>1 DEF Course, Dead
    <3>2. CASE s # r
      <4>1. run'[s] = run[s] /\ exit'[s] = exit[s]
        BY <3>2 DEF IInv, Inside
      <4>2. Course(run[s], exit[s])
        BY DEF IInv, Inside
      <4>. QED
        BY <4>1, <4>2 DEF Course, Dead
    <3>. QED
      BY <3>1, <3>2
  <2>. QED
    BY <2>1, <2>2 DEF IInv, Inside
<1>2. OnePending'
  <2>1. PICK n \in 0..MaxRunners : Latest(n)
    BY DEF IInv, OnePending
  <2>2. \A s \in Runners : run'[s].boot = "no" <=> s > n
    BY <2>1 DEF IInv, Inside, Latest
  <2>3. \A s \in Runners : s < n => exit'[s] = "over"
    BY <2>1 DEF IInv, Inside, Latest
  <2>4. slot = 0 /\ n # 0 /\ ~run[n].process => ~run'[n].process
    BY RelayBoundsAssumption DEF IInv, Inside, Runners
  <2>5. Latest(n)'
    BY <2>1, <2>2, <2>3, <2>4 DEF Latest
  <2>. QED
    BY <2>5 DEF OnePending
<1>. QED
  BY <1>1, <1>2 DEF IInv

\* Runner r becomes m, and its end is where it was.
LEMMA Becomes ==
  ASSUME IInv, Outside', backend' = backend, slot' = slot, exit' = exit,
         NEW r \in Runners, NEW m \in Machines, run' = [run EXCEPT ![r] = m],
         Course(m, exit[r]), m.boot = "no" <=> run[r].boot = "no",
         m.process => run[r].process
  PROVE  IInv'
<1>1. exit[r] \in Exits /\ exit' = [exit EXCEPT ![r] = exit[r]]
  BY DEF IInv, Inside
<1>. QED
  BY <1>1, Changes

\* Nothing happens to a runner.
LEMMA Same ==
  ASSUME IInv, Outside', backend' = backend, slot' = slot, exit' = exit, run' = run
  PROVE  IInv'
BY DEF IInv, Inside, OnePending, Latest, Course, Dead


-----------------------------------------------------------------------------
(* Starting a runner. *)

LEMMA StartingOK ==
  ASSUME IInv, Outside', Starting, backend' = backend,
         NEW n \in 0..MaxRunners, Latest(n), exit' \in [Runners -> Exits],
         \A r \in Runners : exit'[r] = exit[r] \/ (r = n /\ exit[r] = "restart" /\ exit'[r] = "over"),
         n # 0 => exit'[n] = "over"
  PROVE  IInv'
<1>1. NewRunner = n + 1 /\ n + 1 \in Runners
  BY CreatedIs DEF Starting, Latest, NewRunner
<1>2. PICK q \in Runners : q = n + 1
  BY <1>1
<1>. DEFINE reader == IF backend = "copilot" THEN "off" ELSE "reading"
            m == [run[q] EXCEPT !.boot = "starting", !.process = TRUE, !.reader = reader]
<1>3. run' = [run EXCEPT ![q] = m] /\ slot' = q
  BY <1>1, <1>2 DEF Starting, IInv, Inside
<1>4. run[q] \in Machines /\ run[q].boot = "no" /\ Course(run[q], exit[q])
  BY <1>2, RelayBoundsAssumption DEF Latest, IInv, Inside, Runners
<1>5. reader \in Readers
  BY Names
<1>6. m \in Machines /\ m.boot = "starting" /\ m.reader = reader /\ m.running = run[q].running
      /\ m.turn = run[q].turn
  BY <1>4, <1>5, Names DEF Machines
<1>7. exit'[q] = "none" /\ exit[q] = "none"
  BY <1>2, <1>4, RelayBoundsAssumption DEF Course
<1>8. Course(m, "none")
  BY <1>4, <1>6 DEF Course
<1>. HIDE DEF m
<1>9. Inside'
  <2>1. run' \in [Runners -> Machines] /\ slot' \in 0..MaxRunners
    BY <1>3, <1>6, RelayBoundsAssumption DEF IInv, Inside, Runners
  <2>2. ASSUME NEW s \in Runners PROVE Course(run[s], exit[s])'
    <3>1. CASE s = q
      <4>1. run'[s] = m /\ exit'[s] = "none"
        BY <3>1, <1>3, <1>7 DEF IInv, Inside
      <4>. QED
        BY <4>1, <1>8 DEF Course, Dead
    <3>2. CASE s # q
      <4>1. run'[s] = run[s]
        BY <3>2, <1>3 DEF IInv, Inside
      <4>2. Course(run[s], exit[s])
        BY DEF IInv, Inside
      <4>. QED
        BY <4>1, <4>2 DEF Course, Dead
    <3>. QED
      BY <3>1, <3>2
  <2>. QED
    BY <2>1, <2>2 DEF IInv, Inside
<1>10. Latest(q)'
  <2>1. \A s \in Runners : run'[s].boot = "no" <=> s > q
    BY <1>2, <1>3, <1>6, RelayBoundsAssumption DEF IInv, Inside, Latest, Runners
  <2>2. \A s \in Runners : s < q => exit'[s] = "over"
    BY <1>2, RelayBoundsAssumption DEF Latest, Runners
  <2>. QED
    BY <2>1, <2>2, <1>3 DEF Latest
<1>11. OnePending'
  BY <1>10, RelayBoundsAssumption DEF OnePending, Runners
<1>. QED
  BY <1>9, <1>11 DEF IInv

LEMMA StartingTargets == IInv /\ Starting => targets' \in Seq(Asks)
<1>1. IInv => NoTarget \in Asks
  BY ZeroAsk DEF NoTarget
<1>. QED
  BY <1>1 DEF IInv, Outside, Starting

LEMMA StartStep == IInv /\ Start => IInv'
<1>. SUFFICES ASSUME IInv, Start PROVE IInv'
  OBVIOUS
<1>1. PICK n \in 0..MaxRunners : Latest(n)
  BY DEF IInv, OnePending
<1>2. n = 0
  BY <1>1, CreatedIs, RelayBoundsAssumption DEF Start, NewRunner, Latest
<1>3. Outside'
  BY StartingTargets DEF Start, IInv, Outside
<1>4. exit' = exit /\ exit \in [Runners -> Exits] /\ Starting /\ backend' = backend
  BY DEF Start, IInv, Inside
<1>. QED
  BY <1>1, <1>2, <1>3, <1>4, StartingOK

LEMMA RestartStep == IInv /\ Restart => IInv'
<1>. SUFFICES ASSUME IInv, Restart PROVE IInv'
  OBVIOUS
<1>1. PICK n \in 0..MaxRunners : Latest(n)
  BY DEF IInv, OnePending
<1>2. PICK r \in Runners : exit[r] = "restart" /\ exit' = [exit EXCEPT ![r] = "over"]
  BY DEF Restart
<1>3. r = n
  <2>1. run[r].boot # "no"
    BY <1>2 DEF IInv, Inside, Course
  <2>. QED
    BY <2>1, <1>1, <1>2, RelayBoundsAssumption DEF Latest, Runners
<1>4. Outside'
  BY StartingTargets DEF Restart, IInv, Outside
<1>5. /\ exit' \in [Runners -> Exits] /\ exit'[r] = "over"
      /\ \A s \in Runners : s # r => exit'[s] = exit[s]
  BY <1>2 DEF IInv, Inside, Exits
<1>6. Starting /\ backend' = backend
  BY DEF Restart
<1>. QED
  BY <1>1, <1>2, <1>3, <1>4, <1>5, <1>6, StartingOK

LEMMA BootedStep == IInv /\ Booted => IInv'
<1>. SUFFICES ASSUME IInv, Booted PROVE IInv'
  OBVIOUS
<1>1. PICK r \in Runners, thread \in BOOLEAN :
        /\ run[r].boot = "starting" /\ run[r].process
        /\ run' = [run EXCEPT ![r].boot = "done", ![r].running = TRUE, ![r].thread = thread,
                              ![r].queue = IF backend = "acp" THEN <<SystemPrompt>> ELSE <<>>]
  BY DEF Booted
<1>2. PICK q \in Seq(Prompts) : q = IF backend = "acp" THEN <<SystemPrompt>> ELSE <<>>
  BY SystemQueue
<1>. DEFINE m == [run[r] EXCEPT !.boot = "done", !.running = TRUE, !.thread = thread, !.queue = q]
<1>3. run' = [run EXCEPT ![r] = m]
  BY <1>1, <1>2
<1>4. run[r] \in Machines /\ Course(run[r], exit[r])
  BY DEF IInv, Inside
<1>5. m \in Machines /\ m.boot = "done" /\ m.reader = run[r].reader /\ m.turn = run[r].turn
      /\ m.process = run[r].process
  BY <1>4, Names DEF Machines
<1>6. Course(m, exit[r])
  BY <1>1, <1>4, <1>5 DEF Course, Dead
<1>7. Outside' /\ backend' = backend /\ slot' = slot /\ exit' = exit
  BY DEF Booted, IInv, Outside
<1>. HIDE DEF m
<1>. QED
  BY <1>1, <1>3, <1>5, <1>6, <1>7, Becomes

LEMMA BootedLateStep == IInv /\ BootedLate => IInv'
<1>. SUFFICES ASSUME IInv, BootedLate PROVE IInv'
  OBVIOUS
<1>1. PICK r \in Runners :
        /\ run[r].boot = "starting" /\ run[r].reader = "ended"
        /\ run' = [run EXCEPT ![r].boot = "done", ![r].running = TRUE, ![r].thread = TRUE,
                              ![r].turn = "idle",
                              ![r].queue = IF backend = "acp" THEN <<SystemPrompt>> ELSE <<>>]
  BY DEF BootedLate
<1>2. PICK q \in Seq(Prompts) : q = IF backend = "acp" THEN <<SystemPrompt>> ELSE <<>>
  BY SystemQueue
<1>. DEFINE m == [run[r] EXCEPT !.boot = "done", !.running = TRUE, !.thread = TRUE,
                                !.turn = "idle", !.queue = q]
<1>3. run' = [run EXCEPT ![r] = m]
  BY <1>1, <1>2
<1>4. run[r] \in Machines /\ Course(run[r], exit[r])
  BY DEF IInv, Inside
<1>5. m \in Machines /\ m.boot = "done" /\ m.reader = run[r].reader /\ m.process = run[r].process
  BY <1>4, Names DEF Machines
<1>6. Course(m, exit[r])
  BY <1>1, <1>4, <1>5 DEF Course, Dead
<1>7. Outside' /\ backend' = backend /\ slot' = slot /\ exit' = exit
  BY DEF BootedLate, IInv, Outside
<1>. HIDE DEF m
<1>. QED
  BY <1>1, <1>3, <1>5, <1>6, <1>7, Becomes

LEMMA StartFailsStep == IInv /\ StartFails => IInv'
<1>. SUFFICES ASSUME IInv, StartFails PROVE IInv'
  OBVIOUS
<1>1. PICK r \in Runners :
        /\ run[r].boot = "starting"
        /\ run' = [run EXCEPT ![r].boot = "failed", ![r].process = @ /\ backend = "codex"]
        /\ alive' = (alive /\ r # 1)
  BY DEF StartFails
<1>2. run[r] \in Machines /\ Course(run[r], exit[r])
  BY DEF IInv, Inside
<1>. DEFINE process == run[r].process /\ backend = "codex"
            m == [run[r] EXCEPT !.boot = "failed", !.process = process]
<1>3. run' = [run EXCEPT ![r] = m]
  BY <1>1
<1>4. process \in BOOLEAN
  OBVIOUS
<1>5. m \in Machines /\ m.boot = "failed" /\ m.reader = run[r].reader /\ m.turn = run[r].turn
      /\ m.running = run[r].running /\ (m.process => run[r].process)
  BY <1>2, <1>4, Names DEF Machines
<1>6. Course(m, exit[r])
  BY <1>1, <1>2, <1>5 DEF Course, Dead
<1>7. Outside' /\ backend' = backend /\ slot' = slot /\ exit' = exit
  <2>1. alive' \in BOOLEAN
    BY <1>1
  <2>. QED
    BY <2>1 DEF StartFails, IInv, Outside
<1>. HIDE DEF m
<1>. QED
  BY <1>1, <1>3, <1>5, <1>6, <1>7, Becomes

LEMMA AcpStartFailsStep == IInv /\ AcpStartFails => IInv'
<1>. SUFFICES ASSUME IInv, AcpStartFails PROVE IInv'
  OBVIOUS
<1>1. PICK r \in Runners :
        /\ run[r].boot = "starting"
        /\ run' = [run EXCEPT ![r].boot = "failed", ![r].process = FALSE, ![r].reader = "ended",
                              ![r].pipe = <<>>]
        /\ exit' = [exit EXCEPT ![r] = IF r = 1 THEN "restart" ELSE "handling"]
        /\ slot' = IF r = 1 THEN 0 ELSE slot
  BY DEF AcpStartFails
<1>2. run[r] \in Machines /\ Course(run[r], exit[r]) /\ backend = "acp"
  BY DEF IInv, Inside, AcpStartFails
<1>. DEFINE m == [run[r] EXCEPT !.boot = "failed", !.process = FALSE, !.reader = "ended",
                                !.pipe = <<>>]
<1>3. run' = [run EXCEPT ![r] = m]
  BY <1>1
<1>4. m \in Machines /\ m.boot = "failed" /\ m.reader = "ended" /\ m.process = FALSE
      /\ m.running = run[r].running
  BY <1>2, Names, Empty DEF Machines
<1>5. PICK e \in {"restart", "handling"} : exit' = [exit EXCEPT ![r] = e]
  BY <1>1
<1>6. Course(m, e)
  BY <1>2, <1>4 DEF Course, Dead
<1>7. Outside' /\ backend' = backend
  BY DEF AcpStartFails, IInv, Outside
<1>8. PICK n \in 0..MaxRunners : Latest(n)
  BY DEF IInv, OnePending
<1>9. r = n
  BY <1>1, <1>2, <1>8, RelayBoundsAssumption DEF Latest, Course, Runners
<1>. HIDE DEF m
<1>10. Inside'
  <2>1. run' \in [Runners -> Machines] /\ exit' \in [Runners -> Exits]
    BY <1>3, <1>4, <1>5 DEF IInv, Inside, Exits
  <2>4. slot' \in 0..MaxRunners
    BY <1>1, RelayBoundsAssumption DEF IInv, Inside
  <2>2. ASSUME NEW s \in Runners PROVE Course(run[s], exit[s])'
    <3>1. CASE s = r
      <4>1. run'[s] = m /\ exit'[s] = e
        BY <3>1, <1>3, <1>5 DEF IInv, Inside
      <4>. QED
        BY <4>1, <1>6, <1>7 DEF Course, Dead
    <3>2. CASE s # r
      <4>1. run'[s] = run[s] /\ exit'[s] = exit[s]
        BY <3>2, <1>3, <1>5 DEF IInv, Inside
      <4>2. Course(run[s], exit[s])
        BY DEF IInv, Inside
      <4>. QED
        BY <4>1, <4>2, <1>7 DEF Course, Dead
    <3>. QED
      BY <3>1, <3>2
  <2>. QED
    BY <2>1, <2>2, <2>4, <1>7 DEF IInv, Inside
<1>11. Latest(n)'
  <2>1. \A s \in Runners : run'[s].boot = "no" <=> s > n
    BY <1>1, <1>3, <1>4, <1>8 DEF IInv, Inside, Latest
  <2>2. \A s \in Runners : s < n => exit'[s] = "over"
    BY <1>5, <1>8, <1>9, RelayBoundsAssumption DEF IInv, Inside, Latest, Runners
  <2>3. ~run'[n].process
    BY <1>3, <1>4, <1>9 DEF IInv, Inside
  <2>. QED
    BY <2>1, <2>2, <2>3, <1>1, <1>8 DEF Latest
<1>12. OnePending'
  BY <1>11 DEF OnePending
<1>. QED
  BY <1>7, <1>10, <1>12 DEF IInv


-----------------------------------------------------------------------------
(* A runner at work. *)

\* Between its start and its end a runner m becomes k.
Goes(m, k) ==
  /\ k.boot = m.boot /\ k.running = m.running /\ (k.process => m.process)
  /\ k.reader = m.reader \/ {k.reader, m.reader} \subseteq {"reading", "relaying"}
  /\ k.turn = m.turn \/ /\ m.turn # "idle" \/ m.running
                        /\ backend = "copilot" => m.turn # "gone"

LEMMA GoesOn ==
  ASSUME IInv, Outside', backend' = backend, slot' = slot, exit' = exit,
         NEW r \in Runners, NEW m \in Machines, run' = [run EXCEPT ![r] = m],
         Goes(run[r], m)
  PROVE  IInv'
<1>1. Course(run[r], exit[r])
  BY DEF IInv, Inside
<1>2. Course(m, exit[r])
  BY <1>1 DEF Course, Dead, Goes
<1>. QED
  BY <1>2, Becomes DEF Goes

LEMMA Runner == IInv => \A r \in Runners : run[r] \in Machines /\ Course(run[r], exit[r])
BY DEF IInv, Inside

\* The parts of a runner.
LEMMA Parts ==
  ASSUME NEW m \in Machines
  PROVE  /\ m.queue \in Seq(Prompts) /\ m.todo \in Seq(Messages) /\ m.pipe \in Seq(Messages)
         /\ m.at \in Prompts /\ m.at.to \in Asks /\ m.text \in SUBSET Asks
BY DEF Machines, Prompts

LEMMA DieStep == IInv /\ Die => IInv'
<1>. SUFFICES ASSUME IInv, Die PROVE IInv'
  OBVIOUS
<1>1. PICK r \in Runners : \E k \in 0..Len(run[r].pipe) :
        run' = [run EXCEPT ![r].process = FALSE, ![r].todo = <<>>, ![r].pipe = SubSeq(@, 1, k)]
  BY DEF Die
<1>2. PICK k \in 0..Len(run[r].pipe) :
        run' = [run EXCEPT ![r].process = FALSE, ![r].todo = <<>>, ![r].pipe = SubSeq(@, 1, k)]
  BY <1>1
<1>. DEFINE pipe == SubSeq(run[r].pipe, 1, k)
            m == [run[r] EXCEPT !.process = FALSE, !.todo = <<>>, !.pipe = pipe]
<1>3. run' = [run EXCEPT ![r] = m]
  BY <1>2
<1>4. pipe \in Seq(Messages)
  BY Runner, Parts, SubSeqProperties
<1>5. run[r] \in Machines
  BY Runner
<1>. HIDE DEF pipe
<1>6. m \in Machines /\ Goes(run[r], m)
  BY <1>4, <1>5, Empty DEF Machines, Goes
<1>7. Outside' /\ backend' = backend /\ slot' = slot /\ exit' = exit
  BY DEF Die, IInv, Outside
<1>. QED
  BY <1>3, <1>6, <1>7, GoesOn

LEMMA CleanupStep == IInv /\ Cleanup => IInv'
<1>. SUFFICES ASSUME IInv, Cleanup PROVE IInv'
  OBVIOUS
<1>1. PICK r \in Runners :
        /\ run[r].reader = "reading" /\ ~run[r].process
        /\ run' = [run EXCEPT
                   ![r].reader = "ended", ![r].running = FALSE, ![r].pending = FALSE,
                   ![r].turn = IF backend = "acp" THEN "gone"
                               ELSE IF run[r].pending THEN "failing" ELSE @]
        /\ exit' = [exit EXCEPT ![r] = "handling"]
        /\ skewed' = (skewed \/ (targets # <<>> /\ ~OnlyPending(r)))
  BY DEF Cleanup
<1>. DEFINE turn == IF backend = "acp" THEN "gone"
                    ELSE IF run[r].pending THEN "failing" ELSE run[r].turn
            m == [run[r] EXCEPT !.reader = "ended", !.running = FALSE, !.pending = FALSE,
                                !.turn = turn]
<1>2. run' = [run EXCEPT ![r] = m]
  BY <1>1
<1>3. run[r] \in Machines /\ Course(run[r], exit[r])
  BY Runner
<1>4. turn \in Turns
  BY <1>3, Names DEF Machines
<1>. HIDE DEF turn
<1>5. m \in Machines /\ m.boot = run[r].boot /\ m.process = run[r].process
      /\ m.reader = "ended" /\ m.running = FALSE
  BY <1>3, <1>4, Names DEF Machines
<1>6. backend # "copilot" /\ exit[r] # "over"
  BY <1>1, <1>3 DEF Course, Dead
<1>7. Course(m, "handling")
  BY <1>1, <1>3, <1>5, <1>6 DEF Course, Dead
<1>8. Outside' /\ backend' = backend /\ slot' = slot
  <2>1. skewed' \in BOOLEAN
    BY <1>1
  <2>. QED
    BY <2>1 DEF Cleanup, IInv, Outside
<1>9. "handling" \in Exits
  BY DEF Exits
<1>. HIDE DEF m
<1>. QED
  BY <1>1, <1>2, <1>5, <1>6, <1>7, <1>8, <1>9, Changes

LEMMA OnExitStep == IInv /\ OnExit => IInv'
<1>. SUFFICES ASSUME IInv, OnExit PROVE IInv'
  OBVIOUS
<1>1. PICK r \in Runners, e \in {"restart", "over"} :
        /\ exit[r] = "handling" /\ run[r].boot # "starting"
        /\ exit' = [exit EXCEPT ![r] = e]
  BY DEF OnExit
<1>2. run[r] \in Machines /\ Course(run[r], exit[r])
  BY Runner
<1>3. Course(run[r], e)
  BY <1>1, <1>2 DEF Course
<1>4. run' = [run EXCEPT ![r] = run[r]]
  BY DEF OnExit, IInv, Inside
<1>5. Outside' /\ backend' = backend /\ slot' = slot
  BY DEF OnExit, IInv, Outside
<1>6. e \in Exits
  BY DEF Exits
<1>. QED
  BY <1>1, <1>2, <1>3, <1>4, <1>5, <1>6, Changes

-----------------------------------------------------------------------------
(* Prompts. *)

\* A prompt is put into the queue of a runner.
LEMMA PutOK ==
  ASSUME IInv, Outside', backend' = backend, slot' = slot, exit' = exit,
         NEW r \in 0..MaxRunners, NEW p \in Prompts, Put(r, p)
  PROVE  IInv'
<1>1. CASE r \in Runners
  <2>. DEFINE m == [run[r] EXCEPT !.queue = Append(@, p)]
  <2>1. run' = [run EXCEPT ![r] = m]
    BY DEF Put
  <2>2. run[r] \in Machines
    BY <1>1, Runner
  <2>3. Append(run[r].queue, p) \in Seq(Prompts)
    BY <2>2, Parts
  <2>4. m \in Machines /\ Goes(run[r], m)
    BY <2>2, <2>3 DEF Machines, Goes
  <2>. QED
    BY <1>1, <2>1, <2>4, GoesOn
<1>2. CASE r \notin Runners
  <2>1. run' = run
    BY <1>2 DEF Put, IInv, Inside
  <2>. QED
    BY <2>1, Same
<1>. QED
  BY <1>1, <1>2

LEMMA MentionStep == IInv /\ Mention => IInv'
<1>. SUFFICES ASSUME IInv, Mention PROVE IInv'
  OBVIOUS
<1>1. PICK n \in Asks : n = asked + 1
  BY NextAsk DEF Mention, Asking
<1>2. asked' = n /\ targets' = Append(targets, n)
      /\ tasks' = Append(tasks, [kind |-> "put", runner |-> slot, prompt |-> Prompt(n, n, TRUE)])
  BY <1>1 DEF Mention, Asking
<1>3. Prompt(n, n, TRUE) \in Prompts /\ slot \in 0..MaxRunners
  BY PromptType DEF IInv, Inside
<1>4. tasks' \in Seq(Jobs)
  <2>1. [kind |-> "put", runner |-> slot, prompt |-> Prompt(n, n, TRUE)] \in Jobs
    BY <1>3 DEF Jobs
  <2>. QED
    BY <1>2, <2>1 DEF IInv, Outside
<1>5. targets' \in Seq(Asks)
  BY <1>2 DEF IInv, Outside
<1>6. Outside'
  BY <1>2, <1>4, <1>5 DEF Mention, IInv, Outside
<1>. QED
  BY <1>6, Same DEF Mention

LEMMA InviteStep == IInv /\ Invite => IInv'
<1>. SUFFICES ASSUME IInv, Invite PROVE IInv'
  OBVIOUS
<1>1. PICK n \in Asks : n = asked + 1
  BY NextAsk DEF Invite, Asking
<1>2. asked' = n
      /\ tasks' = Append(tasks, [kind |-> "invite", runner |-> 0, prompt |-> Prompt(n, NoTarget, TRUE)])
  BY <1>1 DEF Invite, Asking
<1>3. Prompt(n, NoTarget, TRUE) \in Prompts
  BY PromptType, ZeroAsk DEF NoTarget
<1>4. tasks' \in Seq(Jobs)
  <2>1. 0 \in 0..MaxRunners
    BY RelayBoundsAssumption
  <2>2. [kind |-> "invite", runner |-> 0, prompt |-> Prompt(n, NoTarget, TRUE)] \in Jobs
    BY <1>3, <2>1 DEF Jobs
  <2>. QED
    BY <1>2, <2>2 DEF IInv, Outside
<1>5. Outside'
  BY <1>2, <1>4 DEF Invite, IInv, Outside
<1>. QED
  BY <1>5, Same DEF Invite

LEMMA QueryStep == IInv /\ Query => IInv'
<1>. SUFFICES ASSUME IInv, Query PROVE IInv'
  OBVIOUS
<1>1. PICK n \in Asks : n = asked + 1
  BY NextAsk DEF Query, Asking
<1>2. asked' = n /\ targets' = Append(targets, NoTarget) /\ Put(slot, Prompt(n, NoTarget, TRUE))
      /\ skewed' = (skewed \/ Overtakes(tasks))
  BY <1>1 DEF Query, Asking, Put
<1>3. Prompt(n, NoTarget, TRUE) \in Prompts /\ slot \in 0..MaxRunners
  BY PromptType, ZeroAsk DEF IInv, Inside, NoTarget
<1>4. targets' \in Seq(Asks) /\ skewed' \in BOOLEAN
  BY <1>2, ZeroAsk DEF IInv, Outside, NoTarget
<1>5. Outside'
  BY <1>2, <1>4 DEF Query, IInv, Outside
<1>. QED
  BY <1>2, <1>3, <1>5, PutOK DEF Query

LEMMA CommandStep == IInv /\ Command => IInv'
<1>. SUFFICES ASSUME IInv, Command PROVE IInv'
  OBVIOUS
<1>1. PICK n \in Asks : n = asked + 1
  BY NextAsk DEF Command, Asking
<1>2. asked' = n /\ Put(slot, Prompt(n, NoTarget, FALSE))
  BY <1>1 DEF Command, Asking, Put
<1>3. Prompt(n, NoTarget, FALSE) \in Prompts /\ slot \in 0..MaxRunners
  BY PromptType, ZeroAsk DEF IInv, Inside, NoTarget
<1>4. Outside'
  BY <1>2 DEF Command, IInv, Outside
<1>. QED
  BY <1>2, <1>3, <1>4, PutOK DEF Command

LEMMA RunTaskStep == IInv /\ RunTask => IInv'
<1>. SUFFICES ASSUME IInv, RunTask PROVE IInv'
  OBVIOUS
<1>1. PICK task \in Jobs : task = Head(tasks)
  BY HeadTail DEF RunTask, IInv, Outside
<1>2. tasks' \in Seq(Jobs)
  BY HeadTail DEF RunTask, IInv, Outside
<1>3. task.runner \in 0..MaxRunners /\ task.prompt \in Prompts /\ slot \in 0..MaxRunners
  BY DEF Jobs, IInv, Inside
<1>4. backend' = backend /\ slot' = slot /\ exit' = exit
  BY DEF RunTask
<1>5. CASE Put(task.runner, task.prompt) /\ UNCHANGED <<targets, skewed>>
  <2>1. Outside'
    BY <1>2, <1>5 DEF RunTask, IInv, Outside
  <2>. QED
    BY <1>3, <1>4, <1>5, <2>1, PutOK
<1>6. CASE Put(slot, task.prompt) /\ targets' = Append(targets, NoTarget)
           /\ skewed' = (skewed \/ Overtakes(Tail(tasks)))
  <2>1. targets' \in Seq(Asks) /\ skewed' \in BOOLEAN
    BY <1>6, ZeroAsk DEF IInv, Outside, NoTarget
  <2>2. Outside'
    BY <1>2, <2>1 DEF RunTask, IInv, Outside
  <2>. QED
    BY <1>3, <1>4, <1>6, <2>2, PutOK
<1>7. CASE UNCHANGED <<run, targets, skewed>>
  <2>1. Outside'
    BY <1>2, <1>7 DEF RunTask, IInv, Outside
  <2>. QED
    BY <1>4, <1>7, <2>1, Same
<1>. QED
  BY <1>1, <1>5, <1>6, <1>7 DEF RunTask

LEMMA ScriptType == ASSUME NEW script \in Scripts PROVE script \in Seq(Kinds)
<1>1. /\ <<"result", "started", "delta", "completed">> \in Seq(Kinds)
      /\ <<"result", "started", "completed">> \in Seq(Kinds)
      /\ <<"result", "started", "delta", "error">> \in Seq(Kinds)
      /\ <<"refused">> \in Seq(Kinds)
  BY DEF Kinds
<1>2. /\ <<"delta", "stopped">> \in Seq(Kinds)
      /\ <<"stopped">> \in Seq(Kinds)
      /\ <<"delta", "result", "stop">> \in Seq(Kinds)
      /\ <<"delta", "refused">> \in Seq(Kinds)
  BY DEF Kinds
<1>. QED
  BY <1>1, <1>2 DEF Scripts

LEMMA WorkStep == IInv /\ Work => IInv'
<1>. SUFFICES ASSUME IInv, Work PROVE IInv'
  OBVIOUS
<1>1. PICK r \in Runners, script \in Scripts :
        /\ run[r].todo # <<>>
        /\ LET job == Head(run[r].todo) IN
           run' = [run EXCEPT ![r].todo = Tail(@),
                              ![r].pipe = @ \o [i \in DOMAIN script |->
                                                  Message(script[i], job.prompt, job.try)]]
  BY DEF Work
<1>2. run[r] \in Machines /\ run[r].todo \in Seq(Messages) /\ run[r].pipe \in Seq(Messages)
  BY Runner, Parts
<1>3. PICK job \in Messages : job = Head(run[r].todo)
  BY <1>1, <1>2, HeadTail
<1>. DEFINE said == [i \in DOMAIN script |-> Message(script[i], job.prompt, job.try)]
            todo == Tail(run[r].todo)
            pipe == run[r].pipe \o said
            m == [run[r] EXCEPT !.todo = todo, !.pipe = pipe]
<1>4. run' = [run EXCEPT ![r] = m]
  BY <1>1, <1>3
<1>5. todo \in Seq(Messages)
  BY <1>1, <1>2, HeadTail
<1>6. said \in Seq(Messages)
  <2>1. job.prompt \in Prompts /\ job.try \in 1..2
    BY DEF Messages
  <2>2. script \in Seq(Kinds)
    BY ScriptType
  <2>3. \A i \in 1..Len(script) : script[i] \in Kinds
    BY <2>2
  <2>4. \A i \in 1..Len(script) : Message(script[i], job.prompt, job.try) \in Messages
    BY <2>1, <2>3, MessageType
  <2>5. said = [i \in 1..Len(script) |-> Message(script[i], job.prompt, job.try)]
    BY <2>2
  <2>. QED
    BY <2>2, <2>4, <2>5
<1>7. pipe \in Seq(Messages)
  BY <1>2, <1>6, ConcatProperties
<1>. HIDE DEF todo, pipe
<1>8. m \in Machines /\ Goes(run[r], m)
  BY <1>2, <1>5, <1>7 DEF Machines, Goes
<1>9. Outside' /\ backend' = backend /\ slot' = slot /\ exit' = exit
  BY DEF Work, IInv, Outside
<1>. HIDE DEF m
<1>. QED
  BY <1>4, <1>8, <1>9, GoesOn


-----------------------------------------------------------------------------
(* The prompt loop. *)

LEMMA EndsSilentOK ==
  ASSUME IInv, NEW r \in Runners, EndsSilent(r), run[r].turn \notin {"idle", "gone"},
         UNCHANGED <<backend, alive, slot, exit, tasks, asked>>
  PROVE  IInv'
<1>. DEFINE m == Ended(run[r])
<1>1. run[r] \in Machines /\ run' = [run EXCEPT ![r] = m]
  BY Runner DEF EndsSilent
<1>2. m \in Machines /\ Goes(run[r], m)
  BY <1>1, EndedType DEF Machines, Goes, Ended
<1>3. skewed' \in BOOLEAN
  BY DEF EndsSilent
<1>4. Outside'
  BY <1>3 DEF EndsSilent, IInv, Outside
<1>. HIDE DEF m
<1>. QED
  BY <1>1, <1>2, <1>4, GoesOn

LEMMA ApologisesType ==
  ASSUME IInv, NEW to \in Asks, Apologises(to)
  PROVE  targets' \in Seq(Asks) /\ told' \in [about : SUBSET Asks, to : Asks]
BY PopsType, TellsType DEF Apologises

LEMMA RelaysType ==
  ASSUME IInv, NEW about \in SUBSET Asks, Relays(about)
  PROVE  targets' \in Seq(Asks) /\ told' \in [about : SUBSET Asks, to : Asks]
BY PopsType, TellsType DEF Relays

LEMMA EndsInErrorOK ==
  ASSUME IInv, NEW r \in Runners, EndsInError(r), run[r].turn \notin {"idle", "gone"},
         UNCHANGED <<backend, alive, slot, exit, tasks, asked>>
  PROVE  IInv'
<1>. DEFINE m == [Ended(run[r]) EXCEPT !.pending = FALSE, !.done = TRUE]
<1>1. run[r] \in Machines /\ run' = [run EXCEPT ![r] = m]
  BY Runner DEF EndsInError
<1>2. Ended(run[r]) \in Machines /\ Goes(run[r], Ended(run[r]))
  BY <1>1, EndedType DEF Machines, Goes, Ended
<1>3. m \in Machines /\ Goes(run[r], m)
  BY <1>1, <1>2 DEF Machines, Goes
<1>4. skewed' \in BOOLEAN
  BY DEF EndsInError
<1>5. targets' \in Seq(Asks) /\ told' \in [about : SUBSET Asks, to : Asks]
  BY <1>1, Parts, ApologisesType DEF EndsInError
<1>6. Outside'
  BY <1>4, <1>5 DEF IInv, Outside
<1>. HIDE DEF m
<1>. QED
  BY <1>1, <1>3, <1>6, GoesOn

LEMMA TakesGives ==
  ASSUME IInv, NEW r \in Runners, Takes(r)
  PROVE  /\ Taken(run[r]) \in Machines /\ Head(run[r].queue) \in Prompts
         /\ run[r] \in Machines /\ run[r].turn = "idle" /\ run[r].running
BY Runner, TakenType DEF Takes

LEMMA TakeStep == IInv /\ Take => IInv'
<1>. SUFFICES ASSUME IInv, Take PROVE IInv'
  OBVIOUS
<1>1. PICK r \in Runners :
        Takes(r) /\ run' = [run EXCEPT ![r] = Request(Taken(run[r]), Head(run[r].queue), 1)]
  BY DEF Take
<1>. DEFINE m == Request(Taken(run[r]), Head(run[r].queue), 1)
<1>2. m \in Machines
  BY <1>1, TakesGives, RequestType, Names
<1>3. Goes(run[r], Taken(run[r])) /\ Taken(run[r]) \in Machines /\ run[r].turn = "idle"
      /\ run[r].running
  BY <1>1, TakesGives DEF Goes, Taken, Machines
<1>4. Goes(run[r], m)
  BY <1>3 DEF Goes, Request, Machines
<1>5. Outside' /\ backend' = backend /\ slot' = slot /\ exit' = exit
  BY DEF Take, IInv, Outside
<1>. HIDE DEF m
<1>. QED
  BY <1>1, <1>2, <1>4, <1>5, GoesOn DEF m

LEMMA TakeInVainStep == IInv /\ TakeInVain => IInv'
<1>. SUFFICES ASSUME IInv, TakeInVain PROVE IInv'
  OBVIOUS
<1>1. PICK r \in Runners :
        /\ Takes(r)
        /\ run' = [run EXCEPT ![r] = [Taken(run[r]) EXCEPT !.done = TRUE]]
        /\ Apologises(Head(run[r].queue).to)
        /\ skewed' = (skewed \/ ~Head(run[r].queue).owed)
  BY DEF TakeInVain
<1>2. Taken(run[r]) \in Machines /\ Head(run[r].queue).to \in Asks
  BY <1>1, TakesGives DEF Prompts
<1>. DEFINE m == [Taken(run[r]) EXCEPT !.done = TRUE]
<1>3. Goes(run[r], Taken(run[r])) /\ run[r] \in Machines
  BY <1>1, TakesGives DEF Goes, Taken, Machines
<1>4. m \in Machines /\ Goes(run[r], m)
  BY <1>2, <1>3 DEF Machines, Goes
<1>5. targets' \in Seq(Asks) /\ told' \in [about : SUBSET Asks, to : Asks]
  BY <1>1, <1>2, ApologisesType
<1>6. skewed' \in BOOLEAN
  BY <1>1
<1>7. Outside' /\ backend' = backend /\ slot' = slot /\ exit' = exit
  BY <1>5, <1>6 DEF TakeInVain, IInv, Outside
<1>8. run' = [run EXCEPT ![r] = m]
  BY <1>1
<1>. HIDE DEF m
<1>. QED
  BY <1>4, <1>7, <1>8, GoesOn

LEMMA TakeWithoutThreadStep == IInv /\ TakeWithoutThread => IInv'
<1>. SUFFICES ASSUME IInv, TakeWithoutThread PROVE IInv'
  OBVIOUS
<1>1. PICK r \in Runners :
        Takes(r) /\ run' = [run EXCEPT ![r].queue = Tail(@), ![r].turn = "gone"]
  BY DEF TakeWithoutThread
<1>. DEFINE queue == Tail(run[r].queue)
            m == [run[r] EXCEPT !.queue = queue, !.turn = "gone"]
<1>2. run' = [run EXCEPT ![r] = m]
  BY <1>1
<1>3. run[r] \in Machines /\ run[r].turn = "idle" /\ run[r].running
  BY <1>1, TakesGives
<1>4. queue \in Seq(Prompts)
  BY <1>1, <1>3, Parts, HeadTail DEF Takes
<1>. HIDE DEF queue
<1>5. m \in Machines /\ Goes(run[r], m)
  BY <1>3, <1>4, Names DEF Machines, Goes
<1>6. Outside' /\ backend' = backend /\ slot' = slot /\ exit' = exit
  BY DEF TakeWithoutThread, IInv, Outside
<1>. HIDE DEF m
<1>. QED
  BY <1>2, <1>5, <1>6, GoesOn

LEMMA TimeoutStep == IInv /\ Timeout => IInv'
BY EndsInErrorOK DEF Timeout

LEMMA GiveUpStep == IInv /\ GiveUp => IInv'
BY EndsInErrorOK DEF GiveUp

LEMMA RequestFailedStep == IInv /\ RequestFailed => IInv'
BY EndsInErrorOK DEF RequestFailed

LEMMA TurnEndsStep == IInv /\ TurnEnds => IInv'
BY EndsSilentOK DEF TurnEnds

LEMMA RetryStep == IInv /\ Retry => IInv'
<1>. SUFFICES ASSUME IInv, Retry PROVE IInv'
  OBVIOUS
<1>1. PICK r \in Runners :
        run[r].turn = "asked" /\ run' = [run EXCEPT ![r] = Request(run[r], run[r].at, 2)]
  BY DEF Retry
<1>. DEFINE m == Request(run[r], run[r].at, 2)
<1>2. run[r] \in Machines /\ m \in Machines
  BY Runner, Parts, RequestType, Names
<1>3. Goes(run[r], m)
  BY <1>1, <1>2 DEF Goes, Request, Machines
<1>4. Outside' /\ backend' = backend /\ slot' = slot /\ exit' = exit
  BY DEF Retry, IInv, Outside
<1>. QED
  BY <1>1, <1>2, <1>3, <1>4, GoesOn

\* The text of a turn is relayed.
LEMMA RelayingOK ==
  ASSUME IInv, NEW r \in Runners, run[r].turn \notin {"idle", "gone"},
         NEW about \in SUBSET Asks, Relays(about), skewed' = (skewed \/ Spent(r)),
         run' = [run EXCEPT ![r].turn = "relaying", ![r].took = TRUE],
         UNCHANGED <<backend, alive, slot, exit, tasks, asked>>
  PROVE  IInv'
<1>. DEFINE m == [run[r] EXCEPT !.turn = "relaying", !.took = TRUE]
<1>1. run' = [run EXCEPT ![r] = m] /\ run[r] \in Machines
  BY Runner
<1>2. m \in Machines /\ Goes(run[r], m)
  BY <1>1, Names DEF Machines, Goes
<1>3. targets' \in Seq(Asks) /\ told' \in [about : SUBSET Asks, to : Asks] /\ skewed' \in BOOLEAN
  BY RelaysType
<1>4. Outside'
  BY <1>3 DEF IInv, Outside
<1>. HIDE DEF m
<1>. QED
  BY <1>1, <1>2, <1>4, GoesOn

LEMMA FlushResultStep == IInv /\ FlushResult => IInv'
<1>. SUFFICES ASSUME IInv, FlushResult PROVE IInv'
  OBVIOUS
<1>1. PICK r \in Runners :
        /\ run[r].turn = "responded"
        /\ \/ EndsSilent(r)
           \/ /\ Relays(run[r].text) /\ skewed' = (skewed \/ Spent(r))
              /\ run' = [run EXCEPT ![r].turn = "relaying", ![r].took = TRUE]
  BY DEF FlushResult
<1>2. run[r].text \in SUBSET Asks
  BY Runner, Parts
<1>3. UNCHANGED <<backend, alive, slot, exit, tasks, asked>>
  BY DEF FlushResult
<1>. QED
  BY <1>1, <1>2, <1>3, EndsSilentOK, RelayingOK

LEMMA FlushResultEndsStep == IInv /\ FlushResultEnds => IInv'
<1>. SUFFICES ASSUME IInv, FlushResultEnds PROVE IInv'
  OBVIOUS
<1>1. PICK r \in Runners :
        /\ run[r].turn = "relaying"
        /\ run' = [run EXCEPT ![r] = [Ended(run[r]) EXCEPT !.text = {}]]
  BY DEF FlushResultEnds
<1>. DEFINE m == [Ended(run[r]) EXCEPT !.text = {}]
<1>2. run[r] \in Machines
  BY Runner
<1>3. Ended(run[r]) \in Machines /\ Goes(run[r], Ended(run[r]))
  BY <1>1, <1>2, EndedType DEF Machines, Goes, Ended
<1>4. m \in Machines /\ Goes(run[r], m)
  BY <1>1, <1>2, <1>3, Names DEF Machines, Goes
<1>5. Outside' /\ backend' = backend /\ slot' = slot /\ exit' = exit
  BY DEF FlushResultEnds, IInv, Outside
<1>6. run' = [run EXCEPT ![r] = m]
  BY <1>1
<1>. HIDE DEF m
<1>. QED
  BY <1>4, <1>5, <1>6, GoesOn

LEMMA CopilotAnswersStep == IInv /\ CopilotAnswers => IInv'
<1>. SUFFICES ASSUME IInv, CopilotAnswers PROVE IInv'
  OBVIOUS
<1>1. PICK r \in Runners :
        /\ run[r].turn = "asked"
        /\ \/ EndsSilent(r)
           \/ /\ Relays({run[r].at.to}) /\ skewed' = (skewed \/ Spent(r))
              /\ run' = [run EXCEPT ![r].turn = "relaying", ![r].took = TRUE]
  BY DEF CopilotAnswers
<1>2. {run[r].at.to} \in SUBSET Asks
  BY Runner, Parts
<1>3. UNCHANGED <<backend, alive, slot, exit, tasks, asked>>
  BY DEF CopilotAnswers
<1>. QED
  BY <1>1, <1>2, <1>3, EndsSilentOK, RelayingOK

LEMMA CopilotFailsStep == IInv /\ CopilotFails => IInv'
<1>. SUFFICES ASSUME IInv, CopilotFails PROVE IInv'
  OBVIOUS
<1>1. PICK r \in Runners :
        /\ run[r].turn = "asked" /\ Apologises(run[r].at.to) /\ skewed' = (skewed \/ Spent(r))
        /\ run' = [run EXCEPT ![r].turn = "failing"]
  BY DEF CopilotFails
<1>. DEFINE m == [run[r] EXCEPT !.turn = "failing"]
<1>2. run' = [run EXCEPT ![r] = m] /\ run[r] \in Machines
  BY <1>1, Runner
<1>3. m \in Machines /\ Goes(run[r], m)
  BY <1>1, <1>2, Names DEF Machines, Goes
<1>4. targets' \in Seq(Asks) /\ told' \in [about : SUBSET Asks, to : Asks] /\ skewed' \in BOOLEAN
  BY <1>1, <1>2, Parts, ApologisesType
<1>5. Outside' /\ backend' = backend /\ slot' = slot /\ exit' = exit
  BY <1>4 DEF CopilotFails, IInv, Outside
<1>. HIDE DEF m
<1>. QED
  BY <1>2, <1>3, <1>5, GoesOn

LEMMA CopilotExitsStep == IInv /\ CopilotExits => IInv'
<1>. SUFFICES ASSUME IInv, CopilotExits PROVE IInv'
  OBVIOUS
<1>1. PICK r \in Runners :
        /\ run[r].turn = "failing"
        /\ run' = [run EXCEPT ![r].turn = "gone", ![r].running = FALSE]
        /\ exit' = [exit EXCEPT ![r] = "handling"]
  BY DEF CopilotExits
<1>2. run[r] \in Machines /\ Course(run[r], exit[r]) /\ backend = "copilot"
  BY Runner DEF CopilotExits
<1>. DEFINE m == [run[r] EXCEPT !.turn = "gone", !.running = FALSE]
<1>3. run' = [run EXCEPT ![r] = m]
  BY <1>1
<1>4. m \in Machines /\ m.boot = run[r].boot /\ m.process = run[r].process
      /\ m.reader = run[r].reader /\ m.running = FALSE /\ m.turn = "gone"
  BY <1>2, Names DEF Machines
<1>5. exit[r] # "over" /\ run[r].boot \notin {"no", "starting"}
  BY <1>1, <1>2 DEF Course, Dead
<1>6. Course(m, "handling")
  BY <1>2, <1>4, <1>5 DEF Course, Dead
<1>7. skewed' \in BOOLEAN
  BY DEF CopilotExits
<1>8. Outside' /\ backend' = backend /\ slot' = slot
  BY <1>7 DEF CopilotExits, IInv, Outside
<1>9. "handling" \in Exits
  BY DEF Exits
<1>. HIDE DEF m
<1>. QED
  BY <1>1, <1>3, <1>4, <1>5, <1>6, <1>8, <1>9, Changes

-----------------------------------------------------------------------------
(* The reader. *)

LEMMA RestType ==
  ASSUME IInv, NEW r \in Runners, NEW kind, Reads(r, kind)
  PROVE  /\ run[r] \in Machines /\ Rest(r) \in Machines
         /\ Goes(run[r], Rest(r)) /\ Rest(r).reader = "reading" /\ run[r].reader = "reading"
         /\ Rest(r).turn = run[r].turn /\ Line(r) \in Messages
<1>1. run[r] \in Machines
  BY Runner
<1>2. Tail(run[r].pipe) \in Seq(Messages) /\ Line(r) \in Messages
  BY <1>1, Parts, HeadTail DEF Reads, Line
<1>. QED
  BY <1>1, <1>2 DEF Machines, Rest, Goes, Reads

LEMMA ReadResponseStep == IInv /\ ReadResponse => IInv'
<1>. SUFFICES ASSUME IInv, ReadResponse PROVE IInv'
  OBVIOUS
<1>1. PICK r \in Runners, kind \in {"result", "stopped", "refused"} :
        /\ Reads(r, kind)
        /\ run' = [run EXCEPT ![r] =
                     IF run[r].pending /\ ~Late(r)
                     THEN [Rest(r) EXCEPT !.pending = FALSE,
                                          !.turn = IF kind = "stopped" THEN "responded" ELSE "waiting"]
                     ELSE Rest(r)]
  BY DEF ReadResponse
<1>2. /\ run[r] \in Machines /\ Rest(r) \in Machines
      /\ Goes(run[r], Rest(r)) /\ Rest(r).turn = run[r].turn
  BY <1>1, RestType
<1>3. Outside' /\ backend' = backend /\ slot' = slot /\ exit' = exit
  BY DEF ReadResponse, IInv, Outside
<1>4. CASE run[r].pending /\ ~Late(r)
  <2>. DEFINE turn == IF kind = "stopped" THEN "responded" ELSE "waiting"
              m == [Rest(r) EXCEPT !.pending = FALSE, !.turn = turn]
  <2>1. run' = [run EXCEPT ![r] = m]
    BY <1>1, <1>4
  <2>. HIDE DEF turn
  <2>2. turn \in Turns
    BY Names DEF turn
  <2>3. run[r].turn # "idle" /\ backend # "copilot"
    BY <1>1, <1>4, Runner DEF Late, Course, Reads
  <2>4. m \in Machines /\ Goes(run[r], m)
    BY <1>2, <2>2, <2>3 DEF Machines, Goes
  <2>. HIDE DEF m
  <2>. QED
    BY <1>3, <2>1, <2>4, GoesOn
<1>5. CASE ~(run[r].pending /\ ~Late(r))
  <2>1. run' = [run EXCEPT ![r] = Rest(r)]
    BY <1>1, <1>5
  <2>. QED
    BY <1>2, <1>3, <2>1, GoesOn
<1>. QED
  BY <1>4, <1>5

LEMMA ReadTextStep == IInv /\ ReadText => IInv'
<1>. SUFFICES ASSUME IInv, ReadText PROVE IInv'
  OBVIOUS
<1>1. PICK r \in Runners :
        /\ \/ /\ Reads(r, "started")
              /\ run' = [run EXCEPT ![r] = [Rest(r) EXCEPT !.busy = TRUE, !.text = {}]]
           \/ /\ Reads(r, "delta")
              /\ run' = [run EXCEPT ![r] = [Rest(r) EXCEPT !.busy = TRUE,
                                                           !.text = @ \cup {Line(r).prompt.to}]]
        /\ skewed' = (skewed \/ Late(r))
  BY DEF ReadText
<1>2. /\ run[r] \in Machines /\ Rest(r) \in Machines /\ Goes(run[r], Rest(r))
      /\ Line(r) \in Messages
  BY <1>1, RestType
<1>3. PICK text \in SUBSET Asks :
        run' = [run EXCEPT ![r] = [Rest(r) EXCEPT !.busy = TRUE, !.text = text]]
  <2>1. Rest(r).text \cup {Line(r).prompt.to} \in SUBSET Asks
    BY <1>2, Parts DEF Messages, Prompts
  <2>. QED
    BY <1>1, <2>1
<1>. DEFINE m == [Rest(r) EXCEPT !.busy = TRUE, !.text = text]
<1>4. m \in Machines /\ Goes(run[r], m)
  BY <1>2 DEF Machines, Goes
<1>5. skewed' \in BOOLEAN
  BY <1>1
<1>6. Outside' /\ backend' = backend /\ slot' = slot /\ exit' = exit
  BY <1>5 DEF ReadText, IInv, Outside
<1>. HIDE DEF m
<1>. QED
  BY <1>3, <1>4, <1>6, GoesOn DEF m

LEMMA ReadEndStep == IInv /\ ReadEnd => IInv'
<1>. SUFFICES ASSUME IInv, ReadEnd PROVE IInv'
  OBVIOUS
<1>1. PICK r \in Runners, kind \in {"completed", "stop"} :
        /\ Reads(r, kind)
        /\ IF run[r].text = {}
           THEN /\ run' = [run EXCEPT ![r] = [Rest(r) EXCEPT !.busy = FALSE, !.done = TRUE]]
                /\ skewed' = (skewed \/ Late(r))
                /\ UNCHANGED <<targets, told>>
           ELSE /\ run' = [run EXCEPT ![r] = [Rest(r) EXCEPT !.busy = FALSE, !.reader = "relaying",
                                                             !.took = TRUE]]
                /\ Relays(run[r].text)
                /\ skewed' = (skewed \/ Late(r) \/ Spent(r))
  BY DEF ReadEnd
<1>2. /\ run[r] \in Machines /\ Rest(r) \in Machines /\ Goes(run[r], Rest(r))
      /\ Rest(r).reader = "reading" /\ run[r].reader = "reading"
  BY <1>1, RestType
<1>3. UNCHANGED <<backend, alive, slot, exit, tasks, asked>>
  BY DEF ReadEnd
<1>4. CASE run[r].text = {}
  <2>. DEFINE m == [Rest(r) EXCEPT !.busy = FALSE, !.done = TRUE]
  <2>1. run' = [run EXCEPT ![r] = m] /\ skewed' \in BOOLEAN /\ UNCHANGED <<targets, told>>
    BY <1>1, <1>4
  <2>2. m \in Machines /\ Goes(run[r], m)
    BY <1>2 DEF Machines, Goes
  <2>3. Outside'
    BY <1>3, <2>1 DEF IInv, Outside
  <2>. HIDE DEF m
  <2>. QED
    BY <1>3, <2>1, <2>2, <2>3, GoesOn
<1>5. CASE run[r].text # {}
  <2>. DEFINE m == [Rest(r) EXCEPT !.busy = FALSE, !.reader = "relaying", !.took = TRUE]
  <2>1. run' = [run EXCEPT ![r] = m] /\ skewed' \in BOOLEAN /\ Relays(run[r].text)
    BY <1>1, <1>5
  <2>2. m \in Machines /\ Goes(run[r], m)
    BY <1>2, Names DEF Machines, Goes
  <2>3. targets' \in Seq(Asks) /\ told' \in [about : SUBSET Asks, to : Asks]
    BY <1>2, <2>1, Parts, RelaysType
  <2>4. Outside'
    BY <1>3, <2>1, <2>3 DEF IInv, Outside
  <2>. HIDE DEF m
  <2>. QED
    BY <1>3, <2>1, <2>2, <2>4, GoesOn
<1>. QED
  BY <1>4, <1>5

LEMMA RelayEndsStep == IInv /\ RelayEnds => IInv'
<1>. SUFFICES ASSUME IInv, RelayEnds PROVE IInv'
  OBVIOUS
<1>1. PICK r \in Runners :
        /\ run[r].reader = "relaying"
        /\ run' = [run EXCEPT ![r].reader = "reading", ![r].text = {}, ![r].done = TRUE]
  BY DEF RelayEnds
<1>. DEFINE m == [run[r] EXCEPT !.reader = "reading", !.text = {}, !.done = TRUE]
<1>2. run' = [run EXCEPT ![r] = m] /\ run[r] \in Machines
  BY <1>1, Runner
<1>3. m \in Machines /\ Goes(run[r], m)
  BY <1>1, <1>2, Names DEF Machines, Goes
<1>4. Outside' /\ backend' = backend /\ slot' = slot /\ exit' = exit
  BY DEF RelayEnds, IInv, Outside
<1>. HIDE DEF m
<1>. QED
  BY <1>2, <1>3, <1>4, GoesOn

LEMMA ReadErrorStep == IInv /\ ReadError => IInv'
<1>. SUFFICES ASSUME IInv, ReadError PROVE IInv'
  OBVIOUS
<1>1. PICK r \in Runners :
        /\ Reads(r, "error")
        /\ run' = [run EXCEPT ![r] = [Rest(r) EXCEPT !.busy = FALSE, !.done = TRUE, !.took = TRUE]]
        /\ Apologises(run[r].at.to)
        /\ skewed' = (skewed \/ Late(r) \/ Spent(r))
  BY DEF ReadError
<1>. DEFINE m == [Rest(r) EXCEPT !.busy = FALSE, !.done = TRUE, !.took = TRUE]
<1>2. run[r] \in Machines /\ Rest(r) \in Machines /\ Goes(run[r], Rest(r))
  BY <1>1, RestType
<1>3. m \in Machines /\ Goes(run[r], m)
  BY <1>2 DEF Machines, Goes
<1>4. targets' \in Seq(Asks) /\ told' \in [about : SUBSET Asks, to : Asks] /\ skewed' \in BOOLEAN
  BY <1>1, <1>2, Parts, ApologisesType
<1>5. Outside' /\ backend' = backend /\ slot' = slot /\ exit' = exit
  BY <1>4 DEF ReadError, IInv, Outside
<1>6. run' = [run EXCEPT ![r] = m]
  BY <1>1
<1>. HIDE DEF m
<1>. QED
  BY <1>3, <1>5, <1>6, GoesOn

-----------------------------------------------------------------------------
(* The inductive invariant. *)

LEMMA InitIInv == Init => IInv
<1>. SUFFICES ASSUME Init PROVE IInv
  OBVIOUS
<1>1. PICK N \in Nat : Asks = 0..N
  BY AsksFacts DEF Init
<1>2. 0 \in Asks
  BY <1>1
<1>3. NoPrompt \in Prompts
  BY <1>2, PromptType DEF NoPrompt, NoTarget
<1>4. Idle \in Machines
  BY <1>3, Names, Empty DEF Idle, Machines
<1>5. Outside
  BY <1>2, Empty DEF Init, Outside, NoTarget
<1>6. Inside
  <2>1. \A r \in Runners : Course(run[r], exit[r])
    BY DEF Init, Course, Idle
  <2>2. slot \in 0..MaxRunners /\ run \in [Runners -> Machines] /\ exit \in [Runners -> Exits]
    BY <1>4, RelayBoundsAssumption DEF Init, Exits
  <2>. QED
    BY <2>1, <2>2 DEF Init, Inside
<1>7. Latest(0)
  BY RelayBoundsAssumption DEF Init, Idle, Latest, Runners
<1>. QED
  BY <1>5, <1>6, <1>7, RelayBoundsAssumption DEF IInv, OnePending

LEMMA NextIInv == IInv /\ [Next]_vars => IInv'
<1>. SUFFICES ASSUME IInv, [Next]_vars PROVE IInv'
  OBVIOUS
<1>1. CASE Lifecycle
  BY <1>1, StartStep, BootedStep, BootedLateStep, StartFailsStep, AcpStartFailsStep, DieStep,
     CleanupStep, OnExitStep, RestartStep DEF Lifecycle
<1>2. CASE Requests
  BY <1>2, MentionStep, InviteStep, QueryStep, CommandStep, RunTaskStep DEF Requests
<1>3. CASE Work
  BY <1>3, WorkStep
<1>4. CASE PromptLoop
  BY <1>4, TakeStep, TakeInVainStep, TakeWithoutThreadStep, TimeoutStep, RetryStep, GiveUpStep,
     RequestFailedStep, TurnEndsStep, FlushResultStep, FlushResultEndsStep, CopilotAnswersStep,
     CopilotFailsStep, CopilotExitsStep DEF PromptLoop
<1>5. CASE Reader
  BY <1>5, ReadResponseStep, ReadTextStep, ReadEndStep, RelayEndsStep, ReadErrorStep DEF Reader
<1>6. CASE UNCHANGED vars
  <2>1. Outside'
    BY <1>6 DEF vars, IInv, Outside
  <2>. QED
    BY <1>6, <2>1, Same DEF vars
<1>. QED
  BY <1>1, <1>2, <1>3, <1>4, <1>5, <1>6 DEF Next

LEMMA Invariance == Spec => []IInv
BY InitIInv, NextIInv, PTL DEF Spec

-----------------------------------------------------------------------------
(* The targets are in step with the prompts. *)

\* The targets t are those of the entries of q that have one, in their order.
Places(t, q) ==
  \E f \in [1..Len(t) -> 1..Len(q)] :
    /\ \A j, k \in 1..Len(t) : j < k => f[j] < f[k]
    /\ \A k \in 1..Len(t) : q[f[k]].owed /\ t[k] = q[f[k]].to
    /\ \A i \in 1..Len(q) : q[i].owed => \E k \in 1..Len(t) : f[k] = i

NoneOwed(q) == \A i \in 1..Len(q) : ~q[i].owed

LEMMA PlacesNone == ASSUME NEW S, NEW q \in Seq(S), NoneOwed(q) PROVE Places(<<>>, q)
<1>. DEFINE f == [k \in 1..0 |-> 1]
<1>1. f \in [1..Len(<<>>) -> 1..Len(q)] /\ \A k \in 1..Len(<<>>) : FALSE
  OBVIOUS
<1>. HIDE DEF f
<1>. QED
  BY <1>1 DEF Places, NoneOwed

LEMMA PlacesNothing ==
  ASSUME NEW S, NEW q \in Seq(S), Places(<<>>, q) PROVE NoneOwed(q)
BY DEF Places, NoneOwed

LEMMA NothingPlaced ==
  ASSUME NEW S, NEW q \in Seq(S), NEW T, NEW t \in Seq(T), Places(t, q), NoneOwed(q)
  PROVE  t = <<>>
<1>1. PICK f \in [1..Len(t) -> 1..Len(q)] : \A k \in 1..Len(t) : q[f[k]].owed
  BY DEF Places
<1>2. 1 \notin 1..Len(t)
  BY <1>1 DEF NoneOwed
<1>. QED
  BY <1>2

LEMMA PlacesOwed ==
  ASSUME NEW S, NEW q \in Seq(S), NEW T, NEW t \in Seq(T), Places(t, q),
         NEW x \in S, x.owed, x.to \in T
  PROVE  Places(Append(t, x.to), Append(q, x))
<1>1. PICK f \in [1..Len(t) -> 1..Len(q)] :
        /\ \A j, k \in 1..Len(t) : j < k => f[j] < f[k]
        /\ \A k \in 1..Len(t) : q[f[k]].owed /\ t[k] = q[f[k]].to
        /\ \A i \in 1..Len(q) : q[i].owed => \E k \in 1..Len(t) : f[k] = i
  BY DEF Places
<1>. DEFINE u == Append(t, x.to)
            p == Append(q, x)
            g == [k \in 1..Len(u) |-> IF k = Len(u) THEN Len(p) ELSE f[k]]
<1>2. /\ Len(u) = Len(t) + 1 /\ u[Len(u)] = x.to /\ \A k \in 1..Len(t) : u[k] = t[k]
      /\ Len(p) = Len(q) + 1 /\ p[Len(p)] = x /\ \A k \in 1..Len(q) : p[k] = q[k]
      /\ Len(t) \in Nat /\ Len(q) \in Nat
  OBVIOUS
<1>. HIDE DEF u, p
<1>3. g \in [1..Len(u) -> 1..Len(p)]
  BY <1>2
<1>4. ASSUME NEW j \in 1..Len(u), NEW k \in 1..Len(u), j < k PROVE g[j] < g[k]
  <2>4. j \in 1..Len(t) /\ j # Len(u)
    BY <1>2, <1>4
  <2>1. j \in 1..Len(t) /\ g[j] = f[j] /\ f[j] \in 1..Len(q)
    BY <1>4, <2>4
  <2>2. k = Len(u) => g[k] = Len(q) + 1
    BY <1>2
  <2>3. k # Len(u) => k \in 1..Len(t) /\ g[k] = f[k]
    BY <1>2
  <2>. HIDE DEF g
  <2>. QED
    BY <1>1, <1>2, <1>4, <2>1, <2>2, <2>3
<1>5. \A k \in 1..Len(u) : p[g[k]].owed /\ u[k] = p[g[k]].to
  <2>1. ASSUME NEW k \in 1..Len(t) PROVE p[g[k]].owed /\ u[k] = p[g[k]].to
    <3>1. k \in 1..Len(u) /\ g[k] = f[k] /\ f[k] \in 1..Len(q)
      BY <1>2, SMTT(30)
    <3>. HIDE DEF g
    <3>. QED
      BY <1>1, <1>2, <3>1
  <2>2. p[g[Len(u)]].owed /\ u[Len(u)] = p[g[Len(u)]].to
    <3>1. g[Len(u)] = Len(p)
      BY <1>2
    <3>. QED
      BY <1>2, <3>1
  <2>. HIDE DEF g
  <2>. QED
    BY <1>2, <2>1, <2>2
<1>6. \A i \in 1..Len(p) : p[i].owed => \E k \in 1..Len(u) : g[k] = i
  <2>1. ASSUME NEW i \in 1..Len(q), p[i].owed PROVE \E k \in 1..Len(u) : g[k] = i
    <3>1. PICK k \in 1..Len(t) : f[k] = i
      BY <1>1, <1>2, <2>1
    <3>2. k \in 1..Len(u) /\ g[k] = i
      BY <1>2, <3>1
    <3>. QED
      BY <3>2
  <2>2. Len(u) \in 1..Len(u) /\ g[Len(u)] = Len(p)
    BY <1>2
  <2>. HIDE DEF g
  <2>. QED
    BY <1>2, <2>1, <2>2
<1>. HIDE DEF g
<1>. QED
  BY <1>3, <1>4, <1>5, <1>6 DEF Places, u, p

LEMMA PlacesFree ==
  ASSUME NEW S, NEW q \in Seq(S), NEW T, NEW t \in Seq(T), Places(t, q),
         NEW x \in S, ~x.owed
  PROVE  Places(t, Append(q, x))
<1>1. PICK f \in [1..Len(t) -> 1..Len(q)] :
        /\ \A j, k \in 1..Len(t) : j < k => f[j] < f[k]
        /\ \A k \in 1..Len(t) : q[f[k]].owed /\ t[k] = q[f[k]].to
        /\ \A i \in 1..Len(q) : q[i].owed => \E k \in 1..Len(t) : f[k] = i
  BY DEF Places
<1>. DEFINE p == Append(q, x)
<1>2. /\ Len(p) = Len(q) + 1 /\ p[Len(p)] = x /\ \A k \in 1..Len(q) : p[k] = q[k]
      /\ Len(t) \in Nat /\ Len(q) \in Nat
  OBVIOUS
<1>. HIDE DEF p
<1>3. f \in [1..Len(t) -> 1..Len(p)]
  BY <1>2
<1>4. \A k \in 1..Len(t) : p[f[k]].owed /\ t[k] = p[f[k]].to
  BY <1>1, <1>2
<1>5. \A i \in 1..Len(p) : p[i].owed => \E k \in 1..Len(t) : f[k] = i
  BY <1>1, <1>2
<1>. QED
  BY <1>1, <1>3, <1>4, <1>5 DEF Places, p

LEMMA PlacesHead ==
  ASSUME NEW S, NEW q \in Seq(S), NEW T, NEW t \in Seq(T), Places(t, q), q # <<>>, Head(q).owed
  PROVE  t # <<>> /\ Head(t) = Head(q).to /\ Places(Tail(t), Tail(q))
<1>1. PICK f \in [1..Len(t) -> 1..Len(q)] :
        /\ \A j, k \in 1..Len(t) : j < k => f[j] < f[k]
        /\ \A k \in 1..Len(t) : q[f[k]].owed /\ t[k] = q[f[k]].to
        /\ \A i \in 1..Len(q) : q[i].owed => \E k \in 1..Len(t) : f[k] = i
  BY DEF Places
<1>2. Len(t) \in Nat /\ Len(q) \in Nat /\ Len(q) > 0 /\ Head(q) = q[1]
  OBVIOUS
<1>3. 1 \in 1..Len(t) /\ f[1] = 1
  <2>1. PICK k \in 1..Len(t) : f[k] = 1
    BY <1>1, <1>2
  <2>. QED
    BY <1>1, <1>2, <2>1
<1>4. t # <<>> /\ Head(t) = t[1]
  BY <1>3
<1>. DEFINE u == Tail(t)
            p == Tail(q)
            g == [k \in 1..Len(u) |-> f[k + 1] - 1]
<1>5. /\ Len(u) = Len(t) - 1 /\ \A k \in 1..Len(u) : u[k] = t[k + 1]
      /\ Len(p) = Len(q) - 1 /\ \A k \in 1..Len(p) : p[k] = q[k + 1]
  BY <1>2, <1>4
<1>. HIDE DEF u, p
<1>6. \A k \in 1..Len(u) : f[k + 1] \in 2..Len(q)
  <2>1. ASSUME NEW k \in 1..Len(u) PROVE f[k + 1] \in 2..Len(q)
    <3>1. k + 1 \in 1..Len(t) /\ 1 < k + 1
      BY <1>2, <1>5
    <3>2. f[1] < f[k + 1] /\ f[k + 1] \in 1..Len(q)
      BY <1>1, <1>3, <3>1
    <3>. QED BY <1>2, <1>3, <3>2
  <2>. QED BY <2>1
<1>7. g \in [1..Len(u) -> 1..Len(p)]
  BY <1>2, <1>5, <1>6
<1>8. \A j, k \in 1..Len(u) : j < k => g[j] < g[k]
  BY <1>1, <1>2, <1>5, <1>6
<1>9. \A k \in 1..Len(u) : p[g[k]].owed /\ u[k] = p[g[k]].to
  <2>1. \A k \in 1..Len(u) : g[k] \in 1..Len(p) /\ g[k] + 1 = f[k + 1] /\ k + 1 \in 1..Len(t)
    BY <1>2, <1>5, <1>6
  <2>. HIDE DEF g
  <2>2. ASSUME NEW k \in 1..Len(u) PROVE p[g[k]].owed /\ u[k] = p[g[k]].to
    <3>1. g[k] \in 1..Len(p) /\ g[k] + 1 = f[k + 1] /\ k + 1 \in 1..Len(t)
      BY <2>1
    <3>2. p[g[k]] = q[f[k + 1]] /\ u[k] = t[k + 1]
      BY <1>5, <3>1
    <3>. QED
      BY <1>1, <3>1, <3>2
  <2>. QED
    BY <2>2
<1>10. \A i \in 1..Len(p) : p[i].owed => \E k \in 1..Len(u) : g[k] = i
  <2>1. ASSUME NEW i \in 1..Len(p), p[i].owed PROVE \E k \in 1..Len(u) : g[k] = i
    <3>. i + 1 \in 1..Len(q) /\ q[i + 1].owed
      BY <1>2, <1>5, <2>1
    <3>1. PICK k \in 1..Len(t) : f[k] = i + 1
      BY <1>1
    <3>2. k # 1 /\ k - 1 \in 1..Len(u) /\ (k - 1) + 1 = k
      BY <1>2, <1>3, <1>5, <3>1
    <3>3. g[k - 1] = i
      BY <3>1, <3>2
    <3>. QED
      BY <3>2, <3>3
  <2>. QED
    BY <2>1
<1>. HIDE DEF g
<1>11. Places(u, p)
  BY <1>7, <1>8, <1>9, <1>10 DEF Places
<1>. QED
  BY <1>1, <1>2, <1>3, <1>4, <1>11 DEF u, p

LEMMA PlacesSkip ==
  ASSUME NEW S, NEW q \in Seq(S), NEW T, NEW t \in Seq(T), Places(t, q), q # <<>>, ~Head(q).owed
  PROVE  Places(t, Tail(q))
<1>1. PICK f \in [1..Len(t) -> 1..Len(q)] :
        /\ \A j, k \in 1..Len(t) : j < k => f[j] < f[k]
        /\ \A k \in 1..Len(t) : q[f[k]].owed /\ t[k] = q[f[k]].to
        /\ \A i \in 1..Len(q) : q[i].owed => \E k \in 1..Len(t) : f[k] = i
  BY DEF Places
<1>2. Len(t) \in Nat /\ Len(q) \in Nat /\ Len(q) > 0 /\ Head(q) = q[1]
  OBVIOUS
<1>. DEFINE p == Tail(q)
            g == [k \in 1..Len(t) |-> f[k] - 1]
<1>3. Len(p) = Len(q) - 1 /\ \A k \in 1..Len(p) : p[k] = q[k + 1]
  BY <1>2
<1>. HIDE DEF p
<1>4. \A k \in 1..Len(t) : f[k] \in 2..Len(q)
  BY <1>1, <1>2
<1>5. g \in [1..Len(t) -> 1..Len(p)]
  BY <1>2, <1>3, <1>4
<1>6. \A j, k \in 1..Len(t) : j < k => g[j] < g[k]
  BY <1>1, <1>2, <1>4
<1>7. \A k \in 1..Len(t) : p[g[k]].owed /\ t[k] = p[g[k]].to
  <2>1. \A k \in 1..Len(t) : g[k] \in 1..Len(p) /\ g[k] + 1 = f[k]
    BY <1>2, <1>3, <1>4
  <2>. HIDE DEF g
  <2>. QED
    BY <1>1, <1>3, <2>1, SMTT(30)
<1>8. \A i \in 1..Len(p) : p[i].owed => \E k \in 1..Len(t) : g[k] = i
  <2>1. ASSUME NEW i \in 1..Len(p), p[i].owed PROVE \E k \in 1..Len(t) : g[k] = i
    <3>. i + 1 \in 1..Len(q) /\ q[i + 1].owed
      BY <1>2, <1>3, <2>1
    <3>1. PICK k \in 1..Len(t) : f[k] = i + 1
      BY <1>1
    <3>2. g[k] = i
      BY <3>1
    <3>. QED
      BY <3>2
  <2>. QED
    BY <2>1
<1>. HIDE DEF g
<1>. QED
  BY <1>5, <1>6, <1>7, <1>8 DEF Places, p

\* What a task of the daemon will put into the queue, ...
Entry(j)   == [owed |-> j.kind = "put", to |-> j.prompt.to]
Waiting(w) == [i \in 1..Len(w) |-> Entry(w[i])]
Entries    == [owed : BOOLEAN, to : Asks]

\* ... and what the targets are: those of the turn under way, of the prompts in the queue
\* and of the prompts that tasks will put there.
Due(T, A, q, w) ==
  \E B, C \in Seq(Asks) : T = A \o (B \o C) /\ Places(B, q) /\ Places(C, Waiting(w))

LEMMA EntryType == ASSUME NEW j \in Jobs PROVE Entry(j) \in Entries /\ Entry(j).to = j.prompt.to
BY DEF Entry, Entries, Jobs, Prompts

LEMMA WaitingType == ASSUME NEW w \in Seq(Jobs) PROVE Waiting(w) \in Seq(Entries)
<1>1. \A i \in 1..Len(w) : Entry(w[i]) \in Entries
  BY EntryType
<1>. QED
  BY <1>1 DEF Waiting

LEMMA WaitingMore ==
  ASSUME NEW w \in Seq(Jobs), NEW j \in Jobs
  PROVE  Waiting(Append(w, j)) = Append(Waiting(w), Entry(j))
<1>1. Waiting(w) \in Seq(Entries) /\ Waiting(Append(w, j)) \in Seq(Entries) /\ Entry(j) \in Entries
  BY WaitingType, EntryType, AppendProperties
<1>. DEFINE s == Waiting(Append(w, j))
            t == Append(Waiting(w), Entry(j))
<1>2. Len(s) = Len(w) + 1 /\ Len(t) = Len(w) + 1 /\ t \in Seq(Entries) /\ s \in Seq(Entries)
  BY <1>1, AppendProperties DEF Waiting
<1>3. ASSUME NEW i \in 1..Len(s) PROVE s[i] = t[i]
  <2>1. s[i] = Entry(Append(w, j)[i])
    BY <1>2 DEF Waiting
  <2>2. CASE i = Len(w) + 1
    BY <1>1, <2>1, <2>2 DEF Waiting
  <2>3. CASE i # Len(w) + 1
    <3>1. i \in 1..Len(w)
      BY <1>2, <2>3
    <3>. QED
      BY <1>1, <2>1, <3>1 DEF Waiting
  <2>. QED
    BY <2>2, <2>3
<1>. HIDE DEF s, t
<1>4. s = t
  BY <1>2, <1>3, SeqEqual
<1>. QED
  BY <1>4 DEF s, t

LEMMA WaitingLess ==
  ASSUME NEW w \in Seq(Jobs), w # <<>>
  PROVE  /\ Waiting(w) # <<>> /\ Head(Waiting(w)) = Entry(Head(w))
         /\ Waiting(Tail(w)) = Tail(Waiting(w))
<1>. DEFINE v == Waiting(w)
            s == Waiting(Tail(w))
            t == Tail(v)
<1>1. v \in Seq(Entries) /\ s \in Seq(Entries) /\ Len(v) = Len(w) /\ Len(s) = Len(w) - 1
      /\ \A i \in 1..Len(w) : v[i] = Entry(w[i])
  BY WaitingType, HeadTailProperties DEF Waiting
<1>2. \A i \in 1..(Len(w) - 1) : s[i] = Entry(w[i + 1])
  BY DEF Waiting
<1>. HIDE DEF v, s
<1>3. v # <<>> /\ Head(v) = Entry(Head(w)) /\ t \in Seq(Entries) /\ Len(t) = Len(w) - 1
      /\ \A i \in 1..(Len(w) - 1) : t[i] = v[i + 1]
  BY <1>1
<1>. HIDE DEF t
<1>4. \A i \in 1..Len(s) : s[i] = t[i]
  BY <1>1, <1>2, <1>3
<1>5. s = t
  BY <1>1, <1>3, <1>4, SeqEqual
<1>. QED
  BY <1>3, <1>5 DEF v, s, t

LEMMA WaitingNone == ASSUME NEW w \in Seq(Jobs) PROVE ~Overtakes(w) <=> NoneOwed(Waiting(w))
<1>. DEFINE v == Waiting(w)
<1>1. Len(v) = Len(w) /\ \A i \in 1..Len(w) : v[i].owed = (w[i].kind = "put")
  BY DEF Waiting, Entry
<1>. HIDE DEF v
<1>2. NoneOwed(v) <=> \A i \in 1..Len(w) : w[i].kind # "put"
  BY <1>1 DEF NoneOwed
<1>. QED
  BY <1>2 DEF Overtakes, v

\* Sequences.
LEMMA AppendLast ==
  ASSUME NEW A \in Seq(Asks), NEW C \in Seq(Asks), NEW x \in Asks
  PROVE  Append(A \o C, x) = A \o Append(C, x)
<1>1. A \o C \in Seq(Asks) /\ Append(C, x) \in Seq(Asks) /\ A \o Append(C, x) \in Seq(Asks)
      /\ Append(A \o C, x) \in Seq(Asks)
  BY ConcatProperties, AppendProperties
<1>2. Len(Append(A \o C, x)) = Len(A) + Len(C) + 1 /\ Len(A \o Append(C, x)) = Len(A) + Len(C) + 1
  BY <1>1, ConcatProperties, AppendProperties
<1>3. ASSUME NEW i \in 1..(Len(A) + Len(C) + 1) PROVE Append(A \o C, x)[i] = (A \o Append(C, x))[i]
  OBVIOUS
<1>. QED
  BY <1>1, <1>2, <1>3, SeqEqual

LEMMA Moves ==
  ASSUME NEW B \in Seq(Asks), NEW C \in Seq(Asks), C # <<>>
  PROVE  B \o C = Append(B, Head(C)) \o Tail(C)
<1>1. Head(C) \in Asks /\ Tail(C) \in Seq(Asks) /\ Len(Tail(C)) = Len(C) - 1
  BY HeadTailProperties
<1>2. Append(B, Head(C)) \in Seq(Asks)
  BY <1>1, AppendProperties
<1>3. B \o C \in Seq(Asks) /\ Append(B, Head(C)) \o Tail(C) \in Seq(Asks)
      /\ Len(B \o C) = Len(B) + Len(C) /\ Len(Append(B, Head(C)) \o Tail(C)) = Len(B) + Len(C)
  BY <1>1, <1>2, ConcatProperties, AppendProperties
<1>4. ASSUME NEW i \in 1..(Len(B) + Len(C)) PROVE (B \o C)[i] = (Append(B, Head(C)) \o Tail(C))[i]
  BY <1>1
<1>. QED
  BY <1>3, <1>4, SeqEqual

LEMMA Leads ==
  ASSUME NEW a \in Asks, NEW D \in Seq(Asks), NEW A, A = <<a>>
  PROVE  A \o D # <<>> /\ Head(A \o D) = a /\ Tail(A \o D) = D
<1>1. A \in Seq(Asks) /\ Len(A) = 1 /\ A[1] = a
  OBVIOUS
<1>2. /\ A \o D \in Seq(Asks) /\ Len(A \o D) = Len(D) + 1
      /\ (A \o D)[1] = a /\ \A i \in 1..Len(D) : (A \o D)[i + 1] = D[i]
  BY <1>1
<1>. DEFINE T == A \o D
<1>. HIDE DEF T
<1>3. T \in Seq(Asks) /\ Len(T) = Len(D) + 1 /\ T[1] = a /\ \A i \in 1..Len(D) : T[i + 1] = D[i]
  BY <1>2 DEF T
<1>4. T # <<>> /\ Head(T) = a /\ Tail(T) \in Seq(Asks) /\ Len(Tail(T)) = Len(D)
      /\ \A i \in 1..Len(D) : Tail(T)[i] = D[i]
  BY <1>3
<1>5. Tail(T) = D
  BY <1>4, SeqEqual
<1>. QED
  BY <1>4, <1>5 DEF T

LEMMA Joined ==
  ASSUME NEW A \in Seq(Asks), NEW D \in Seq(Asks)
  PROVE  /\ A \o D \in Seq(Asks) /\ Len(A \o D) = Len(A) + Len(D)
         /\ \A i \in 1..(Len(A) + Len(D)) : (A \o D)[i] = IF i <= Len(A) THEN A[i] ELSE D[i - Len(A)]
BY ConcatProperties

LEMMA Parted ==
  ASSUME NEW B \in Seq(Asks), B # <<>>, NEW A \in Seq(Asks), Len(A) = 1, A[1] = Head(B)
  PROVE  B = A \o Tail(B)
<1>. DEFINE D == Tail(B)
<1>1. D \in Seq(Asks) /\ Len(D) = Len(B) - 1 /\ Head(B) = B[1]
      /\ \A i \in 1..(Len(B) - 1) : D[i] = B[i + 1]
  BY HeadTailProperties
<1>. HIDE DEF D
<1>2. A \o D \in Seq(Asks) /\ Len(A \o D) = Len(B)
      /\ \A i \in 1..Len(B) : (A \o D)[i] = IF i <= 1 THEN A[i] ELSE D[i - 1]
  <2>1. Len(A) + Len(D) = Len(B)
    BY <1>1, LenProperties
  <2>2. /\ A \o D \in Seq(Asks) /\ Len(A \o D) = Len(A) + Len(D)
        /\ \A i \in 1..(Len(A) + Len(D)) : (A \o D)[i] = IF i <= Len(A) THEN A[i] ELSE D[i - Len(A)]
    BY <1>1, Joined
  <2>. QED
    BY <2>1, <2>2
<1>3. \A i \in 1..Len(B) : (A \o D)[i] = B[i]
  BY <1>1, <1>2
<1>4. A \o D = B
  BY <1>2, <1>3, SeqEqual
<1>. QED
  BY <1>4 DEF D

LEMMA Splits ==
  ASSUME NEW B \in Seq(Asks), B # <<>>, NEW A, A = <<Head(B)>>
  PROVE  B = A \o Tail(B)
<1>1. PICK a \in Asks : a = Head(B)
  BY HeadTailProperties
<1>2. A \in Seq(Asks) /\ Len(A) = 1 /\ A[1] = Head(B)
  BY <1>1
<1>. QED
  BY <1>2, Parted

-----------------------------------------------------------------------------
(* How the targets follow the prompts. *)

\* Nobody is owed anything.
LEMMA DueNothing ==
  ASSUME NEW q \in Seq(Prompts), NEW w \in Seq(Jobs), NoneOwed(q), ~Overtakes(w)
  PROVE  Due(<<>>, <<>>, q, w)
<1>1. Places(<<>>, q) /\ Places(<<>>, Waiting(w))
  BY PlacesNone, WaitingNone, WaitingType
<1>2. <<>> \in Seq(Asks) /\ <<>> = <<>> \o (<<>> \o <<>>)
  BY ConcatEmptySeq
<1>. QED
  BY <1>1, <1>2 DEF Due

LEMMA NothingDue ==
  ASSUME NEW A \in Seq(Asks), NEW q \in Seq(Prompts), NEW w \in Seq(Jobs), Due(<<>>, A, q, w)
  PROVE  A = <<>> /\ NoneOwed(q) /\ ~Overtakes(w)
<1>1. PICK B, C \in Seq(Asks) : <<>> = A \o (B \o C) /\ Places(B, q) /\ Places(C, Waiting(w))
  BY DEF Due
<1>. DEFINE X == B \o C
<1>3. X \in Seq(Asks) /\ A \o X = <<>>
  BY <1>1, ConcatProperties
<1>4. X = <<>> => B = <<>> /\ C = <<>>
  BY ConcatEqualIffEmpty
<1>. HIDE DEF X
<1>5. A = <<>> /\ X = <<>>
  BY <1>3, ConcatEqualIffEmpty
<1>2. A = <<>> /\ B = <<>> /\ C = <<>>
  BY <1>4, <1>5
<1>. QED
  BY <1>1, <1>2, PlacesNothing, WaitingNone, WaitingType

LEMMA AllDone ==
  ASSUME NEW T, NEW q \in Seq(Prompts), NEW w \in Seq(Jobs),
         Due(T, <<>>, q, w), NoneOwed(q), ~Overtakes(w)
  PROVE  T = <<>>
<1>1. PICK B, C \in Seq(Asks) : T = <<>> \o (B \o C) /\ Places(B, q) /\ Places(C, Waiting(w))
  BY DEF Due
<1>2. B = <<>> /\ C = <<>>
  BY <1>1, NothingPlaced, WaitingNone, WaitingType
<1>. QED
  BY <1>1, <1>2, ConcatEmptySeq, EmptySeq

\* A target and its task.
LEMMA DueTask ==
  ASSUME NEW T \in Seq(Asks), NEW A \in Seq(Asks), NEW q \in Seq(Prompts), NEW w \in Seq(Jobs),
         NEW j \in Jobs, Due(T, A, q, w), j.kind = "put"
  PROVE  Due(Append(T, j.prompt.to), A, q, Append(w, j))
<1>1. PICK B, C \in Seq(Asks) : T = A \o (B \o C) /\ Places(B, q) /\ Places(C, Waiting(w))
  BY DEF Due
<1>2. Entry(j) \in Entries /\ Entry(j).owed /\ Entry(j).to = j.prompt.to /\ j.prompt.to \in Asks
  BY EntryType DEF Entry, Entries
<1>3. Places(Append(C, j.prompt.to), Waiting(Append(w, j)))
  BY <1>1, <1>2, PlacesOwed, WaitingMore, WaitingType, ZenonT(60)
<1>4. Append(T, j.prompt.to) = A \o (B \o Append(C, j.prompt.to)) /\ Append(C, j.prompt.to) \in Seq(Asks)
  <2>. DEFINE X == B \o C
  <2>1. X \in Seq(Asks) /\ T = A \o X
    BY <1>1, ConcatProperties
  <2>2. PICK n \in Asks : n = j.prompt.to
    BY <1>2
  <2>5. Append(X, n) = B \o Append(C, n)
    BY AppendLast
  <2>6. Append(C, n) \in Seq(Asks)
    BY AppendProperties
  <2>. HIDE DEF X
  <2>4. Append(T, n) = A \o Append(X, n)
    BY <2>1, AppendLast
  <2>. QED
    BY <2>2, <2>4, <2>5, <2>6
<1>. QED
  BY <1>1, <1>3, <1>4 DEF Due

\* A task without a target.
LEMMA DueInvitation ==
  ASSUME NEW T, NEW A, NEW q, NEW w \in Seq(Jobs),
         NEW j \in Jobs, Due(T, A, q, w), j.kind # "put"
  PROVE  Due(T, A, q, Append(w, j))
<1>1. PICK B, C \in Seq(Asks) : T = A \o (B \o C) /\ Places(B, q) /\ Places(C, Waiting(w))
  BY DEF Due
<1>2. Entry(j) \in Entries /\ ~Entry(j).owed
  BY EntryType DEF Entry
<1>3. Places(C, Waiting(Append(w, j)))
  <2>1. Waiting(w) \in Seq(Entries)
    BY WaitingType
  <2>2. Places(C, Append(Waiting(w), Entry(j)))
    BY <1>1, <1>2, <2>1, PlacesFree
  <2>. QED
    BY <2>2, WaitingMore
<1>. QED
  BY <1>1, <1>3 DEF Due

\* A prompt without a target.
LEMMA DueCommand ==
  ASSUME NEW T, NEW A, NEW q \in Seq(Prompts), NEW w, NEW p \in Prompts, Due(T, A, q, w), ~p.owed
  PROVE  Due(T, A, Append(q, p), w)
<1>1. PICK B, C \in Seq(Asks) : T = A \o (B \o C) /\ Places(B, q) /\ Places(C, Waiting(w))
  BY DEF Due
<1>2. Places(B, Append(q, p))
  BY <1>1, PlacesFree
<1>. QED
  BY <1>1, <1>2 DEF Due

\* A target and its prompt, which overtakes nothing.
LEMMA DuePrompt ==
  ASSUME NEW T \in Seq(Asks), NEW A \in Seq(Asks), NEW q \in Seq(Prompts), NEW w \in Seq(Jobs),
         NEW p \in Prompts, Due(T, A, q, w), p.owed, ~Overtakes(w)
  PROVE  Due(Append(T, p.to), A, Append(q, p), w)
<1>1. PICK B, C \in Seq(Asks) : T = A \o (B \o C) /\ Places(B, q) /\ Places(C, Waiting(w))
  BY DEF Due
<1>2. C = <<>> /\ p.to \in Asks
  BY <1>1, NothingPlaced, WaitingNone, WaitingType DEF Prompts
<1>3. Places(Append(B, p.to), Append(q, p)) /\ Append(B, p.to) \in Seq(Asks)
  BY <1>1, <1>2, PlacesOwed, AppendProperties
<1>4. T = A \o B /\ Append(T, p.to) = A \o (Append(B, p.to) \o C)
  <2>1. PICK n \in Asks : n = p.to
    BY <1>2
  <2>2. B \o C = B /\ Append(B, n) \o C = Append(B, n)
    BY <1>2, ConcatEmptySeq, AppendProperties
  <2>3. Append(A \o B, n) = A \o Append(B, n)
    BY AppendLast
  <2>. QED
    BY <1>1, <2>1, <2>2, <2>3
<1>. QED
  BY <1>1, <1>3, <1>4 DEF Due

\* A task has put its prompt.
LEMMA DuePut ==
  ASSUME NEW T, NEW A \in Seq(Asks), NEW q \in Seq(Prompts), NEW w \in Seq(Jobs), w # <<>>,
         Due(T, A, q, w), Head(w).kind = "put", Head(w).prompt.owed
  PROVE  Due(T, A, Append(q, Head(w).prompt), Tail(w))
<1>1. PICK B, C \in Seq(Asks) : T = A \o (B \o C) /\ Places(B, q) /\ Places(C, Waiting(w))
  BY DEF Due
<1>2. PICK j \in Jobs : j = Head(w)
  BY HeadTailProperties
<1>3. Entry(j).owed /\ Entry(j).to = j.prompt.to /\ j.prompt.to \in Asks /\ j.prompt \in Prompts
  BY <1>2, EntryType DEF Entry, Entries, Jobs
<1>4. C # <<>> /\ Head(C) = j.prompt.to /\ Places(Tail(C), Waiting(Tail(w)))
  <2>. DEFINE v == Waiting(w)
  <2>1. v \in Seq(Entries) /\ v # <<>> /\ Head(v) = Entry(j) /\ Waiting(Tail(w)) = Tail(v)
    BY <1>2, WaitingLess, WaitingType
  <2>2. Places(C, v)
    BY <1>1
  <2>. HIDE DEF v
  <2>3. C # <<>> /\ Head(C) = Head(v).to /\ Places(Tail(C), Tail(v))
    BY <1>3, <2>1, <2>2, PlacesHead
  <2>. QED
    BY <1>3, <2>1, <2>3
<1>5. Places(Append(B, j.prompt.to), Append(q, j.prompt))
  BY <1>1, <1>2, <1>3, PlacesOwed
<1>6. B \o C = Append(B, j.prompt.to) \o Tail(C)
      /\ Append(B, j.prompt.to) \in Seq(Asks) /\ Tail(C) \in Seq(Asks)
  BY <1>3, <1>4, Moves, HeadTailProperties, AppendProperties
<1>. QED
  BY <1>1, <1>2, <1>4, <1>5, <1>6 DEF Due

\* An invitation is gone.
LEMMA DueDropped ==
  ASSUME NEW T, NEW A, NEW q, NEW w \in Seq(Jobs), w # <<>>, Due(T, A, q, w), Head(w).kind # "put"
  PROVE  Due(T, A, q, Tail(w))
<1>1. PICK B, C \in Seq(Asks) : T = A \o (B \o C) /\ Places(B, q) /\ Places(C, Waiting(w))
  BY DEF Due
<1>2. ~Entry(Head(w)).owed
  BY DEF Entry
<1>3. Places(C, Waiting(Tail(w)))
  BY <1>1, <1>2, WaitingLess, WaitingType, PlacesSkip
<1>. QED
  BY <1>1, <1>3 DEF Due

\* A prompt is taken: its target comes first.
LEMMA DueTaken ==
  ASSUME NEW T, NEW q \in Seq(Prompts), q # <<>>, NEW w, Due(T, <<>>, q, w)
  PROVE  /\ Head(q).owed  => \A A : A = <<Head(q).to>> => Due(T, A, Tail(q), w)
         /\ ~Head(q).owed => Due(T, <<>>, Tail(q), w)
<1>1. PICK B, C \in Seq(Asks) : T = <<>> \o (B \o C) /\ Places(B, q) /\ Places(C, Waiting(w))
  BY DEF Due
<1>2. ASSUME Head(q).owed, NEW A, A = <<Head(q).to>> PROVE Due(T, A, Tail(q), w)
  <2>1. B # <<>> /\ Head(B) = Head(q).to /\ Places(Tail(B), Tail(q))
    BY <1>1, <1>2, PlacesHead
  <2>2. Head(B) \in Asks /\ Tail(B) \in Seq(Asks)
    BY <2>1, HeadTailProperties
  <2>3. A \in Seq(Asks) /\ B = A \o Tail(B)
    BY <1>2, <2>1, <2>2, Splits
  <2>4. T = A \o (Tail(B) \o C)
    <3>1. <<>> \o (B \o C) = B \o C
      BY ConcatEmptySeq, ConcatProperties
    <3>2. (A \o Tail(B)) \o C = A \o (Tail(B) \o C)
      BY <2>2, <2>3, ConcatAssociative
    <3>3. T = B \o C
      BY <1>1, <3>1
    <3>. QED
      BY <2>3, <3>2, <3>3
  <2>. QED
    BY <1>1, <2>1, <2>2, <2>4 DEF Due
<1>3. ~Head(q).owed => Places(B, Tail(q))
  BY <1>1, PlacesSkip
<1>. QED
  BY <1>1, <1>2, <1>3 DEF Due

\* The target of the turn under way is served.
LEMMA DueServed ==
  ASSUME NEW T \in Seq(Asks), NEW a \in Asks, NEW A, A = <<a>>, NEW q, NEW w, Due(T, A, q, w)
  PROVE  T # <<>> /\ Head(T) = a /\ Due(Tail(T), <<>>, q, w)
<1>1. PICK B, C \in Seq(Asks) : T = A \o (B \o C) /\ Places(B, q) /\ Places(C, Waiting(w))
  BY DEF Due
<1>2. B \o C \in Seq(Asks)
  BY ConcatProperties
<1>3. T # <<>> /\ Head(T) = a /\ Tail(T) = B \o C
  BY <1>1, <1>2, Leads
<1>4. Tail(T) = <<>> \o (B \o C)
  BY <1>2, <1>3, ConcatEmptySeq
<1>. QED
  BY <1>1, <1>3, <1>4 DEF Due

-----------------------------------------------------------------------------
(* What is so as long as nothing has put targets and prompts out of step. *)

\* The turn under way has not taken its target yet.
Owes(m) == /\ m.at.owed /\ ~m.took
           /\ m.turn \notin {"idle", "gone"}
           /\ ~(backend = "copilot" /\ m.turn = "failing")

\* The target that comes before those of the queue: acp has one for its system prompt
\* before the prompt is in the queue.
First(m) == IF Owes(m) THEN <<m.at.to>>
            ELSE IF backend = "acp" /\ m.boot = "starting" THEN <<NoTarget>> ELSE <<>>

\* All that a program has written and nobody has read is about one prompt, and so is what
\* codex has gathered of it until the next script begins.
Script(pipe, text) ==
  /\ \A i, j \in 1..Len(pipe) : pipe[i].prompt = pipe[j].prompt
  /\ backend = "codex" => \A i \in 1..Len(pipe) :
       pipe[i].kind \in {"delta", "completed", "stop"} =>
         \/ \E j \in 1..(i - 1) : pipe[j].kind = "started"
         \/ text \subseteq {pipe[i].prompt.to}
  /\ backend = "acp" => \A i \in 1..Len(pipe) : pipe[i].kind # "error"

\* What acp has gathered is of the turn under way.
Gathered(m) == backend = "acp" /\ m.text # {} =>
                 m.reader = "relaying" \/ (m.busy /\ m.turn # "idle" /\ m.text \subseteq {m.at.to})

Sound(r, m) ==
  /\ m.reader = "ended" => ~m.running
  /\ m.running => r = slot
  /\ ~m.running => NoneOwed(m.queue)
  /\ Owes(m) => r = slot /\ (m.running \/ m.turn = "failing")
  /\ m.boot = "starting" => m.turn \in {"idle", "gone"}
  /\ m.turn \in {"gone", "failing"} => backend = "copilot" \/ m.reader = "ended"
  /\ backend = "codex" /\ m.pending => m.turn = "asked"
  /\ m.turn = "relaying" \/ (m.reader = "relaying" /\ m.turn = "responded") => m.took
  /\ Script(m.pipe, m.text) /\ Gathered(m)

\* Tasks put prompts into the queue of the runner that serves, and invitations come without
\* a target.
Serves(j)  == IF j.kind = "put"
              THEN j.runner = slot /\ j.prompt.owed /\ slot # 0 /\ run[slot].running
              ELSE j.prompt.owed /\ j.prompt.to = NoTarget
Putting(w) == \A i \in 1..Len(w) : Serves(w[i])

InLine ==
  /\ told.about \subseteq {told.to}
  /\ slot = 0 => targets = <<>>
  /\ slot # 0 => Due(targets, First(run[slot]), run[slot].queue, tasks)
  /\ Putting(tasks)
  /\ \A r \in Runners : Sound(r, run[r])

Stepped == ~skewed => InLine

LEMMA InStepIsSo == IInv /\ Stepped => InStep
<1>. SUFFICES ASSUME IInv, InLine PROVE told.about \subseteq {told.to} /\ (Settled => targets = <<>>)
  BY DEF Stepped, InStep
<1>1. ASSUME Settled, slot # 0 PROVE targets = <<>>
  <2>1. slot \in Runners /\ run[slot] \in Machines /\ Sound(slot, run[slot])
    BY <1>1, RelayBoundsAssumption DEF IInv, Inside, InLine, Runners
  <2>2. NoneOwed(run[slot].queue)
    BY <1>1, <2>1 DEF Settled, Sound, NoneOwed
  <2>3. ~Overtakes(tasks)
    BY <1>1 DEF Settled, Overtakes
  <2>4. First(run[slot]) = <<>>
    BY <1>1, <2>1 DEF Settled, First, Owes
  <2>5. Due(targets, <<>>, run[slot].queue, tasks)
    BY <1>1, <2>4 DEF InLine
  <2>6. run[slot].queue \in Seq(Prompts) /\ tasks \in Seq(Jobs)
    BY <2>1, Parts DEF IInv, Outside
  <2>. QED
    BY <2>2, <2>3, <2>5, <2>6, AllDone
<1>. QED
  BY <1>1 DEF InLine

\* Where the daemon has a runner, the runner exists.
LEMMA SlotIs == IInv /\ slot # 0 => slot \in Runners /\ run[slot] \in Machines /\ run[slot].queue \in Seq(Prompts)
<1>. SUFFICES ASSUME IInv, slot # 0 PROVE slot \in Runners /\ run[slot] \in Machines /\ run[slot].queue \in Seq(Prompts)
  OBVIOUS
<1>1. slot \in Runners /\ run[slot] \in Machines
  BY RelayBoundsAssumption DEF IInv, Inside, Runners
<1>. QED
  BY <1>1, Parts

LEMMA FirstType == ASSUME IInv, NEW m \in Machines PROVE First(m) \in Seq(Asks)
<1>1. NoTarget \in Asks /\ m.at.to \in Asks
  BY ZeroAsk, Parts DEF NoTarget
<1>. QED
  BY <1>1, Empty DEF First

\* What else a runner is does not matter.
LEMMA Alike ==
  ASSUME NEW r, NEW k, NEW m, Sound(r, k), m.queue = k.queue \/ k.running,
         m.reader = k.reader, m.running = k.running, m.turn = k.turn, m.at = k.at,
         m.took = k.took, m.boot = k.boot, m.pending = k.pending,
         m.pipe = k.pipe \/ Script(m.pipe, m.text),
         m.text = k.text, m.busy = k.busy
  PROVE  Sound(r, m) /\ First(m) = First(k)
<1>1. (Owes(m) <=> Owes(k)) /\ First(m) = First(k) /\ (Gathered(m) <=> Gathered(k))
  BY DEF First, Owes, Gathered
<1>2. Script(m.pipe, m.text)
  BY DEF Sound
<1>. QED
  BY <1>1, <1>2 DEF Sound

\* Nobody is in the way.
LEMMA Unmoved ==
  ASSUME InLine, UNCHANGED <<backend, slot, run, tasks, targets, told>>
  PROVE  InLine'
<1>1. First(run[slot])' = First(run[slot])
  BY DEF First, Owes
<1>2. \A r \in Runners : Sound(r, run[r])' <=> Sound(r, run[r])
  BY DEF Sound, Owes, Script, Gathered
<1>. QED
  BY <1>1, <1>2 DEF InLine, Putting, Serves

\* Runner r becomes m.
LEMMA Works ==
  ASSUME IInv, InLine, NEW r \in Runners, NEW m \in Machines, run' = [run EXCEPT ![r] = m],
         UNCHANGED <<backend, slot, tasks>>, m.running = run[r].running \/ ~Overtakes(tasks),
         Sound(r, m),
         told'.about \subseteq {told'.to},
         r = slot => Due(targets', First(m), m.queue, tasks),
         r # slot => targets' = targets
  PROVE  InLine'
<1>1. run'[r] = m /\ \A s \in Runners : s # r => run'[s] = run[s]
  BY DEF IInv, Inside
<1>2. ASSUME NEW s \in Runners PROVE Sound(s, run[s])'
  <2>1. CASE s = r
    BY <1>1, <2>1 DEF Sound, Owes, Script, Gathered
  <2>2. CASE s # r
    <3>1. Sound(s, run[s]) /\ run'[s] = run[s]
      BY <1>1, <2>2 DEF InLine
    <3>. QED
      BY <3>1 DEF Sound, Owes, Script, Gathered
  <2>. QED
    BY <2>1, <2>2
<1>3. slot # 0 => slot \in Runners
  BY SlotIs
<1>4. slot # 0 => Due(targets, First(run[slot]), run[slot].queue, tasks)'
  <2>1. CASE slot = r
    <3>1. First(run[slot])' = First(m)
      BY <1>1, <2>1 DEF First, Owes
    <3>. QED
      BY <1>1, <2>1, <3>1
  <2>2. CASE slot # r /\ slot # 0
    <3>1. run'[slot] = run[slot] /\ Due(targets, First(run[slot]), run[slot].queue, tasks)
      BY <1>1, <1>3, <2>2 DEF InLine
    <3>2. First(run[slot])' = First(run[slot])
      BY <3>1 DEF First, Owes
    <3>. QED
      BY <2>2, <3>1, <3>2
  <2>. QED
    BY <2>1, <2>2
<1>5. Putting(tasks)'
  <2>1. CASE slot # 0 => run'[slot].running = run[slot].running
    BY <2>1 DEF InLine, Putting, Serves
  <2>2. CASE ~Overtakes(tasks)
    <3>1. \A i \in 1..Len(tasks) : tasks[i].kind # "put"
      BY <2>2 DEF Overtakes, IInv, Outside
    <3>. QED
      BY <3>1 DEF InLine, Putting, Serves
  <2>. QED
    BY <1>1, <1>3, <2>1, <2>2
<1>6. slot = 0 => targets' = <<>>
  BY RelayBoundsAssumption DEF InLine, Runners
<1>. QED
  BY <1>2, <1>4, <1>5, <1>6 DEF InLine

-----------------------------------------------------------------------------
(* Prompts stay in line. *)

\* The queue of the daemon's runner becomes q, and the tasks w.
LEMMA Feeds ==
  ASSUME IInv, InLine, UNCHANGED <<backend, slot, told>>,
         NEW q \in Seq(Prompts), NEW w \in Seq(Jobs), tasks' = w, Putting(w),
         slot # 0 => /\ run' = [run EXCEPT ![slot] = [@ EXCEPT !.queue = q]]
                     /\ q = run[slot].queue \/ run[slot].running
                     /\ Due(targets', First(run[slot]), q, w),
         slot = 0 => UNCHANGED <<run, targets>>
  PROVE  InLine'
<1>1. CASE slot = 0
  <2>1. \A r \in Runners : Sound(r, run[r])'
    BY <1>1 DEF InLine, Sound, Owes, Script, Gathered
  <2>. QED
    BY <1>1, <2>1 DEF InLine, Putting, Serves
<1>2. CASE slot # 0
  <2>. DEFINE m == [run[slot] EXCEPT !.queue = q]
  <2>1. slot \in Runners /\ run[slot] \in Machines
    BY <1>2, SlotIs
  <2>2. run'[slot] = m /\ \A r \in Runners : r # slot => run'[r] = run[r]
    BY <1>2, <2>1 DEF IInv, Inside
  <2>3. /\ m.queue = q /\ m.reader = run[slot].reader /\ m.running = run[slot].running
        /\ m.turn = run[slot].turn /\ m.at = run[slot].at /\ m.took = run[slot].took
        /\ m.boot = run[slot].boot /\ m.pending = run[slot].pending /\ m.pipe = run[slot].pipe
        /\ m.text = run[slot].text /\ m.busy = run[slot].busy
    BY <2>1 DEF Machines
  <2>. HIDE DEF m
  <2>a. Sound(slot, m) /\ First(m) = First(run[slot])
    <3>1. Sound(slot, run[slot]) /\ (m.queue = run[slot].queue \/ run[slot].running)
      BY <1>2, <2>1, <2>3 DEF InLine
    <3>. QED
      BY <2>3, <3>1, Alike
  <2>4. First(run[slot])' = First(run[slot])
    BY <2>2, <2>a DEF First, Owes
  <2>5. ASSUME NEW r \in Runners PROVE Sound(r, run[r])'
    <3>1. Sound(r, run[r])
      BY DEF InLine
    <3>2. CASE r = slot
      BY <2>2, <2>a, <3>2 DEF Sound, Owes, Script, Gathered
    <3>3. CASE r # slot
      <4>1. run'[r] = run[r]
        BY <2>2, <3>3
      <4>. QED
        BY <3>1, <4>1 DEF Sound, Owes, Script, Gathered
    <3>. QED
      BY <3>2, <3>3
  <2>6. Putting(w)'
    BY <1>2, <2>2, <2>3 DEF Putting, Serves
  <2>. QED
    BY <1>2, <2>2, <2>3, <2>4, <2>5, <2>6 DEF InLine
<1>. QED
  BY <1>1, <1>2

\* A prompt is put.
LEMMA PutIs ==
  ASSUME IInv, NEW r \in Runners, NEW p \in Prompts, Put(r, p)
  PROVE  run' = [run EXCEPT ![r] = [@ EXCEPT !.queue = Append(run[r].queue, p)]]
<1>1. run[r] \in Machines
  BY DEF IInv, Inside
<1>2. [run[r] EXCEPT !.queue = Append(@, p)] = [run[r] EXCEPT !.queue = Append(run[r].queue, p)]
  OBVIOUS
<1>3. run' = [run EXCEPT ![r] = [run[r] EXCEPT !.queue = Append(run[r].queue, p)]]
  BY DEF Put, IInv, Inside
<1>. QED
  BY <1>3

LEMMA PuttingMore ==
  ASSUME NEW w \in Seq(Jobs), NEW j \in Jobs, Putting(w), Serves(j)
  PROVE  Putting(Append(w, j))
BY DEF Putting

LEMMA PuttingLess ==
  ASSUME NEW w \in Seq(Jobs), w # <<>>, Putting(w)
  PROVE  Putting(Tail(w)) /\ Serves(Head(w))
<1>1. /\ Head(w) = w[1] /\ 1 \in 1..Len(w) /\ Len(Tail(w)) = Len(w) - 1
      /\ \A i \in 1..Len(Tail(w)) : Tail(w)[i] = w[i + 1] /\ i + 1 \in 1..Len(w)
  OBVIOUS
<1>. QED
  BY <1>1 DEF Putting

LEMMA MentionInLine == IInv /\ InLine /\ Mention => InLine'
<1>. SUFFICES ASSUME IInv, InLine, Mention PROVE InLine'
  OBVIOUS
<1>1. PICK n \in Asks : n = asked + 1
  BY NextAsk DEF Mention, Asking
<1>. DEFINE j == [kind |-> "put", runner |-> slot, prompt |-> Prompt(n, n, TRUE)]
<1>2. targets' = Append(targets, n) /\ tasks' = Append(tasks, j)
  BY <1>1 DEF Mention, Asking
<1>3. Prompt(n, n, TRUE) \in Prompts /\ Prompt(n, n, TRUE).owed /\ Prompt(n, n, TRUE).to = n
      /\ slot \in 0..MaxRunners
  BY PromptType DEF IInv, Inside, Prompt
<1>4. j \in Jobs /\ j.kind = "put" /\ j.prompt.to = n /\ Serves(j)
  BY <1>3 DEF Jobs, Mention, Live, Serves
<1>5. slot # 0 /\ run[slot] \in Machines /\ run[slot].queue \in Seq(Prompts)
      /\ tasks \in Seq(Jobs) /\ targets \in Seq(Asks) /\ First(run[slot]) \in Seq(Asks)
  BY SlotIs, FirstType DEF Mention, Live, IInv, Outside
<1>. HIDE DEF j
<1>6. Due(Append(targets, n), First(run[slot]), run[slot].queue, Append(tasks, j))
  BY <1>4, <1>5, DueTask DEF InLine
<1>7. Append(tasks, j) \in Seq(Jobs) /\ Putting(Append(tasks, j))
  BY <1>4, <1>5, PuttingMore, AppendProperties DEF InLine
<1>8. run' = [run EXCEPT ![slot] = [@ EXCEPT !.queue = run[slot].queue]]
  BY <1>5, SlotIs DEF Mention, IInv, Inside, Machines
<1>. QED
  BY <1>2, <1>5, <1>6, <1>7, <1>8, Feeds DEF Mention

LEMMA InviteInLine == IInv /\ InLine /\ Invite => InLine'
<1>. SUFFICES ASSUME IInv, InLine, Invite PROVE InLine'
  OBVIOUS
<1>1. PICK n \in Asks : n = asked + 1
  BY NextAsk DEF Invite, Asking
<1>. DEFINE j == [kind |-> "invite", runner |-> 0, prompt |-> Prompt(n, NoTarget, TRUE)]
<1>2. tasks' = Append(tasks, j)
  BY <1>1 DEF Invite, Asking
<1>3. NoTarget \in Asks /\ 0 \in 0..MaxRunners
  BY ZeroAsk, RelayBoundsAssumption DEF NoTarget
<1>a. Prompt(n, NoTarget, TRUE) \in Prompts
  BY <1>3, PromptType
<1>4. j \in Jobs /\ j.kind # "put" /\ Serves(j)
  BY <1>3, <1>a DEF Jobs, Serves, Prompt
<1>5. tasks \in Seq(Jobs)
  BY DEF IInv, Outside
<1>. HIDE DEF j
<1>6. Append(tasks, j) \in Seq(Jobs) /\ Putting(Append(tasks, j))
  BY <1>4, <1>5, PuttingMore, AppendProperties DEF InLine
<1>7. UNCHANGED <<backend, slot, run, targets, told>>
  BY DEF Invite
<1>8. CASE slot = 0
  BY <1>2, <1>6, <1>7, <1>8, Empty, Feeds
<1>9. CASE slot # 0
  <2>1. slot \in Runners /\ run[slot] \in Machines /\ run[slot].queue \in Seq(Prompts)
    BY <1>9, SlotIs
  <2>2. Due(targets, First(run[slot]), run[slot].queue, Append(tasks, j))
    BY <1>4, <1>5, <1>9, DueInvitation DEF InLine
  <2>3. run' = [run EXCEPT ![slot] = [@ EXCEPT !.queue = run[slot].queue]]
    BY <1>7, <2>1 DEF IInv, Inside, Machines
  <2>. QED
    BY <1>2, <1>6, <1>7, <1>9, <2>1, <2>2, <2>3, Feeds
<1>. QED
  BY <1>8, <1>9

LEMMA QueryInLine == IInv /\ InLine /\ ~skewed' /\ Query => InLine'
<1>. SUFFICES ASSUME IInv, InLine, ~skewed', Query PROVE InLine'
  OBVIOUS
<1>1. PICK n \in Asks : n = asked + 1
  BY NextAsk DEF Query, Asking
<1>a. NoTarget \in Asks
  BY ZeroAsk DEF NoTarget
<1>2. PICK p \in Prompts : p = Prompt(n, NoTarget, TRUE)
  BY <1>a, PromptType
<1>b. p.owed /\ p.to = NoTarget
  BY <1>2 DEF Prompt
<1>3. targets' = Append(targets, p.to) /\ Put(slot, p)
  BY <1>1, <1>2, <1>b DEF Query, Asking
<1>4. ~Overtakes(tasks)
  BY DEF Query
<1>5. slot # 0 /\ run[slot].running /\ slot \in Runners /\ run[slot] \in Machines
      /\ run[slot].queue \in Seq(Prompts)
      /\ tasks \in Seq(Jobs) /\ targets \in Seq(Asks) /\ First(run[slot]) \in Seq(Asks)
  BY SlotIs, FirstType DEF Query, Live, IInv, Outside
<1>6. Due(Append(targets, p.to), First(run[slot]), Append(run[slot].queue, p), tasks)
  BY <1>b, <1>4, <1>5, DuePrompt DEF InLine
<1>7. Append(run[slot].queue, p) \in Seq(Prompts)
  BY <1>5, AppendProperties
<1>8. run' = [run EXCEPT ![slot] = [@ EXCEPT !.queue = Append(run[slot].queue, p)]]
  BY <1>3, <1>5, PutIs
<1>. QED
  BY <1>3, <1>5, <1>6, <1>7, <1>8, Feeds DEF Query, InLine

LEMMA CommandInLine == IInv /\ InLine /\ Command => InLine'
<1>. SUFFICES ASSUME IInv, InLine, Command PROVE InLine'
  OBVIOUS
<1>1. PICK n \in Asks : n = asked + 1
  BY NextAsk DEF Command, Asking
<1>a. NoTarget \in Asks
  BY ZeroAsk DEF NoTarget
<1>2. PICK p \in Prompts : p = Prompt(n, NoTarget, FALSE)
  BY <1>a, PromptType
<1>3. ~p.owed
  BY <1>2 DEF Prompt
<1>b. Put(slot, p)
  BY <1>1, <1>2 DEF Command, Asking
<1>5. slot # 0 /\ run[slot].running /\ slot \in Runners /\ run[slot] \in Machines
      /\ run[slot].queue \in Seq(Prompts) /\ tasks \in Seq(Jobs)
  BY SlotIs DEF Command, Live, IInv, Outside
<1>6. Due(targets, First(run[slot]), Append(run[slot].queue, p), tasks)
  BY <1>3, <1>5, DueCommand DEF InLine
<1>7. Append(run[slot].queue, p) \in Seq(Prompts)
  BY <1>5, AppendProperties
<1>8. run' = [run EXCEPT ![slot] = [@ EXCEPT !.queue = Append(run[slot].queue, p)]]
  BY <1>b, <1>5, PutIs
<1>. QED
  BY <1>5, <1>6, <1>7, <1>8, Feeds DEF Command, InLine

LEMMA RunTaskInLine == IInv /\ InLine /\ ~skewed' /\ RunTask => InLine'
<1>. SUFFICES ASSUME IInv, InLine, ~skewed', RunTask PROVE InLine'
  OBVIOUS
<1>1. tasks \in Seq(Jobs) /\ tasks # <<>> /\ targets \in Seq(Asks) /\ tasks' = Tail(tasks)
      /\ UNCHANGED <<backend, slot, told>>
  BY DEF RunTask, IInv, Outside
<1>2. PICK w \in Seq(Jobs) : w = Tail(tasks) /\ Putting(w)
  BY <1>1, PuttingLess, HeadTailProperties DEF InLine
<1>3. PICK j \in Jobs : j = Head(tasks) /\ Serves(j)
  BY <1>1, PuttingLess, HeadTailProperties DEF InLine
<1>4. j.prompt \in Prompts
  BY DEF Jobs
<1>5. CASE j.kind = "put"
  <2>1. Put(slot, j.prompt) /\ targets' = targets /\ slot # 0 /\ run[slot].running /\ j.prompt.owed
    BY <1>3, <1>5 DEF RunTask, Serves
  <2>2. slot \in Runners /\ run[slot] \in Machines /\ run[slot].queue \in Seq(Prompts)
        /\ First(run[slot]) \in Seq(Asks)
    BY <2>1, SlotIs, FirstType
  <2>3. Due(targets, First(run[slot]), Append(run[slot].queue, j.prompt), w)
    BY <1>1, <1>2, <1>3, <1>5, <2>1, <2>2, DuePut DEF InLine
  <2>4. Append(run[slot].queue, j.prompt) \in Seq(Prompts)
    BY <1>4, <2>2, AppendProperties
  <2>5. run' = [run EXCEPT ![slot] = [@ EXCEPT !.queue = Append(run[slot].queue, j.prompt)]]
    BY <1>4, <2>1, <2>2, PutIs
  <2>. QED
    BY <1>1, <1>2, <2>1, <2>3, <2>4, <2>5, Feeds
<1>6. CASE j.kind # "put"
  <2>1. slot # 0 => Due(targets, First(run[slot]), run[slot].queue, w)
    BY <1>1, <1>2, <1>3, <1>6, DueDropped DEF InLine
  <2>2. CASE Live
    <3>1. Put(slot, j.prompt) /\ targets' = Append(targets, NoTarget) /\ ~Overtakes(w)
      BY <1>2, <1>3, <1>6, <2>2 DEF RunTask
    <3>2. slot # 0 /\ run[slot].running /\ slot \in Runners /\ run[slot] \in Machines
          /\ run[slot].queue \in Seq(Prompts) /\ First(run[slot]) \in Seq(Asks)
      BY <2>2, SlotIs, FirstType DEF Live
    <3>3. j.prompt.owed /\ j.prompt.to = NoTarget
      BY <1>3, <1>6 DEF Serves
    <3>4. Due(Append(targets, j.prompt.to), First(run[slot]), Append(run[slot].queue, j.prompt), w)
      BY <1>1, <1>2, <1>4, <2>1, <3>1, <3>2, <3>3, DuePrompt
    <3>5. Append(run[slot].queue, j.prompt) \in Seq(Prompts)
      BY <1>4, <3>2, AppendProperties
    <3>6. run' = [run EXCEPT ![slot] = [@ EXCEPT !.queue = Append(run[slot].queue, j.prompt)]]
      BY <1>4, <3>1, <3>2, PutIs
    <3>. QED
      BY <1>1, <1>2, <3>1, <3>2, <3>3, <3>4, <3>5, <3>6, Feeds
  <2>3. CASE ~Live
    <3>1. UNCHANGED <<run, targets>>
      BY <1>3, <1>6, <2>3 DEF RunTask
    <3>2. CASE slot = 0
      BY <1>1, <1>2, <3>1, <3>2, Empty, Feeds
    <3>3. CASE slot # 0
      <4>1. slot \in Runners /\ run[slot] \in Machines /\ run[slot].queue \in Seq(Prompts)
        BY <3>3, SlotIs
      <4>2. run' = [run EXCEPT ![slot] = [@ EXCEPT !.queue = run[slot].queue]]
        BY <3>1, <4>1 DEF IInv, Inside, Machines
      <4>. QED
        BY <1>1, <1>2, <2>1, <3>1, <3>3, <4>1, <4>2, Feeds
    <3>. QED
      BY <3>2, <3>3
  <2>. QED
    BY <2>2, <2>3
<1>. QED
  BY <1>5, <1>6

-----------------------------------------------------------------------------
(* What a program has written. *)

LEMMA HeadRest ==
  ASSUME NEW S, NEW s \in Seq(S), s # <<>>
  PROVE  /\ 1 \in 1..Len(s) /\ Head(s) = s[1] /\ Head(s) \in S
         /\ Tail(s) \in Seq(S) /\ Len(Tail(s)) = Len(s) - 1
         /\ \A i \in 1..Len(Tail(s)) : Tail(s)[i] = s[i + 1] /\ i + 1 \in 1..Len(s)
OBVIOUS

\* The first line was read, and what it says was gathered.
LEMMA ScriptRest ==
  ASSUME NEW s \in Seq(Messages), s # <<>>, NEW x, NEW y, Script(s, x),
         y \subseteq {Head(s).prompt.to} \/ backend # "codex"
  PROVE  Script(Tail(s), y)
<1>. DEFINE t == Tail(s)
<1>1. /\ 1 \in 1..Len(s) /\ Head(s) = s[1]
      /\ \A i \in 1..Len(t) : t[i] = s[i + 1] /\ i + 1 \in 1..Len(s)
  BY HeadRest
<1>. HIDE DEF t
<1>2. \A i, j \in 1..Len(t) : t[i].prompt = t[j].prompt
  BY <1>1 DEF Script
<1>3. \A i \in 1..Len(t) : t[i].prompt = Head(s).prompt
  BY <1>1 DEF Script
<1>4. backend = "acp" => \A i \in 1..Len(t) : t[i].kind # "error"
  BY <1>1 DEF Script
<1>5. Script(t, y)
  BY <1>2, <1>3, <1>4 DEF Script
<1>. QED
  BY <1>5 DEF t

LEMMA ScriptTail ==
  ASSUME NEW s \in Seq(Messages), s # <<>>, NEW x, Script(s, x), Head(s).kind # "started"
  PROVE  Script(Tail(s), x)
<1>. DEFINE t == Tail(s)
<1>1. /\ 1 \in 1..Len(s) /\ Head(s) = s[1] /\ Len(t) = Len(s) - 1 /\ Len(s) \in Nat
      /\ \A i \in 1..Len(t) : t[i] = s[i + 1] /\ i + 1 \in 1..Len(s)
  BY HeadRest
<1>. HIDE DEF t
<1>2. \A i, j \in 1..Len(t) : t[i].prompt = t[j].prompt
  BY <1>1 DEF Script
<1>3. ASSUME backend = "codex", NEW i \in 1..Len(t), t[i].kind \in {"delta", "completed", "stop"}
      PROVE  (\E j \in 1..(i - 1) : t[j].kind = "started") \/ x \subseteq {t[i].prompt.to}
  <2>1. CASE \E j \in 1..((i + 1) - 1) : s[j].kind = "started"
    <3>1. PICK j \in 1..((i + 1) - 1) : s[j].kind = "started"
      BY <2>1
    <3>2. j # 1
      BY <1>1, <3>1
    <3>3. j - 1 \in 1..(i - 1) /\ j - 1 \in 1..Len(t) /\ (j - 1) + 1 = j
      BY <1>1, <3>2
    <3>4. t[j - 1].kind = "started"
      BY <1>1, <3>1, <3>3
    <3>. QED
      BY <3>3, <3>4
  <2>2. CASE x \subseteq {s[i + 1].prompt.to}
    BY <1>1, <2>2
  <2>. QED
    BY <1>1, <1>3, <2>1, <2>2 DEF Script
<1>4. backend = "acp" => \A i \in 1..Len(t) : t[i].kind # "error"
  BY <1>1 DEF Script
<1>5. Script(t, x)
  BY <1>2, <1>3, <1>4 DEF Script
<1>. QED
  BY <1>5 DEF t

\* What codex has gathered when it reads the end is about the prompt of the line.
LEMMA ScriptEnds ==
  ASSUME NEW s \in Seq(Messages), s # <<>>, NEW x, Script(s, x)
  PROVE  /\ backend = "codex" /\ Head(s).kind \in {"delta", "completed", "stop"}
              => x \subseteq {Head(s).prompt.to}
         /\ backend = "acp" => Head(s).kind # "error"
<1>1. 1 \in 1..Len(s) /\ Head(s) = s[1] /\ ~\E j \in 1..(1 - 1) : TRUE
  BY HeadRest
<1>. QED
  BY <1>1 DEF Script

\* A part of it is lost.
LEMMA ScriptCut ==
  ASSUME NEW s \in Seq(Messages), NEW k \in 0..Len(s), NEW x, Script(s, x)
  PROVE  Script(SubSeq(s, 1, k), x)
<1>. DEFINE t == SubSeq(s, 1, k)
<1>1. Len(t) = k /\ Len(s) \in Nat /\ \A i \in 1..Len(t) : t[i] = s[i] /\ i \in 1..Len(s)
  OBVIOUS
<1>. HIDE DEF t
<1>2. \A i, j \in 1..Len(t) : t[i].prompt = t[j].prompt
  BY <1>1 DEF Script
<1>3. ASSUME backend = "codex", NEW i \in 1..Len(t), t[i].kind \in {"delta", "completed", "stop"}
      PROVE  (\E j \in 1..(i - 1) : t[j].kind = "started") \/ x \subseteq {t[i].prompt.to}
  <2>1. (\E j \in 1..(i - 1) : s[j].kind = "started") \/ x \subseteq {s[i].prompt.to}
    BY <1>1, <1>3 DEF Script
  <2>2. \A j \in 1..(i - 1) : j \in 1..Len(t)
    BY <1>1
  <2>. QED
    BY <1>1, <2>1, <2>2
<1>4. backend = "acp" => \A i \in 1..Len(t) : t[i].kind # "error"
  BY <1>1 DEF Script
<1>5. Script(t, x)
  BY <1>2, <1>3, <1>4 DEF Script
<1>. QED
  BY <1>5 DEF t

LEMMA ScriptNone == ASSUME NEW x PROVE Script(<<>>, x)
BY DEF Script

\* It writes about one prompt.
LEMMA ScriptNew ==
  ASSUME NEW script \in Scripts, NEW p, NEW try, NEW x
  PROVE  Script(<<>> \o [i \in DOMAIN script |-> Message(script[i], p, try)], x)
<1>. DEFINE t == [i \in DOMAIN script |-> Message(script[i], p, try)]
<1>1. script \in Seq(Kinds)
  BY ScriptType
<1>2. Len(t) = Len(script) /\ \A i \in 1..Len(t) : t[i].kind = script[i] /\ t[i].prompt = p
  BY <1>1 DEF Message
<1>3. <<>> \o t = t
  BY <1>1 DEF Message
<1>. HIDE DEF t
<1>4. ASSUME backend = "codex", NEW i \in 1..Len(t), t[i].kind \in {"delta", "completed", "stop"}
      PROVE  \E j \in 1..(i - 1) : t[j].kind = "started"
  <2>1. i > 2 /\ script[2] = "started"
    BY <1>2, <1>4 DEF Scripts
  <2>2. 2 \in 1..(i - 1) /\ 2 \in 1..Len(t)
    BY <1>1, <1>2, <2>1
  <2>. QED
    BY <1>2, <2>1, <2>2
<1>5. backend = "acp" => \A i \in 1..Len(t) : t[i].kind # "error"
  BY <1>2 DEF Scripts
<1>6. Script(t, x)
  BY <1>2, <1>4, <1>5 DEF Script
<1>. QED
  BY <1>3, <1>6 DEF t

-----------------------------------------------------------------------------
(* The prompt loop stays in line. *)

LEMMA Known ==
  ASSUME IInv, InLine, NEW r \in Runners
  PROVE  /\ run[r] \in Machines /\ Course(run[r], exit[r]) /\ Sound(r, run[r])
         /\ run[r].queue \in Seq(Prompts) /\ run[r].pipe \in Seq(Messages) /\ run[r].at.to \in Asks
         /\ r = slot => Due(targets, First(run[r]), run[r].queue, tasks)
         /\ tasks \in Seq(Jobs) /\ targets \in Seq(Asks) /\ told.about \subseteq {told.to}
<1>1. r # 0
  BY RelayBoundsAssumption DEF Runners
<1>2. run[r] \in Machines /\ Course(run[r], exit[r]) /\ Sound(r, run[r])
  BY Runner DEF InLine
<1>3. r = slot => Due(targets, First(run[r]), run[r].queue, tasks)
  BY <1>1 DEF InLine
<1>4. run[r].queue \in Seq(Prompts) /\ run[r].pipe \in Seq(Messages) /\ run[r].at.to \in Asks
  BY <1>2 DEF Machines, Prompts
<1>. QED
  BY <1>2, <1>3, <1>4 DEF InLine, IInv, Outside

\* A turn under way is that of the daemon's runner, and not of one that starts.
LEMMA UnderWay ==
  ASSUME NEW r, NEW m, Sound(r, m), m.turn \notin {"idle", "gone"}
  PROVE  m.boot # "starting" /\ (Owes(m) => r = slot)
BY DEF Sound

\* What is told to the first target is told to the one who asked.
LEMMA Served ==
  ASSUME IInv, InLine, NEW r \in Runners, Owes(run[r]), NEW about, Tells(about), Pops,
         about \subseteq {run[r].at.to}
  PROVE  /\ r = slot /\ told'.about \subseteq {told'.to}
         /\ Due(targets', <<>>, run[r].queue, tasks)
<1>1. r = slot /\ Due(targets, First(run[r]), run[r].queue, tasks)
  BY Known DEF Sound
<1>2. PICK A : A = <<run[r].at.to>>
  OBVIOUS
<1>3. First(run[r]) = A
  BY <1>2 DEF First
<1>4. /\ targets # <<>> /\ Head(targets) = run[r].at.to
      /\ Due(Tail(targets), <<>>, run[r].queue, tasks)
  BY <1>1, <1>2, <1>3, Known, DueServed
<1>. QED
  BY <1>1, <1>4 DEF Tells, Pops

\* A turn that ends in an error.
LEMMA EndsInErrorInLine ==
  ASSUME IInv, InLine, ~skewed', NEW r \in Runners, EndsInError(r), backend # "copilot",
         run[r].turn \notin {"idle", "gone"}, UNCHANGED <<backend, slot, tasks>>
  PROVE  InLine'
<1>. DEFINE m == [Ended(run[r]) EXCEPT !.pending = FALSE, !.done = TRUE]
<1>1. run[r] \in Machines /\ Sound(r, run[r])
  BY Known
<1>2. run' = [run EXCEPT ![r] = m] /\ run[r].at.owed /\ ~run[r].took
      /\ (backend = "acp" => run[r].text = {})
  BY DEF EndsInError, Spent, IInv, Inside
<1>3. m \in Machines
  BY <1>1, EndedType DEF Machines
<1>4. /\ m.queue = run[r].queue /\ m.reader = run[r].reader /\ m.running = run[r].running
      /\ m.turn = "idle" /\ m.at = run[r].at /\ m.took = run[r].took /\ m.boot = run[r].boot
      /\ m.pending = FALSE /\ m.pipe = run[r].pipe /\ m.text = run[r].text
  BY <1>1 DEF Machines, Ended
<1>. HIDE DEF m
<1>5. Owes(run[r]) /\ ~Owes(m) /\ run[r].boot # "starting"
  BY <1>1, <1>2, <1>4, UnderWay DEF Owes
<1>6. r = slot /\ told'.about \subseteq {told'.to} /\ Due(targets', <<>>, m.queue, tasks)
  BY <1>4, <1>5, Served DEF EndsInError, Apologises
<1>7. First(m) = <<>>
  BY <1>4, <1>5 DEF First
<1>8. Sound(r, m)
  BY <1>1, <1>2, <1>4, <1>5 DEF Sound, Gathered
<1>. QED
  BY <1>2, <1>3, <1>4, <1>6, <1>7, <1>8, Works

LEMMA TimeoutInLine == IInv /\ InLine /\ ~skewed' /\ Timeout => InLine'
BY EndsInErrorInLine DEF Timeout

LEMMA GiveUpInLine == IInv /\ InLine /\ ~skewed' /\ GiveUp => InLine'
BY EndsInErrorInLine DEF GiveUp

LEMMA RequestFailedInLine == IInv /\ InLine /\ ~skewed' /\ RequestFailed => InLine'
BY EndsInErrorInLine DEF RequestFailed

\* A turn that ends without a text had taken its target before.
LEMMA EndsSilentInLine ==
  ASSUME IInv, InLine, ~skewed', NEW r \in Runners, EndsSilent(r),
         run[r].turn \notin {"idle", "gone"}, backend = "codex" => run[r].turn # "asked",
         backend = "acp" => run[r].text = {} \/ ~run[r].busy,
         UNCHANGED <<backend, slot, tasks>>
  PROVE  InLine'
<1>. DEFINE m == Ended(run[r])
<1>1. run[r] \in Machines /\ Sound(r, run[r])
  BY Known
<1>2. run' = [run EXCEPT ![r] = m] /\ ~Owes(run[r])
  BY DEF EndsSilent, Owes, IInv, Inside
<1>3. m \in Machines
  BY <1>1, EndedType
<1>4. /\ m.queue = run[r].queue /\ m.reader = run[r].reader /\ m.running = run[r].running
      /\ m.turn = "idle" /\ m.at = run[r].at /\ m.took = run[r].took /\ m.boot = run[r].boot
      /\ m.pending = run[r].pending /\ m.pipe = run[r].pipe /\ m.text = run[r].text
  BY <1>1 DEF Machines, Ended
<1>. HIDE DEF m
<1>5. ~Owes(m) /\ First(m) = First(run[r]) /\ UNCHANGED <<targets, told>>
  BY <1>2, <1>4 DEF First, Owes, EndsSilent
<1>6. Sound(r, m)
  BY <1>1, <1>4, <1>5 DEF Sound, Gathered
<1>7. told'.about \subseteq {told'.to} /\ (r = slot => Due(targets', First(m), m.queue, tasks))
  BY <1>4, <1>5, Known
<1>. QED
  BY <1>2, <1>3, <1>4, <1>5, <1>6, <1>7, Works

LEMMA TurnEndsInLine == IInv /\ InLine /\ ~skewed' /\ TurnEnds => InLine'
BY EndsSilentInLine DEF TurnEnds

\* The runner that takes a prompt is the daemon's, and nothing is under way.
LEMMA TakesKnown ==
  ASSUME IInv, InLine, NEW r \in Runners, Takes(r)
  PROVE  /\ r = slot /\ run[r].boot # "starting" /\ ~Owes(run[r]) /\ First(run[r]) = <<>>
         /\ Head(run[r].queue) \in Prompts /\ Tail(run[r].queue) \in Seq(Prompts)
<1>1. /\ Course(run[r], exit[r]) /\ Sound(r, run[r]) /\ run[r].queue \in Seq(Prompts)
      /\ run[r].running /\ run[r].turn = "idle" /\ run[r].queue # <<>>
  BY Known DEF Takes
<1>2. r = slot /\ run[r].boot # "starting" /\ ~Owes(run[r])
  BY <1>1 DEF Course, Sound, Owes
<1>. QED
  BY <1>1, <1>2, HeadTail DEF First

LEMMA TakeInLine == IInv /\ InLine /\ Take => InLine'
<1>. SUFFICES ASSUME IInv, InLine, Take PROVE InLine'
  OBVIOUS
<1>1. PICK r \in Runners : /\ Takes(r) /\ run[r].thread /\ run[r].reader # "ended"
                           /\ run' = [run EXCEPT ![r] = Request(Taken(@), Head(@.queue), 1)]
  BY DEF Take
<1>. DEFINE p == Head(run[r].queue)
            m == Request(Taken(run[r]), p, 1)
<1>2. /\ run[r] \in Machines /\ Sound(r, run[r]) /\ Due(targets, <<>>, run[r].queue, tasks)
      /\ run[r].running /\ run[r].turn = "idle" /\ run[r].queue # <<>>
      /\ run[r].queue \in Seq(Prompts)
      /\ r = slot /\ run[r].boot # "starting" /\ p \in Prompts
  BY <1>1, Known, TakesKnown DEF Takes
<1>3. Taken(run[r]) \in Machines /\ m \in Machines
  BY <1>2, TakenType, RequestType
<1>4. /\ m.queue = Tail(run[r].queue) /\ m.reader = run[r].reader /\ m.running
      /\ m.turn = "asked" /\ m.at = p /\ m.took = FALSE /\ m.boot = run[r].boot
      /\ m.pipe = run[r].pipe /\ m.text = run[r].text /\ m.busy
  BY <1>2 DEF Machines, Request, Taken
<1>5. run' = [run EXCEPT ![r] = m]
  BY <1>1 DEF IInv, Inside
<1>. HIDE DEF m, p
<1>6. Owes(m) <=> p.owed
  BY <1>4 DEF Owes
<1>7. Sound(r, m)
  BY <1>1, <1>2, <1>4 DEF Sound, Owes, Gathered
<1>8. Due(targets, First(m), m.queue, tasks)
  <2>1. CASE p.owed
    <3>1. PICK A : A = <<p.to>>
      OBVIOUS
    <3>2. First(m) = A
      BY <1>4, <1>6, <2>1, <3>1 DEF First
    <3>. QED
      BY <1>2, <1>4, <2>1, <3>1, <3>2, DueTaken DEF p
  <2>2. CASE ~p.owed
    <3>1. First(m) = <<>>
      BY <1>2, <1>4, <1>6, <2>2 DEF First
    <3>. QED
      BY <1>2, <1>4, <2>2, <3>1, DueTaken DEF p
  <2>. QED
    BY <2>1, <2>2
<1>9. UNCHANGED <<backend, slot, tasks, targets, told>> /\ told.about \subseteq {told.to}
  BY <1>2, Known DEF Take
<1>. QED
  BY <1>2, <1>3, <1>4, <1>5, <1>7, <1>8, <1>9, Works

LEMMA TakeInVainInLine == IInv /\ InLine /\ ~skewed' /\ TakeInVain => InLine'
<1>. SUFFICES ASSUME IInv, InLine, ~skewed', TakeInVain PROVE InLine'
  OBVIOUS
<1>1. PICK r \in Runners : /\ Takes(r)
                           /\ run' = [run EXCEPT ![r] = [Taken(@) EXCEPT !.done = TRUE]]
                           /\ Apologises(Head(run[r].queue).to)
                           /\ skewed' = (skewed \/ ~Head(run[r].queue).owed)
  BY DEF TakeInVain
<1>. DEFINE p == Head(run[r].queue)
            m == [Taken(run[r]) EXCEPT !.done = TRUE]
<1>2. /\ run[r] \in Machines /\ Sound(r, run[r]) /\ Due(targets, <<>>, run[r].queue, tasks)
      /\ run[r].running /\ run[r].turn = "idle" /\ run[r].queue # <<>>
      /\ run[r].queue \in Seq(Prompts)
      /\ r = slot /\ run[r].boot # "starting" /\ p \in Prompts
  BY <1>1, Known, TakesKnown DEF Takes
<1>3. Taken(run[r]) \in Machines /\ m \in Machines
  BY <1>2, TakenType DEF Machines
<1>4. /\ m.queue = Tail(run[r].queue) /\ m.reader = run[r].reader /\ m.running
      /\ m.turn = "idle" /\ m.boot = run[r].boot /\ m.pending = run[r].pending
      /\ m.pipe = run[r].pipe /\ m.text = run[r].text
  BY <1>2 DEF Machines, Taken
<1>5. run' = [run EXCEPT ![r] = m] /\ p.owed
  BY <1>1 DEF IInv, Inside
<1>. HIDE DEF m
<1>6. ~Owes(m) /\ First(m) = <<>>
  BY <1>2, <1>4 DEF Owes, First
<1>7. Sound(r, m)
  BY <1>2, <1>4, <1>6 DEF Sound, Gathered
<1>8. PICK A : A = <<p.to>>
  OBVIOUS
<1>9. Due(targets, A, m.queue, tasks) /\ p.to \in Asks /\ targets \in Seq(Asks)
  <2>1. p.to \in Asks /\ targets \in Seq(Asks)
    BY <1>2, Known DEF Prompts
  <2>. QED
    BY <1>2, <1>4, <1>5, <1>8, <2>1, DueTaken
<1>10. targets # <<>> /\ Head(targets) = p.to /\ Due(Tail(targets), <<>>, m.queue, tasks)
  BY <1>8, <1>9, DueServed
<1>11. told'.about \subseteq {told'.to} /\ Due(targets', First(m), m.queue, tasks)
  BY <1>1, <1>6, <1>10 DEF Apologises, Tells, Pops
<1>12. UNCHANGED <<backend, slot, tasks>>
  BY DEF TakeInVain
<1>. QED
  BY <1>2, <1>3, <1>4, <1>5, <1>7, <1>11, <1>12, Works

\* The same prompt, asked again.
LEMMA RetryInLine == IInv /\ InLine /\ Retry => InLine'
<1>. SUFFICES ASSUME IInv, InLine, Retry PROVE InLine'
  OBVIOUS
<1>1. PICK r \in Runners : /\ backend = "acp" /\ run[r].turn = "asked"
                           /\ run' = [run EXCEPT ![r] = Request(@, @.at, 2)]
  BY DEF Retry
<1>. DEFINE m == Request(run[r], run[r].at, 2)
<1>2. run[r] \in Machines /\ Sound(r, run[r])
  BY Known
<1>3. m \in Machines
  BY <1>2, RequestType DEF Machines
<1>4. /\ m.queue = run[r].queue /\ m.reader = run[r].reader /\ m.running = run[r].running
      /\ m.turn = "asked" /\ m.at = run[r].at /\ m.took = run[r].took /\ m.boot = run[r].boot
      /\ m.pipe = run[r].pipe /\ m.text = run[r].text /\ m.busy
  BY <1>2 DEF Machines, Request
<1>5. run' = [run EXCEPT ![r] = m]
  BY <1>1 DEF IInv, Inside
<1>. HIDE DEF m
<1>6. (Owes(m) <=> Owes(run[r])) /\ First(m) = First(run[r])
  BY <1>1, <1>4 DEF Owes, First
<1>7. Sound(r, m)
  BY <1>1, <1>2, <1>4, <1>6 DEF Sound, Gathered
<1>8. told'.about \subseteq {told'.to} /\ (r = slot => Due(targets', First(m), m.queue, tasks))
  BY <1>4, <1>6, Known DEF Retry
<1>. QED
  BY <1>3, <1>4, <1>5, <1>7, <1>8, Works DEF Retry

\* What was gathered goes out: it is of the prompt whose turn it is, and so is the target.
LEMMA RelaysInLine ==
  ASSUME IInv, InLine, ~skewed', NEW r \in Runners, NEW about, Relays(about),
         skewed' = (skewed \/ Spent(r)), about \subseteq {run[r].at.to},
         run' = [run EXCEPT ![r].turn = "relaying", ![r].took = TRUE],
         run[r].turn \in {"asked", "responded"}, backend # "codex",
         UNCHANGED <<backend, slot, tasks>>
  PROVE  InLine'
<1>. DEFINE m == [run[r] EXCEPT !.turn = "relaying", !.took = TRUE]
<1>1. run[r] \in Machines /\ Sound(r, run[r])
  BY Known
<1>2. m \in Machines
  BY <1>1, Names DEF Machines
<1>3. /\ m.queue = run[r].queue /\ m.reader = run[r].reader /\ m.running = run[r].running
      /\ m.turn = "relaying" /\ m.at = run[r].at /\ m.took /\ m.boot = run[r].boot
      /\ m.pipe = run[r].pipe /\ m.text = run[r].text /\ m.busy = run[r].busy
  BY <1>1 DEF Machines
<1>4. run' = [run EXCEPT ![r] = m]
  BY DEF IInv, Inside
<1>. HIDE DEF m
<1>5. Owes(run[r]) /\ ~Owes(m) /\ run[r].boot # "starting"
  BY <1>1, <1>3, UnderWay DEF Owes, Spent
<1>6. First(m) = <<>>
  BY <1>3, <1>5 DEF First
<1>7. Sound(r, m)
  BY <1>1, <1>3, <1>5 DEF Sound, Gathered
<1>8. r = slot /\ told'.about \subseteq {told'.to} /\ Due(targets', First(m), m.queue, tasks)
  BY <1>3, <1>5, <1>6, Served DEF Relays
<1>. QED
  BY <1>2, <1>3, <1>4, <1>7, <1>8, Works

LEMMA FlushResultInLine == IInv /\ InLine /\ ~skewed' /\ FlushResult => InLine'
<1>. SUFFICES ASSUME IInv, InLine, ~skewed', FlushResult PROVE InLine'
  OBVIOUS
<1>1. /\ backend = "acp" /\ UNCHANGED <<backend, slot, tasks>>
  BY DEF FlushResult
<1>2. PICK r \in Runners :
        /\ run[r].turn = "responded"
        /\ IF run[r].text = {}
           THEN EndsSilent(r)
           ELSE /\ Relays(run[r].text)
                /\ skewed' = (skewed \/ Spent(r))
                /\ run' = [run EXCEPT ![r].turn = "relaying", ![r].took = TRUE]
  BY DEF FlushResult
<1>3. CASE run[r].text = {}
  BY <1>1, <1>2, <1>3, EndsSilentInLine
<1>4. CASE run[r].text # {}
  <2>1. Sound(r, run[r]) /\ ~run[r].took
    BY <1>2, <1>4, Known DEF Spent
  <2>2. run[r].text \subseteq {run[r].at.to}
    BY <1>1, <1>2, <1>4, <2>1 DEF Sound, Gathered
  <2>. QED
    BY <1>1, <1>2, <1>4, <2>2, RelaysInLine
<1>. QED
  BY <1>3, <1>4

LEMMA FlushResultEndsInLine == IInv /\ InLine /\ FlushResultEnds => InLine'
<1>. SUFFICES ASSUME IInv, InLine, FlushResultEnds PROVE InLine'
  OBVIOUS
<1>1. PICK r \in Runners : /\ run[r].turn = "relaying"
                           /\ run' = [run EXCEPT ![r] = [Ended(@) EXCEPT !.text = {}]]
  BY DEF FlushResultEnds
<1>. DEFINE m == [Ended(run[r]) EXCEPT !.text = {}]
<1>2. run[r] \in Machines /\ Sound(r, run[r])
  BY Known
<1>3. m \in Machines
  BY <1>2, EndedType, Names DEF Machines
<1>4. /\ m.queue = run[r].queue /\ m.reader = run[r].reader /\ m.running = run[r].running
      /\ m.turn = "idle" /\ m.boot = run[r].boot
      /\ m.pending = run[r].pending /\ m.pipe = run[r].pipe /\ m.text = {}
  BY <1>2 DEF Machines, Ended
<1>5. run' = [run EXCEPT ![r] = m]
  BY <1>1 DEF IInv, Inside
<1>. HIDE DEF m
<1>6. ~Owes(m) /\ ~Owes(run[r]) /\ First(m) = First(run[r])
  BY <1>1, <1>2, <1>4 DEF Owes, First, Sound
<1>7. Script(m.pipe, m.text)
  BY <1>2, <1>4 DEF Sound, Script
<1>8. Sound(r, m)
  BY <1>1, <1>2, <1>4, <1>6, <1>7 DEF Sound, Gathered
<1>9. told'.about \subseteq {told'.to} /\ (r = slot => Due(targets', First(m), m.queue, tasks))
  BY <1>4, <1>6, Known DEF FlushResultEnds
<1>. QED
  BY <1>3, <1>4, <1>5, <1>8, <1>9, Works DEF FlushResultEnds

LEMMA CopilotAnswersInLine == IInv /\ InLine /\ ~skewed' /\ CopilotAnswers => InLine'
<1>. SUFFICES ASSUME IInv, InLine, ~skewed', CopilotAnswers PROVE InLine'
  OBVIOUS
<1>1. /\ backend = "copilot" /\ UNCHANGED <<backend, slot, tasks>>
  BY DEF CopilotAnswers
<1>2. PICK r \in Runners :
        /\ run[r].turn = "asked"
        /\ \/ /\ Relays({run[r].at.to})
              /\ skewed' = (skewed \/ Spent(r))
              /\ run' = [run EXCEPT ![r].turn = "relaying", ![r].took = TRUE]
           \/ EndsSilent(r)
  BY DEF CopilotAnswers
<1>3. CASE EndsSilent(r)
  BY <1>1, <1>2, <1>3, EndsSilentInLine
<1>4. CASE ~EndsSilent(r)
  <2>1. PICK about : about = {run[r].at.to} /\ about \subseteq {run[r].at.to}
    OBVIOUS
  <2>. QED
    BY <1>1, <1>2, <1>4, <2>1, RelaysInLine
<1>. QED
  BY <1>3, <1>4

LEMMA CopilotFailsInLine == IInv /\ InLine /\ ~skewed' /\ CopilotFails => InLine'
<1>. SUFFICES ASSUME IInv, InLine, ~skewed', CopilotFails PROVE InLine'
  OBVIOUS
<1>1. /\ backend = "copilot" /\ UNCHANGED <<backend, slot, tasks>>
  BY DEF CopilotFails
<1>2. PICK r \in Runners : /\ run[r].turn = "asked" /\ Apologises(run[r].at.to)
                           /\ skewed' = (skewed \/ Spent(r))
                           /\ run' = [run EXCEPT ![r].turn = "failing"]
  BY DEF CopilotFails
<1>. DEFINE m == [run[r] EXCEPT !.turn = "failing"]
<1>3. run[r] \in Machines /\ Sound(r, run[r])
  BY Known
<1>4. m \in Machines
  BY <1>3, Names DEF Machines
<1>5. /\ m.queue = run[r].queue /\ m.reader = run[r].reader /\ m.running = run[r].running
      /\ m.turn = "failing" /\ m.boot = run[r].boot /\ m.pipe = run[r].pipe /\ m.text = run[r].text
  BY <1>3 DEF Machines
<1>6. run' = [run EXCEPT ![r] = m]
  BY <1>2 DEF IInv, Inside
<1>. HIDE DEF m
<1>7. Owes(run[r]) /\ ~Owes(m) /\ run[r].boot # "starting"
  BY <1>1, <1>2, <1>3, <1>5, UnderWay DEF Owes, Spent
<1>8. First(m) = <<>>
  BY <1>1, <1>7 DEF First
<1>9. Sound(r, m)
  BY <1>1, <1>3, <1>5, <1>7 DEF Sound, Gathered
<1>10. r = slot /\ told'.about \subseteq {told'.to} /\ Due(targets', First(m), m.queue, tasks)
  <2>1. PICK about : about = {run[r].at.to} /\ about \subseteq {run[r].at.to}
    OBVIOUS
  <2>. QED
    BY <1>2, <1>5, <1>7, <1>8, <2>1, Served DEF Apologises
<1>. QED
  BY <1>1, <1>4, <1>5, <1>6, <1>9, <1>10, Works

LEMMA CopilotExitsInLine == IInv /\ InLine /\ ~skewed' /\ CopilotExits => InLine'
<1>. SUFFICES ASSUME IInv, InLine, ~skewed', CopilotExits PROVE InLine'
  OBVIOUS
<1>1. /\ backend = "copilot" /\ targets = <<>> /\ UNCHANGED <<backend, slot, tasks, targets, told>>
  BY DEF CopilotExits
<1>2. PICK r \in Runners : /\ run[r].turn = "failing"
                           /\ run' = [run EXCEPT ![r].turn = "gone", ![r].running = FALSE]
  BY DEF CopilotExits
<1>. DEFINE m == [run[r] EXCEPT !.turn = "gone", !.running = FALSE]
<1>3. /\ run[r] \in Machines /\ Sound(r, run[r])
      /\ run[r].queue \in Seq(Prompts) /\ tasks \in Seq(Jobs)
      /\ r = slot => Due(targets, First(run[r]), run[r].queue, tasks)
  BY Known
<1>4. m \in Machines
  BY <1>3, Names DEF Machines
<1>5. /\ m.queue = run[r].queue /\ m.reader = run[r].reader /\ m.running = FALSE
      /\ m.turn = "gone" /\ m.boot = run[r].boot /\ m.pipe = run[r].pipe /\ m.text = run[r].text
  BY <1>3 DEF Machines
<1>6. run' = [run EXCEPT ![r] = m]
  BY <1>2 DEF IInv, Inside
<1>. HIDE DEF m
<1>7. ~Owes(run[r]) /\ ~Owes(m) /\ First(m) = <<>> /\ First(run[r]) = <<>>
  BY <1>1, <1>2, <1>5 DEF Owes, First
<1>8. r = slot => NoneOwed(run[r].queue) /\ ~Overtakes(tasks)
  BY <1>1, <1>3, <1>7, Empty, NothingDue
<1>9. (m.running = run[r].running \/ ~Overtakes(tasks)) /\ NoneOwed(m.queue)
  BY <1>3, <1>5, <1>8 DEF Sound, Machines
<1>10. Sound(r, m)
  BY <1>1, <1>3, <1>5, <1>7, <1>9 DEF Sound, Gathered
<1>11. told'.about \subseteq {told'.to} /\ (r = slot => Due(targets', First(m), m.queue, tasks))
  BY <1>1, <1>3, <1>5, <1>7, Known
<1>. QED
  BY <1>1, <1>4, <1>6, <1>9, <1>10, <1>11, Works

-----------------------------------------------------------------------------
(* The reader stays in line. *)

\* A line can be read, and if it is not a late one, the turn it is about is under way.
LEMMA ReadsKnown ==
  ASSUME IInv, InLine, NEW r \in Runners, NEW kind, Reads(r, kind)
  PROVE  /\ backend # "copilot" /\ run[r].reader = "reading"
         /\ run[r].pipe \in Seq(Messages) /\ run[r].pipe # <<>> /\ Head(run[r].pipe).kind = kind
         /\ Tail(run[r].pipe) \in Seq(Messages) /\ Head(run[r].pipe) \in Messages
         /\ run[r].turn \notin {"gone", "failing"}
         /\ Rest(r) \in Machines
<1>1. /\ run[r] \in Machines /\ Course(run[r], exit[r]) /\ Sound(r, run[r])
      /\ run[r].pipe \in Seq(Messages) /\ run[r].pipe # <<>>
      /\ run[r].reader = "reading" /\ Head(run[r].pipe).kind = kind
  BY Known DEF Reads
<1>2. Tail(run[r].pipe) \in Seq(Messages) /\ Head(run[r].pipe) \in Messages
  BY <1>1, HeadTail
<1>3. backend # "copilot" /\ run[r].turn \notin {"gone", "failing"}
  BY <1>1 DEF Course, Sound
<1>4. Rest(r) \in Machines
  BY <1>1, <1>2 DEF Rest, Machines
<1>. QED
  BY <1>1, <1>2, <1>3, <1>4

LEMMA RestIs ==
  ASSUME NEW r \in Runners, run[r] \in Machines
  PROVE  LET m == Rest(r) IN
         /\ m.queue = run[r].queue /\ m.reader = run[r].reader /\ m.running = run[r].running
         /\ m.turn = run[r].turn /\ m.at = run[r].at /\ m.took = run[r].took /\ m.boot = run[r].boot
         /\ m.pending = run[r].pending /\ m.pipe = Tail(run[r].pipe) /\ m.text = run[r].text
         /\ m.busy = run[r].busy
BY DEF Machines, Rest

LEMMA ReadResponseInLine == IInv /\ InLine /\ ReadResponse => InLine'
<1>. SUFFICES ASSUME IInv, InLine, ReadResponse PROVE InLine'
  OBVIOUS
<1>1. PICK r \in Runners, kind \in {"result", "stopped", "refused"} :
        /\ Reads(r, kind)
        /\ run' = [run EXCEPT ![r] =
                    IF run[r].pending /\ ~Late(r)
                    THEN [Rest(r) EXCEPT !.pending = FALSE,
                                         !.turn = IF kind = "stopped" THEN "responded" ELSE "waiting"]
                    ELSE Rest(r)]
  BY DEF ReadResponse
<1>2. UNCHANGED <<backend, slot, tasks, targets, told>> /\ told.about \subseteq {told.to}
  BY <1>1, Known DEF ReadResponse
<1>3. /\ run[r] \in Machines /\ Sound(r, run[r]) /\ Rest(r) \in Machines
      /\ backend # "copilot" /\ run[r].reader = "reading" /\ run[r].turn \notin {"gone", "failing"}
      /\ r = slot => Due(targets, First(run[r]), run[r].queue, tasks)
  BY <1>1, Known, ReadsKnown
<1>4. Script(Tail(run[r].pipe), run[r].text)
  BY <1>1, <1>3, ReadsKnown, ScriptTail DEF Sound
<1>5. CASE run[r].pending /\ ~Late(r)
  <2>. DEFINE t == IF kind = "stopped" THEN "responded" ELSE "waiting"
              m == [Rest(r) EXCEPT !.pending = FALSE, !.turn = t]
  <2>1. t \in Turns /\ t \in {"responded", "waiting"}
    BY Names
  <2>. HIDE DEF t
  <2>2. m \in Machines
    BY <1>3, <2>1 DEF Machines
  <2>3. /\ m.queue = run[r].queue /\ m.reader = "reading" /\ m.running = run[r].running
        /\ m.turn = t /\ m.at = run[r].at /\ m.took = run[r].took /\ m.boot = run[r].boot
        /\ m.pending = FALSE /\ m.pipe = Tail(run[r].pipe) /\ m.text = run[r].text
        /\ m.busy = run[r].busy
    BY <1>3, RestIs DEF Machines
  <2>4. run' = [run EXCEPT ![r] = m]
    BY <1>1, <1>5 DEF t
  <2>. HIDE DEF m
  <2>5. run[r].turn \notin {"idle", "gone"} /\ run[r].boot # "starting"
    BY <1>3, <1>5, UnderWay DEF Late
  <2>6. (Owes(m) <=> Owes(run[r])) /\ First(m) = First(run[r])
    BY <1>3, <2>1, <2>3, <2>5 DEF Owes, First
  <2>7. Sound(r, m)
    BY <1>3, <1>4, <2>1, <2>3, <2>5, <2>6 DEF Sound, Gathered
  <2>8. r = slot => Due(targets', First(m), m.queue, tasks)
    BY <1>2, <1>3, <2>3, <2>6
  <2>. QED
    BY <1>2, <2>2, <2>3, <2>4, <2>7, <2>8, Works
<1>6. CASE ~(run[r].pending /\ ~Late(r))
  <2>. DEFINE m == Rest(r)
  <2>1. /\ m.queue = run[r].queue /\ m.reader = run[r].reader /\ m.running = run[r].running
        /\ m.turn = run[r].turn /\ m.at = run[r].at /\ m.took = run[r].took /\ m.boot = run[r].boot
        /\ m.pending = run[r].pending /\ m.pipe = Tail(run[r].pipe) /\ m.text = run[r].text
        /\ m.busy = run[r].busy
    BY <1>3, RestIs
  <2>2. run' = [run EXCEPT ![r] = m] /\ m \in Machines
    BY <1>1, <1>3, <1>6
  <2>. HIDE DEF m
  <2>3. Sound(r, m) /\ First(m) = First(run[r])
    BY <1>3, <1>4, <2>1, Alike
  <2>4. r = slot => Due(targets', First(m), m.queue, tasks)
    BY <1>2, <1>3, <2>1, <2>3
  <2>. QED
    BY <1>2, <2>1, <2>2, <2>3, <2>4, Works
<1>. QED
  BY <1>5, <1>6

\* What is gathered is about the turn under way.
LEMMA GathersInLine ==
  ASSUME IInv, InLine, NEW r \in Runners, NEW kind, Reads(r, kind), ~Late(r),
         NEW text \in SUBSET Asks,
         \A x \in text : kind = "delta" /\ (x \in run[r].text \/ x = Line(r).prompt.to),
         run' = [run EXCEPT ![r] = [Rest(r) EXCEPT !.busy = TRUE, !.text = text]],
         UNCHANGED <<backend, slot, tasks, targets, told>>
  PROVE  InLine'
<1>. DEFINE m == [Rest(r) EXCEPT !.busy = TRUE, !.text = text]
<1>1. /\ run[r] \in Machines /\ Sound(r, run[r]) /\ Rest(r) \in Machines
      /\ backend # "copilot" /\ run[r].reader = "reading"
      /\ told.about \subseteq {told.to}
      /\ r = slot => Due(targets, First(run[r]), run[r].queue, tasks)
  BY Known, ReadsKnown
<1>2. Line(r).prompt = run[r].at /\ run[r].turn # "idle" /\ Line(r) = Head(run[r].pipe)
  BY DEF Late, Line
<1>3. text \subseteq {Line(r).prompt.to} \/ backend # "codex"
  BY <1>1, <1>2, ReadsKnown, ScriptEnds DEF Sound
<1>4. Script(Tail(run[r].pipe), text)
  BY <1>1, <1>2, <1>3, ReadsKnown, ScriptRest DEF Sound
<1>5. m \in Machines
  BY <1>1 DEF Machines
<1>6. /\ m.queue = run[r].queue /\ m.reader = "reading" /\ m.running = run[r].running
      /\ m.turn = run[r].turn /\ m.at = run[r].at /\ m.took = run[r].took /\ m.boot = run[r].boot
      /\ m.pending = run[r].pending /\ m.pipe = Tail(run[r].pipe) /\ m.text = text /\ m.busy
  BY <1>1, RestIs DEF Machines
<1>. HIDE DEF m
<1>7. (Owes(m) <=> Owes(run[r])) /\ First(m) = First(run[r])
  BY <1>6 DEF Owes, First
<1>8. backend = "acp" => text \subseteq {run[r].at.to}
  BY <1>1, <1>2 DEF Sound, Gathered
<1>9. Sound(r, m)
  BY <1>1, <1>2, <1>4, <1>6, <1>7, <1>8 DEF Sound, Gathered
<1>10. run' = [run EXCEPT ![r] = m]
  BY DEF m
<1>11. r = slot => Due(targets', First(m), m.queue, tasks)
  BY <1>1, <1>6, <1>7
<1>. QED
  BY <1>1, <1>5, <1>6, <1>9, <1>10, <1>11, Works

LEMMA ReadTextInLine == IInv /\ InLine /\ ~skewed' /\ ReadText => InLine'
<1>. SUFFICES ASSUME IInv, InLine, ~skewed', ReadText PROVE InLine'
  OBVIOUS
<1>1. UNCHANGED <<backend, slot, tasks, targets, told>>
  BY DEF ReadText
<1>2. PICK r \in Runners :
       /\ \/ /\ Reads(r, "started")
             /\ run' = [run EXCEPT ![r] = [Rest(r) EXCEPT !.busy = TRUE, !.text = {}]]
          \/ /\ Reads(r, "delta")
             /\ run' = [run EXCEPT ![r] = [Rest(r) EXCEPT !.busy = TRUE,
                                                          !.text = @ \cup {Line(r).prompt.to}]]
       /\ skewed' = (skewed \/ Late(r))
  BY DEF ReadText
<1>3. CASE /\ Reads(r, "started")
           /\ run' = [run EXCEPT ![r] = [Rest(r) EXCEPT !.busy = TRUE, !.text = {}]]
  <2>0. ~Late(r)
    BY <1>2
  <2>1. PICK text \in SUBSET Asks : text = {}
    OBVIOUS
  <2>2. run' = [run EXCEPT ![r] = [Rest(r) EXCEPT !.busy = TRUE, !.text = text]]
    BY <1>3, <2>1
  <2>3. /\ Reads(r, "started") /\ \A x \in text :
             "started" = "delta" /\ (x \in run[r].text \/ x = Line(r).prompt.to)
    BY <1>3, <2>1
  <2>. QED
    BY <1>1, <2>0, <2>2, <2>3, GathersInLine
<1>4. CASE /\ Reads(r, "delta")
           /\ run' = [run EXCEPT ![r] = [Rest(r) EXCEPT !.busy = TRUE,
                                                        !.text = @ \cup {Line(r).prompt.to}]]
  <2>1. run[r] \in Machines /\ Line(r) \in Messages /\ Rest(r) \in Machines
    BY <1>4, Known, ReadsKnown DEF Line
  <2>2. Rest(r).text = run[r].text /\ run[r].text \cup {Line(r).prompt.to} \in SUBSET Asks
    BY <2>1, RestIs DEF Machines, Messages, Prompts
  <2>3. PICK text \in SUBSET Asks : text = run[r].text \cup {Line(r).prompt.to}
    BY <2>2
  <2>4. [Rest(r) EXCEPT !.busy = TRUE, !.text = @ \cup {Line(r).prompt.to}]
          = [Rest(r) EXCEPT !.busy = TRUE, !.text = text]
    BY <2>1, <2>2, <2>3 DEF Machines
  <2>5. run' = [run EXCEPT ![r] = [Rest(r) EXCEPT !.busy = TRUE, !.text = text]]
    BY <1>4, <2>4
  <2>6. /\ Reads(r, "delta") /\ ~Late(r) /\ \A x \in text :
             "delta" = "delta" /\ (x \in run[r].text \/ x = Line(r).prompt.to)
    BY <1>2, <1>4, <2>3
  <2>. QED
    BY <1>1, <2>5, <2>6, GathersInLine
<1>. QED
  BY <1>2, <1>3, <1>4

\* An answer or an apology goes to the one whose turn it is.
LEMMA AnswersInLine ==
  ASSUME IInv, InLine, NEW r \in Runners, NEW kind, kind # "started", Reads(r, kind),
         ~Late(r), ~Spent(r),
         NEW about, Tells(about), Pops, about \subseteq {run[r].at.to},
         NEW m \in Machines, run' = [run EXCEPT ![r] = m], UNCHANGED <<backend, slot, tasks>>,
         m.queue = run[r].queue, m.reader \in {"reading", "relaying"}, m.running = run[r].running,
         m.turn = run[r].turn, m.at = run[r].at, m.took, m.boot = run[r].boot,
         m.pending = run[r].pending, m.pipe = Tail(run[r].pipe), m.text = run[r].text,
         m.reader = "reading" => backend = "codex"
  PROVE  InLine'
<1>1. /\ Sound(r, run[r]) /\ backend # "copilot" /\ run[r].turn \notin {"idle", "gone", "failing"}
  BY Known, ReadsKnown DEF Late
<1>2. Owes(run[r]) /\ ~Owes(m) /\ run[r].boot # "starting" /\ First(m) = <<>>
  BY <1>1, UnderWay DEF Owes, Spent, First
<1>3. r = slot /\ told'.about \subseteq {told'.to} /\ Due(targets', First(m), m.queue, tasks)
  BY <1>2, Served
<1>4. Script(m.pipe, m.text)
  BY <1>1, ReadsKnown, ScriptTail DEF Sound
<1>5. Sound(r, m)
  BY <1>1, <1>2, <1>4 DEF Sound, Gathered
<1>. QED
  BY <1>3, <1>5, Works

LEMMA ReadErrorInLine == IInv /\ InLine /\ ~skewed' /\ ReadError => InLine'
<1>. SUFFICES ASSUME IInv, InLine, ~skewed', ReadError PROVE InLine'
  OBVIOUS
<1>1. PICK r \in Runners :
       /\ Reads(r, "error")
       /\ run' = [run EXCEPT ![r] = [Rest(r) EXCEPT !.busy = FALSE, !.done = TRUE, !.took = TRUE]]
       /\ Apologises(run[r].at.to)
       /\ skewed' = (skewed \/ Late(r) \/ Spent(r))
  BY DEF ReadError
<1>. DEFINE m == [Rest(r) EXCEPT !.busy = FALSE, !.done = TRUE, !.took = TRUE]
<1>2. /\ run[r] \in Machines /\ Sound(r, run[r]) /\ Rest(r) \in Machines
      /\ backend # "copilot" /\ run[r].reader = "reading"
  BY <1>1, Known, ReadsKnown
<1>3. backend = "codex"
  BY <1>1, <1>2, ReadsKnown, ScriptEnds, BackendsAssumption DEF Sound, IInv, Inside
<1>4. m \in Machines
  BY <1>2 DEF Machines
<1>5. /\ m.queue = run[r].queue /\ m.reader = "reading" /\ m.running = run[r].running
      /\ m.turn = run[r].turn /\ m.at = run[r].at /\ m.took /\ m.boot = run[r].boot
      /\ m.pending = run[r].pending /\ m.pipe = Tail(run[r].pipe) /\ m.text = run[r].text
  BY <1>2, RestIs DEF Machines
<1>6. run' = [run EXCEPT ![r] = m]
  BY <1>1
<1>. HIDE DEF m
<1>7. PICK about : about = {run[r].at.to} /\ about \subseteq {run[r].at.to}
  OBVIOUS
<1>8. Tells(about) /\ Pops /\ ~Late(r) /\ ~Spent(r) /\ UNCHANGED <<backend, slot, tasks>>
  BY <1>1, <1>7 DEF Apologises, ReadError
<1>. QED
  BY <1>1, <1>3, <1>4, <1>5, <1>6, <1>7, <1>8, AnswersInLine

LEMMA ReadEndInLine == IInv /\ InLine /\ ~skewed' /\ ReadEnd => InLine'
<1>. SUFFICES ASSUME IInv, InLine, ~skewed', ReadEnd PROVE InLine'
  OBVIOUS
<1>1. PICK r \in Runners, kind \in {"completed", "stop"} :
       /\ Reads(r, kind)
       /\ IF run[r].text = {}
          THEN /\ run' = [run EXCEPT ![r] = [Rest(r) EXCEPT !.busy = FALSE, !.done = TRUE]]
               /\ skewed' = (skewed \/ Late(r))
               /\ UNCHANGED <<targets, told>>
          ELSE /\ run' = [run EXCEPT ![r] = [Rest(r) EXCEPT !.busy = FALSE, !.reader = "relaying",
                                                            !.took = TRUE]]
               /\ Relays(run[r].text)
               /\ skewed' = (skewed \/ Late(r) \/ Spent(r))
  BY DEF ReadEnd
<1>2. UNCHANGED <<backend, slot, tasks>>
  BY DEF ReadEnd
<1>3. /\ run[r] \in Machines /\ Sound(r, run[r]) /\ Rest(r) \in Machines
      /\ backend # "copilot" /\ run[r].reader = "reading" /\ Script(Tail(run[r].pipe), run[r].text)
      /\ told.about \subseteq {told.to}
      /\ r = slot => Due(targets, First(run[r]), run[r].queue, tasks)
  BY <1>1, Known, ReadsKnown, ScriptTail DEF Sound
<1>4. ~Late(r)
  BY <1>1
<1>5. CASE run[r].text = {}
  <2>. DEFINE m == [Rest(r) EXCEPT !.busy = FALSE, !.done = TRUE]
  <2>1. m \in Machines
    BY <1>3 DEF Machines
  <2>2. /\ m.queue = run[r].queue /\ m.reader = "reading" /\ m.running = run[r].running
        /\ m.turn = run[r].turn /\ m.at = run[r].at /\ m.took = run[r].took /\ m.boot = run[r].boot
        /\ m.pending = run[r].pending /\ m.pipe = Tail(run[r].pipe) /\ m.text = {}
    BY <1>3, <1>5, RestIs DEF Machines
  <2>3. run' = [run EXCEPT ![r] = m] /\ UNCHANGED <<targets, told>>
    BY <1>1, <1>5
  <2>. HIDE DEF m
  <2>4. (Owes(m) <=> Owes(run[r])) /\ First(m) = First(run[r])
    BY <2>2 DEF Owes, First
  <2>5. Sound(r, m)
    BY <1>3, <1>5, <2>2, <2>4 DEF Sound, Gathered
  <2>. QED
    BY <1>2, <1>3, <2>1, <2>2, <2>3, <2>4, <2>5, Works
<1>6. CASE run[r].text # {}
  <2>. DEFINE m == [Rest(r) EXCEPT !.busy = FALSE, !.reader = "relaying", !.took = TRUE]
  <2>1. m \in Machines
    BY <1>3, Names DEF Machines
  <2>2. /\ m.queue = run[r].queue /\ m.reader = "relaying" /\ m.running = run[r].running
        /\ m.turn = run[r].turn /\ m.at = run[r].at /\ m.took /\ m.boot = run[r].boot
        /\ m.pending = run[r].pending /\ m.pipe = Tail(run[r].pipe) /\ m.text = run[r].text
    BY <1>3, RestIs DEF Machines
  <2>3. run' = [run EXCEPT ![r] = m] /\ Tells(run[r].text) /\ Pops /\ ~Spent(r)
    BY <1>1, <1>6 DEF Relays
  <2>. HIDE DEF m
  <2>4. run[r].text \subseteq {run[r].at.to}
    <3>1. CASE backend = "codex"
      <4>1. Head(run[r].pipe).prompt = run[r].at /\ Head(run[r].pipe).kind \in {"completed", "stop"}
        BY <1>1, <1>4, ReadsKnown DEF Late, Line
      <4>2. run[r].text \subseteq {Head(run[r].pipe).prompt.to}
        BY <1>1, <1>3, <3>1, <4>1, ReadsKnown, ScriptEnds DEF Sound
      <4>. QED
        BY <4>1, <4>2
    <3>2. CASE backend = "acp"
      BY <1>3, <1>6, <3>2 DEF Sound, Gathered
    <3>. QED
      BY <1>3, <3>1, <3>2, BackendsAssumption DEF IInv, Inside
  <2>. QED
    BY <1>1, <1>2, <1>4, <2>1, <2>2, <2>3, <2>4, AnswersInLine
<1>. QED
  BY <1>5, <1>6

LEMMA RelayEndsInLine == IInv /\ InLine /\ RelayEnds => InLine'
<1>. SUFFICES ASSUME IInv, InLine, RelayEnds PROVE InLine'
  OBVIOUS
<1>1. PICK r \in Runners :
       /\ run[r].reader = "relaying"
       /\ run' = [run EXCEPT ![r].reader = "reading", ![r].text = {}, ![r].done = TRUE]
  BY DEF RelayEnds
<1>. DEFINE m == [run[r] EXCEPT !.reader = "reading", !.text = {}, !.done = TRUE]
<1>2. run[r] \in Machines /\ Sound(r, run[r])
  BY Known
<1>3. m \in Machines
  BY <1>2, Names DEF Machines
<1>4. /\ m.queue = run[r].queue /\ m.reader = "reading" /\ m.running = run[r].running
      /\ m.turn = run[r].turn /\ m.at = run[r].at /\ m.took = run[r].took /\ m.boot = run[r].boot
      /\ m.pending = run[r].pending /\ m.pipe = run[r].pipe /\ m.text = {}
  BY <1>2 DEF Machines
<1>5. run' = [run EXCEPT ![r] = m]
  BY <1>1 DEF IInv, Inside
<1>. HIDE DEF m
<1>6. (Owes(m) <=> Owes(run[r])) /\ First(m) = First(run[r])
  BY <1>4 DEF Owes, First
<1>7. Script(m.pipe, m.text)
  BY <1>2, <1>4 DEF Sound, Script
<1>8. Sound(r, m)
  BY <1>1, <1>2, <1>4, <1>6, <1>7 DEF Sound, Gathered
<1>9. told'.about \subseteq {told'.to} /\ (r = slot => Due(targets', First(m), m.queue, tasks))
  BY <1>4, <1>6, Known DEF RelayEnds
<1>. QED
  BY <1>3, <1>4, <1>5, <1>8, <1>9, Works DEF RelayEnds

-----------------------------------------------------------------------------
(* Runners that start and end stay in line. *)

\* The first target is that of the system prompt, ...
LEMMA DueFirst ==
  ASSUME NEW a \in Asks, NEW A, A = <<a>>, NEW q \in Seq(Prompts), NEW w \in Seq(Jobs),
         NoneOwed(q), ~Overtakes(w)
  PROVE  Due(A, A, q, w)
<1>1. PICK E \in Seq(Asks) : E = <<>>
  BY Empty
<1>2. Places(E, q) /\ Places(E, Waiting(w))
  BY <1>1, PlacesNone, WaitingType, WaitingNone
<1>3. A \in Seq(Asks) /\ A = A \o (E \o E)
  BY <1>1
<1>. QED
  BY <1>2, <1>3 DEF Due

LEMMA NoneEmpty == NoneOwed(<<>>)
BY DEF NoneOwed

\* ... which then waits in the queue, ...
LEMMA DueBooted ==
  ASSUME NEW T, NEW A, NEW q \in Seq(Prompts), NEW w, NoneOwed(q), Due(T, A, q, w),
         NEW p \in Prompts, p.owed, A = <<p.to>>, NEW Q, Q = <<p>>
  PROVE  Due(T, <<>>, Q, w)
<1>1. PICK B \in Seq(Asks), C \in Seq(Asks) :
        T = A \o (B \o C) /\ Places(B, q) /\ Places(C, Waiting(w))
  BY DEF Due
<1>2. B = <<>>
  BY <1>1, NothingPlaced
<1>3. PICK E \in Seq(Asks), e \in Seq(Prompts) : E = <<>> /\ e = <<>>
  BY Empty
<1>4. Places(E, e)
  BY <1>3, NoneEmpty, PlacesNone
<1>5. p.to \in Asks /\ Append(E, p.to) = A /\ Append(e, p) = Q
  BY <1>3 DEF Prompts
<1>6. A \in Seq(Asks) /\ Places(A, Q)
  <2>1. Append(E, p.to) \in Seq(Asks) /\ E \in Seq(Asks) /\ e \in Seq(Prompts)
    BY <1>3, <1>5, AppendProperties
  <2>2. Places(Append(E, p.to), Append(e, p))
    BY <1>4, <1>5, <2>1, PlacesOwed
  <2>. QED
    BY <1>5, <2>1, <2>2
<1>7. T = <<>> \o (A \o C)
  BY <1>1, <1>2, <1>6
<1>. QED
  BY <1>1, <1>6, <1>7 DEF Due

\* ... and the others begin with nothing.
LEMMA DueEmptied ==
  ASSUME NEW T, NEW q \in Seq(Prompts), NEW w, NoneOwed(q), Due(T, <<>>, q, w)
  PROVE  Due(T, <<>>, <<>>, w)
<1>1. PICK B \in Seq(Asks), C \in Seq(Asks) :
        T = <<>> \o (B \o C) /\ Places(B, q) /\ Places(C, Waiting(w))
  BY DEF Due
<1>2. B = <<>>
  BY <1>1, NothingPlaced
<1>3. Places(<<>>, <<>>)
  BY PlacesNone, Empty, NoneEmpty
<1>. QED
  BY <1>1, <1>2, <1>3 DEF Due

\* Nobody serves, so no task is under way that needs a runner.
LEMMA NoTasks ==
  ASSUME IInv, InLine, slot = 0 \/ ~run[slot].running
  PROVE  ~Overtakes(tasks) /\ \A i \in 1..Len(tasks) :
           tasks[i].kind # "put" /\ tasks[i].prompt.owed /\ tasks[i].prompt.to = NoTarget
<1>1. DOMAIN tasks = 1..Len(tasks)
  BY DEF IInv, Outside
<1>. QED
  BY <1>1 DEF InLine, Putting, Serves, Overtakes

\* The runner that was created last is the only one that may be starting, or be replaced.
LEMMA LatestIs ==
  ASSUME IInv, NEW n \in 0..MaxRunners, Latest(n), NEW r \in Runners,
         run[r].boot = "starting" \/ exit[r] = "restart"
  PROVE  r = n
<1>1. Course(run[r], exit[r])
  BY Runner
<1>2. run[r].boot # "no" /\ exit[r] # "over"
  BY <1>1 DEF Course, Dead
<1>. QED
  BY <1>2, RelayBoundsAssumption DEF Latest, Runners

\* A runner is created when nobody serves and nobody is owed an answer.
LEMMA StartingInLine ==
  ASSUME IInv, InLine, Starting, NEW n \in 0..MaxRunners, Latest(n), targets = <<>>,
         \A r \in Runners : ~run[r].running /\ ~Owes(run[r]),
         UNCHANGED <<backend, tasks, told>>
  PROVE  InLine'
<1>1. NewRunner = n + 1 /\ n + 1 \in Runners
  BY CreatedIs DEF Starting, Latest, NewRunner
<1>2. PICK s \in Runners : s = n + 1 /\ s # 0
  BY <1>1, RelayBoundsAssumption DEF Runners
<1>. DEFINE reader == IF backend = "copilot" THEN "off" ELSE "reading"
            m == [run[s] EXCEPT !.boot = "starting", !.process = TRUE, !.reader = reader]
<1>3. run' = [run EXCEPT ![s] = m] /\ slot' = s
  BY <1>1, <1>2 DEF Starting, IInv, Inside
<1>4. /\ run[s] \in Machines /\ Course(run[s], exit[s]) /\ Sound(s, run[s])
      /\ run[s].queue \in Seq(Prompts) /\ tasks \in Seq(Jobs) /\ told.about \subseteq {told.to}
      /\ run[s].boot = "no"
  BY <1>2, Known, RelayBoundsAssumption DEF Latest, Runners
<1>5. run[s].turn = "idle" /\ run[s].reader = "off" /\ ~run[s].running
  BY <1>4 DEF Course
<1>6. NoneOwed(run[s].queue) /\ (backend = "acp" => run[s].text = {})
  BY <1>4, <1>5 DEF Sound, Gathered
<1>7. /\ m.queue = run[s].queue /\ m.reader = reader /\ ~m.running /\ m.turn = "idle"
      /\ m.at = run[s].at /\ m.took = run[s].took /\ m.boot = "starting"
      /\ m.pending = run[s].pending /\ m.pipe = run[s].pipe /\ m.text = run[s].text
  BY <1>4, <1>5 DEF Machines
<1>8. run'[s] = m /\ \A r \in Runners : r # s => run'[r] = run[r]
  BY <1>3 DEF IInv, Inside
<1>9. reader \in {"off", "reading"}
  OBVIOUS
<1>. HIDE DEF m, reader
<1>10. ~Owes(m)
  BY <1>7 DEF Owes
<1>11. Sound(s, run[s])'
  BY <1>3, <1>4, <1>5, <1>6, <1>7, <1>8, <1>9 DEF Sound, Owes, Script, Gathered
<1>12. ASSUME NEW r \in Runners, r # s PROVE Sound(r, run[r])'
  <2>1. Sound(r, run[r]) /\ run'[r] = run[r]
    BY <1>8, <1>12, Known
  <2>. QED
    BY <2>1 DEF Sound, Owes, Script, Gathered
<1>13. ~Overtakes(tasks) /\ \A i \in 1..Len(tasks) :
         tasks[i].kind # "put" /\ tasks[i].prompt.owed /\ tasks[i].prompt.to = NoTarget
  BY NoTasks, SlotIs
<1>14. Putting(tasks)'
  BY <1>13 DEF Putting, Serves
<1>15. Due(targets', First(m), m.queue, tasks)
  <2>1. CASE backend = "acp"
    <3>1. PICK A : A = <<NoTarget>>
      OBVIOUS
    <3>2. First(m) = A /\ targets' = A
      BY <1>7, <1>10, <2>1, <3>1 DEF First, Starting
    <3>3. NoTarget \in Asks
      BY ZeroAsk DEF NoTarget
    <3>. QED
      BY <1>4, <1>6, <1>7, <1>13, <3>1, <3>2, <3>3, DueFirst
  <2>2. CASE backend # "acp"
    <3>1. First(m) = <<>> /\ targets' = <<>>
      BY <1>10, <2>2 DEF First, Starting
    <3>. QED
      BY <1>4, <1>6, <1>7, <1>13, <3>1, DueNothing
  <2>. QED
    BY <2>1, <2>2
<1>16. First(run[slot])' = First(m)
  BY <1>3, <1>8 DEF First, Owes
<1>. QED
  BY <1>2, <1>3, <1>4, <1>8, <1>11, <1>12, <1>14, <1>15, <1>16 DEF InLine

LEMMA StartInLine == IInv /\ InLine /\ Start => InLine'
<1>. SUFFICES ASSUME IInv, InLine, Start PROVE InLine'
  OBVIOUS
<1>1. PICK n \in 0..MaxRunners : Latest(n)
  BY DEF IInv, OnePending
<1>2. n = 0
  BY <1>1, CreatedIs, RelayBoundsAssumption DEF Start, NewRunner, Latest
<1>3. slot = 0 /\ targets = <<>>
  BY <1>1, <1>2 DEF Latest, InLine
<1>4. \A r \in Runners : ~run[r].running /\ ~Owes(run[r])
  BY <1>3, RelayBoundsAssumption DEF InLine, Sound, Runners
<1>. QED
  BY <1>1, <1>3, <1>4, StartingInLine DEF Start

LEMMA RestartInLine == IInv /\ InLine /\ Restart => InLine'
<1>. SUFFICES ASSUME IInv, InLine, Restart PROVE InLine'
  OBVIOUS
<1>1. PICK n \in 0..MaxRunners : Latest(n)
  BY DEF IInv, OnePending
<1>2. PICK r \in Runners : exit[r] = "restart" /\ run[r].turn # "failing"
  BY DEF Restart
<1>3. r = n /\ Course(run[r], exit[r]) /\ Sound(r, run[r])
  BY <1>1, <1>2, LatestIs, Known
<1>4. ~run[r].running /\ ~Owes(run[r]) /\ run[r].boot # "starting"
  BY <1>2, <1>3 DEF Course, Dead, Sound
<1>5. \A s \in Runners : ~run[s].running /\ ~Owes(run[s])
  BY <1>1, <1>3, <1>4, RelayBoundsAssumption DEF Latest, InLine, Sound, Runners
<1>6. CASE slot = 0
  BY <1>1, <1>5, <1>6, StartingInLine DEF Restart, InLine
<1>7. CASE slot = r
  <2>1. First(run[r]) = <<>> /\ NoneOwed(run[r].queue)
    BY <1>3, <1>4 DEF First, Sound
  <2>2. ~Overtakes(tasks)
    BY <1>4, <1>7, NoTasks
  <2>3. targets = <<>>
    BY <1>7, <2>1, <2>2, Known, AllDone
  <2>. QED
    BY <1>1, <1>5, <2>3, StartingInLine DEF Restart
<1>. QED
  BY <1>1, <1>3, <1>6, <1>7 DEF Latest

LEMMA BootedInLine == IInv /\ InLine /\ Booted => InLine'
<1>. SUFFICES ASSUME IInv, InLine, Booted PROVE InLine'
  OBVIOUS
<1>1. PICK r \in Runners, thread \in BOOLEAN :
        /\ run[r].boot = "starting" /\ run[r].process
        /\ run' = [run EXCEPT ![r].boot = "done", ![r].running = TRUE, ![r].thread = thread,
                              ![r].queue = IF backend = "acp" THEN <<SystemPrompt>> ELSE <<>>]
  BY DEF Booted
<1>2. UNCHANGED <<backend, slot, tasks, targets, told>>
  BY DEF Booted
<1>3. PICK n \in 0..MaxRunners : Latest(n)
  BY DEF IInv, OnePending
<1>4. r = n /\ r = slot
  BY <1>1, <1>3, LatestIs, RelayBoundsAssumption DEF Latest, Runners
<1>5. PICK Q \in Seq(Prompts) : Q = IF backend = "acp" THEN <<SystemPrompt>> ELSE <<>>
  BY SystemQueue
<1>. DEFINE m == [run[r] EXCEPT !.boot = "done", !.running = TRUE, !.thread = thread, !.queue = Q]
<1>6. /\ run[r] \in Machines /\ Course(run[r], exit[r]) /\ Sound(r, run[r])
      /\ run[r].queue \in Seq(Prompts) /\ told.about \subseteq {told.to}
      /\ Due(targets, First(run[r]), run[r].queue, tasks)
  BY <1>4, Known
<1>7. m \in Machines
  BY <1>6, Names DEF Machines
<1>8. /\ m.queue = Q /\ m.reader = run[r].reader /\ m.running /\ m.turn = run[r].turn
      /\ m.at = run[r].at /\ m.took = run[r].took /\ m.boot = "done"
      /\ m.pending = run[r].pending /\ m.pipe = run[r].pipe /\ m.text = run[r].text
      /\ m.busy = run[r].busy
  BY <1>6 DEF Machines
<1>9. run' = [run EXCEPT ![r] = m]
  BY <1>1, <1>5 DEF IInv, Inside
<1>. HIDE DEF m
<1>10. ~run[r].running /\ run[r].reader # "ended" /\ ~Owes(run[r])
  BY <1>1, <1>6 DEF Course, Sound, Owes
<1>11. ~Owes(m) /\ First(m) = <<>> /\ NoneOwed(run[r].queue)
  BY <1>6, <1>8, <1>10 DEF Owes, First, Sound
<1>12. Sound(r, m)
  BY <1>4, <1>6, <1>8, <1>10, <1>11 DEF Sound, Gathered
<1>13. ~Overtakes(tasks)
  BY <1>4, <1>10, NoTasks
<1>14. Due(targets, First(m), m.queue, tasks)
  <2>1. CASE backend = "acp"
    <3>1. PICK A : A = <<NoTarget>>
      OBVIOUS
    <3>2. First(run[r]) = A
      BY <1>1, <1>10, <2>1, <3>1 DEF First
    <3>3. NoTarget \in Asks
      BY ZeroAsk DEF NoTarget
    <3>4. PICK p \in Prompts : p = SystemPrompt /\ p.owed /\ p.to = NoTarget
      BY <3>3, PromptType, ZeroAsk DEF SystemPrompt, Prompt
    <3>5. Q = <<p>> /\ A = <<p.to>> /\ Due(targets, A, run[r].queue, tasks)
      BY <1>5, <1>6, <2>1, <3>1, <3>2, <3>4
    <3>. QED
      BY <1>6, <1>8, <1>11, <3>4, <3>5, DueBooted
  <2>2. CASE backend # "acp"
    <3>1. First(run[r]) = <<>> /\ Q = <<>>
      BY <1>5, <1>10, <2>2 DEF First
    <3>. QED
      BY <1>6, <1>8, <1>11, <3>1, DueEmptied
  <2>. QED
    BY <2>1, <2>2
<1>. QED
  BY <1>2, <1>6, <1>7, <1>9, <1>12, <1>13, <1>14, Works

\* A runner that is like it was in all that counts.
LEMMA AlikeInLine ==
  ASSUME IInv, InLine, NEW r \in Runners, NEW m \in Machines, run' = [run EXCEPT ![r] = m],
         UNCHANGED <<backend, slot, tasks, targets, told>>, Sound(r, m),
         First(m) = First(run[r]), m.queue = run[r].queue, m.running = run[r].running
  PROVE  InLine'
<1>1. told'.about \subseteq {told'.to} /\ (r = slot => Due(targets', First(m), m.queue, tasks))
  BY Known
<1>. QED
  BY <1>1, Works

LEMMA StartFailsInLine == IInv /\ InLine /\ StartFails => InLine'
<1>. SUFFICES ASSUME IInv, InLine, StartFails PROVE InLine'
  OBVIOUS
<1>1. PICK r \in Runners :
        /\ run[r].boot = "starting"
        /\ run' = [run EXCEPT ![r].boot = "failed", ![r].process = @ /\ backend = "codex"]
  BY DEF StartFails
<1>. DEFINE process == run[r].process /\ backend = "codex"
            m == [run[r] EXCEPT !.boot = "failed", !.process = process]
<1>2. run[r] \in Machines /\ Sound(r, run[r]) /\ process \in BOOLEAN
  BY Known
<1>3. run' = [run EXCEPT ![r] = m]
  BY <1>1 DEF IInv, Inside
<1>. HIDE DEF process
<1>4. m \in Machines
  BY <1>2, Names DEF Machines
<1>5. /\ m.queue = run[r].queue /\ m.reader = run[r].reader /\ m.running = run[r].running
      /\ m.turn = run[r].turn /\ m.at = run[r].at /\ m.took = run[r].took /\ m.boot = "failed"
      /\ m.pending = run[r].pending /\ m.pipe = run[r].pipe /\ m.text = run[r].text
      /\ m.busy = run[r].busy
  BY <1>2 DEF Machines
<1>. HIDE DEF m
<1>6. (Owes(m) <=> Owes(run[r])) /\ First(m) = First(run[r]) /\ (Gathered(m) <=> Gathered(run[r]))
  BY <1>5 DEF Owes, First, Gathered, StartFails
<1>7. Sound(r, m)
  BY <1>2, <1>5, <1>6 DEF Sound
<1>. QED
  BY <1>3, <1>4, <1>5, <1>6, <1>7, AlikeInLine DEF StartFails

LEMMA DieInLine == IInv /\ InLine /\ Die => InLine'
<1>. SUFFICES ASSUME IInv, InLine, Die PROVE InLine'
  OBVIOUS
<1>0. PICK r \in Runners : \E k \in 0..Len(run[r].pipe) :
        run' = [run EXCEPT ![r].process = FALSE, ![r].todo = <<>>, ![r].pipe = SubSeq(@, 1, k)]
  BY DEF Die
<1>1. PICK k \in 0..Len(run[r].pipe) :
        run' = [run EXCEPT ![r].process = FALSE, ![r].todo = <<>>, ![r].pipe = SubSeq(@, 1, k)]
  BY <1>0
<1>. DEFINE pipe == SubSeq(run[r].pipe, 1, k)
            m == [run[r] EXCEPT !.process = FALSE, !.todo = <<>>, !.pipe = pipe]
<1>2. run[r] \in Machines /\ Sound(r, run[r]) /\ run[r].pipe \in Seq(Messages)
  BY Known
<1>3. run' = [run EXCEPT ![r] = m]
  BY <1>1 DEF IInv, Inside
<1>4. Script(pipe, run[r].text)
  BY <1>2, ScriptCut DEF Sound
<1>5. pipe \in Seq(Messages) /\ <<>> \in Seq(Messages)
  BY <1>2, Empty
<1>. HIDE DEF pipe
<1>6. m \in Machines
  BY <1>2, <1>5 DEF Machines
<1>7. /\ m.queue = run[r].queue /\ m.reader = run[r].reader /\ m.running = run[r].running
      /\ m.turn = run[r].turn /\ m.at = run[r].at /\ m.took = run[r].took /\ m.boot = run[r].boot
      /\ m.pending = run[r].pending /\ m.pipe = pipe /\ m.text = run[r].text
      /\ m.busy = run[r].busy
  BY <1>2 DEF Machines
<1>. HIDE DEF m
<1>8. Sound(r, m) /\ First(m) = First(run[r])
  <2>1. Script(m.pipe, m.text)
    BY <1>4, <1>7
  <2>. QED
    BY <1>2, <1>7, <2>1, Alike
<1>. QED
  BY <1>3, <1>6, <1>7, <1>8, AlikeInLine DEF Die

LEMMA WorkInLine == IInv /\ InLine /\ Work => InLine'
<1>. SUFFICES ASSUME IInv, InLine, Work PROVE InLine'
  OBVIOUS
<1>1. PICK r \in Runners, script \in Scripts :
        /\ run[r].pipe = <<>> /\ run[r].todo # <<>>
        /\ LET job == Head(run[r].todo) IN
           run' = [run EXCEPT ![r].todo = Tail(@),
                              ![r].pipe = @ \o [i \in DOMAIN script |->
                                                  Message(script[i], job.prompt, job.try)]]
  BY DEF Work
<1>. DEFINE job == Head(run[r].todo)
            new == [i \in DOMAIN script |-> Message(script[i], job.prompt, job.try)]
            pipe == <<>> \o new
            todo == Tail(run[r].todo)
            m == [run[r] EXCEPT !.todo = todo, !.pipe = pipe]
<1>2. run[r] \in Machines /\ Sound(r, run[r])
  BY Known
<1>3. run' = [run EXCEPT ![r] = m]
  BY <1>1 DEF IInv, Inside
<1>4. Script(pipe, run[r].text)
  BY ScriptNew
<1>5. run' \in [Runners -> Machines]
  BY WorkStep DEF IInv, Inside
<1>6. m = run'[r]
  BY <1>3 DEF IInv, Inside
<1>7. m \in Machines
  BY <1>5, <1>6
<1>. HIDE DEF pipe, todo
<1>8. /\ m.queue = run[r].queue /\ m.reader = run[r].reader /\ m.running = run[r].running
      /\ m.turn = run[r].turn /\ m.at = run[r].at /\ m.took = run[r].took /\ m.boot = run[r].boot
      /\ m.pending = run[r].pending /\ m.pipe = pipe /\ m.text = run[r].text
      /\ m.busy = run[r].busy
  BY <1>2 DEF Machines
<1>. HIDE DEF m
<1>9. Sound(r, m) /\ First(m) = First(run[r])
  BY <1>2, <1>4, <1>8, Alike
<1>. QED
  BY <1>3, <1>7, <1>8, <1>9, AlikeInLine DEF Work

LEMMA OnExitInLine == IInv /\ InLine /\ OnExit => InLine'
BY Unmoved DEF OnExit

LEMMA CleanupInLine == IInv /\ InLine /\ ~skewed' /\ Cleanup => InLine'
<1>. SUFFICES ASSUME IInv, InLine, ~skewed', Cleanup PROVE InLine'
  OBVIOUS
<1>1. PICK r \in Runners :
       /\ run[r].reader = "reading" /\ run[r].pipe = <<>>
       /\ run' = [run EXCEPT
                   ![r].reader = "ended", ![r].running = FALSE, ![r].pending = FALSE,
                   ![r].turn = IF backend = "acp" THEN "gone"
                               ELSE IF run[r].pending THEN "failing" ELSE @]
       /\ targets = <<>> \/ OnlyPending(r)
  BY DEF Cleanup
<1>2. UNCHANGED <<backend, slot, tasks, targets, told>>
  BY DEF Cleanup
<1>. DEFINE turn == IF backend = "acp" THEN "gone"
                    ELSE IF run[r].pending THEN "failing" ELSE run[r].turn
            m == [run[r] EXCEPT !.reader = "ended", !.running = FALSE, !.pending = FALSE, !.turn = turn]
<1>3. /\ run[r] \in Machines /\ Sound(r, run[r]) /\ Course(run[r], exit[r])
      /\ run[r].queue \in Seq(Prompts) /\ tasks \in Seq(Jobs) /\ told.about \subseteq {told.to}
      /\ r = slot => Due(targets, First(run[r]), run[r].queue, tasks)
  BY Known
<1>4. turn \in Turns
  BY <1>3, Names DEF Machines
<1>5. run' = [run EXCEPT ![r] = m]
  BY <1>1 DEF IInv, Inside
<1>6. backend \in {"codex", "acp"}
  BY <1>1, <1>3, BackendsAssumption DEF Course, IInv, Inside
<1>7. /\ turn # "idle" => backend = "acp" \/ run[r].turn # "idle"
      /\ backend = "acp" => turn = "gone"
      /\ backend = "codex" /\ run[r].pending => run[r].turn = "asked" /\ turn = "failing"
      /\ backend = "codex" /\ ~run[r].pending => turn = run[r].turn
  BY <1>3, <1>6 DEF Sound
<1>. HIDE DEF turn
<1>8. m \in Machines
  BY <1>3, <1>4, Names DEF Machines
<1>9. /\ m.queue = run[r].queue /\ m.reader = "ended" /\ m.running = FALSE /\ m.turn = turn
      /\ m.at = run[r].at /\ m.took = run[r].took /\ m.boot = run[r].boot
      /\ m.pending = FALSE /\ m.pipe = run[r].pipe /\ m.text = run[r].text /\ m.busy = run[r].busy
  BY <1>3 DEF Machines
<1>. HIDE DEF m
<1>10. Owes(m) => Owes(run[r])
  BY <1>6, <1>7, <1>9 DEF Owes
\* Nothing is lost with the queue.
<1>11. /\ m.running = run[r].running \/ ~Overtakes(tasks)
       /\ NoneOwed(m.queue)
       /\ Owes(m) => r = slot /\ m.turn = "failing"
       /\ r = slot => Due(targets, First(m), m.queue, tasks)
  <2>1. CASE r # slot
    BY <1>3, <1>9, <1>10, <2>1 DEF Sound, Machines
  <2>2. CASE r = slot /\ targets = <<>>
    <3>1. First(run[r]) = <<>> /\ NoneOwed(run[r].queue) /\ ~Overtakes(tasks)
      BY <1>3, <2>2, NothingDue, FirstType
    <3>2. ~Owes(run[r]) /\ ~(backend = "acp" /\ run[r].boot = "starting")
      BY <3>1 DEF First
    <3>3. ~Owes(m) /\ First(m) = <<>>
      BY <1>9, <1>10, <3>2 DEF First
    <3>. QED
      BY <1>3, <1>9, <2>2, <3>1, <3>3, DueNothing
  <2>3. CASE r = slot /\ OnlyPending(r)
    <3>1. /\ backend = "codex" /\ run[r].pending /\ Len(targets) = 1
          /\ run[r].queue = <<>> /\ tasks = <<>>
      BY <2>3 DEF OnlyPending
    <3>2. NoneOwed(run[r].queue) /\ ~Overtakes(tasks)
      BY <3>1 DEF NoneOwed, Overtakes
    <3>3. First(run[r]) # <<>>
      <4>1. SUFFICES ASSUME First(run[r]) = <<>> PROVE FALSE
        OBVIOUS
      <4>2. Due(targets, <<>>, run[r].queue, tasks)
        BY <1>3, <2>3, <4>1
      <4>3. targets = <<>>
        BY <1>3, <3>2, <4>2, AllDone
      <4>. QED
        BY <3>1, <4>3
    <3>4. Owes(run[r])
      BY <3>1, <3>3 DEF First
    <3>5. Owes(m) /\ m.turn = "failing"
      BY <1>7, <1>9, <3>1, <3>4 DEF Owes
    <3>6. First(m) = First(run[r])
      BY <1>9, <3>4, <3>5 DEF First
    <3>. QED
      BY <1>3, <1>9, <2>3, <3>2, <3>5, <3>6
  <2>. QED
    BY <1>1, <2>1, <2>2, <2>3
<1>12. m.boot = "starting" => m.turn \in {"idle", "gone"}
  BY <1>3, <1>6, <1>7, <1>9 DEF Sound
<1>13. Gathered(m) /\ Script(m.pipe, m.text)
  BY <1>1, <1>3, <1>7, <1>9 DEF Gathered, Sound
<1>14. m.turn = "relaying" => m.took
  BY <1>3, <1>6, <1>7, <1>9 DEF Sound
<1>15. Sound(r, m)
  BY <1>9, <1>11, <1>12, <1>13, <1>14 DEF Sound
<1>. QED
  BY <1>2, <1>3, <1>5, <1>8, <1>11, <1>15, Works

LEMMA InitStepped == Init => Stepped
<1>. SUFFICES ASSUME Init PROVE InLine
  BY DEF Stepped
<1>1. \A r \in Runners : Sound(r, Idle)
  BY ScriptNone, NoneEmpty DEF Idle, Sound, Owes, Gathered, NoPrompt, Prompt
<1>. QED
  BY <1>1 DEF Init, InLine, Putting

LEMMA NextStepped == IInv /\ Stepped /\ [Next]_vars => Stepped'
<1>. SUFFICES ASSUME IInv, Stepped, [Next]_vars, ~skewed' PROVE InLine'
  BY DEF Stepped
<1>1. InLine
  <2>1. ~skewed
    BY DEF Next, Lifecycle, Requests, PromptLoop, Reader, Start, Booted, BootedLate, StartFails,
           AcpStartFails, Die, Cleanup, OnExit, Restart, Mention, Invite, Query, Command, RunTask,
           Work, Take, TakeInVain, TakeWithoutThread, Timeout, Retry, GiveUp, RequestFailed,
           TurnEnds, FlushResult, FlushResultEnds, CopilotAnswers, CopilotFails, CopilotExits,
           ReadResponse, ReadText, ReadEnd, RelayEnds, ReadError, EndsSilent, EndsInError, vars
  <2>. QED
    BY <2>1 DEF Stepped
<1>2. CASE Lifecycle
  <2>1. ~BootedLate /\ ~AcpStartFails
    BY DEF BootedLate, AcpStartFails
  <2>. QED
    BY <1>1, <1>2, <2>1, StartInLine, BootedInLine, StartFailsInLine, DieInLine, CleanupInLine,
       OnExitInLine, RestartInLine DEF Lifecycle
<1>3. CASE Requests
  BY <1>1, <1>3, MentionInLine, InviteInLine, QueryInLine, CommandInLine, RunTaskInLine
     DEF Requests
<1>4. CASE Work
  BY <1>1, <1>4, WorkInLine
<1>5. CASE PromptLoop
  <2>1. ~TakeWithoutThread
    BY DEF TakeWithoutThread
  <2>. QED
    BY <1>1, <1>5, <2>1, TakeInLine, TakeInVainInLine, TimeoutInLine, RetryInLine, GiveUpInLine,
       RequestFailedInLine, TurnEndsInLine, FlushResultInLine, FlushResultEndsInLine,
       CopilotAnswersInLine, CopilotFailsInLine, CopilotExitsInLine DEF PromptLoop
<1>6. CASE Reader
  BY <1>1, <1>6, ReadResponseInLine, ReadTextInLine, ReadEndInLine, RelayEndsInLine,
     ReadErrorInLine DEF Reader
<1>7. CASE UNCHANGED vars
  BY <1>1, <1>7, Unmoved DEF vars
<1>. QED
  BY <1>2, <1>3, <1>4, <1>5, <1>6, <1>7 DEF Next

-----------------------------------------------------------------------------
(* The theorems. *)

\* The variables of the runners and of their daemon have values of their types.
THEOREM TypeCorrect == Spec => []TypeOK
BY Invariance, IInvGives, PTL

\* A runner that serves prompts with a live program is the daemon's own, so that there is
\* one at most, whatever ends, failed starts and restarts have crossed
\* (daemon._delayed_restart, agent_runner.start).
THEOREM OneServes == Spec => []OneServing
BY Invariance, IInvGives, PTL

\* Every answer and every apology goes to the one whose prompt it is about, and no target is
\* left over when nothing is under way, unless one of the steps that set `skewed' has
\* happened (daemon._mention_targets, _on_mention: "FIFO matches prompt queue order").
THEOREM AnswersInStep == Spec => []InStep
<1>1. Spec => []Stepped
  BY Invariance, InitStepped, NextStepped, PTL DEF Spec
<1>. QED
  BY <1>1, Invariance, InStepIsSo, PTL

=============================================================================
