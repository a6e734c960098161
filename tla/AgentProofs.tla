----------------------------- MODULE AgentProofs ----------------------------
(***************************************************************************)
(* Proofs about the process of an agent: about its daemon (AgentDaemon),   *)
(* for any number of crashes that open the circuit, with and without a     *)
(* stop event, and for any bounds; and about its IRC transport, its        *)
(* buffers and its session at the server (Transport), for any finite set   *)
(* of channels, any limits of readers and any bounds.  The two modules     *)
(* share no variable: neither knows the other's state.                     *)
(***************************************************************************)
EXTENDS AgentDaemon, Transport, FiniteSetTheorems, SequenceTheorems, TLAPS

-----------------------------------------------------------------------------
(* The daemon.                                                               *)

USE DEF Runners

\* Nothing has happened before the first runner is created.
Early == phase \in {"off", "connecting"} =>
           /\ crashes.recent = 0
           /\ \A r \in Runners : run[r] = "none" /\ exit[r] = "none"

\* The end of a runner is handled once its task is over, or within it.
Ends == \A r \in Runners :
          /\ exit[r] # "none" => run[r] \in {"exiting", "over"}
          /\ run[r] = "exiting" => exit[r] \in {"logging", "counted", "notifying"}

\* A runner counts for as long as it lives or may still be replaced.
Pending(r) == Live(r) \/ exit[r] \in {"logging", "counted", "delayed"}
OnePending == \A q, r \in Runners : Pending(q) /\ Pending(r) => q = r

\* A restart that waits was scheduled below the limit, and crashes only age.
Calm == \A r \in Runners : exit[r] = "delayed" => crashes.recent < MaxCrash

\* The inductive invariant.
Inv == TypeOK /\ Early /\ Ends /\ OnePending /\ Calm

\* Every step keeps the types.
LEMMA TypeStep == TypeOK /\ [Next]_vars => TypeOK'
<1> SUFFICES ASSUME TypeOK, [Next]_vars
             PROVE  TypeOK'
  BY DEF Inv
<1> USE MaxRunnersAssumption DEF TypeOK, flags, record, session
<1>1. CASE Connect
  BY <1>1 DEF Connect
<1>2. CASE Launch
  BY <1>2 DEF Launch, NewRunner
<1>3. CASE Launched
  BY <1>3 DEF Launched
<1>4. CASE Shutdown
  BY <1>4 DEF Shutdown
<1>5. CASE StopRunner
  <2>1. queue' = [q \in Runners |-> IF q = slot THEN queue[q] + 1 ELSE queue[q]]
    BY <1>5 DEF StopRunner
  <2>2. queue' \in [Runners -> Nat]
    BY <2>1
  <2>3. stopping' \in [Runners -> BOOLEAN]
    BY <1>5 DEF StopRunner
  <2>4. phase' \in {"joining", "draining"} /\ slot' \in 0..MaxRunners
    BY <1>5 DEF StopRunner
  <2> QED
    BY <1>5, <2>2, <2>3, <2>4 DEF StopRunner
<1>6. CASE RunnerStopped
  BY <1>6 DEF RunnerStopped, Running, Live
<1>7. CASE CancelRunner
  BY <1>7 DEF CancelRunner, Running, Live
<1>8. CASE Sweep
  BY <1>8 DEF Sweep
<1>9. CASE Close
  BY <1>9 DEF Close
<1>10. CASE Mention
  BY <1>10 DEF Mention, Prompt, Running, Live
<1>11. CASE Command
  BY <1>11 DEF Command, Prompt, Running, Live
<1>12. CASE Pause
  BY <1>12 DEF Pause, SetPaused
<1>13. CASE Resume
  BY <1>13 DEF Resume, SetPaused, Rearm, Running, Live
<1>14. CASE Clock
  BY <1>14 DEF Clock
<1>15. CASE Scheduler
  BY <1>15 DEF Scheduler, SetPaused, Rearm, Running, Live
<1>16. CASE WatchdogEnds
  BY <1>16 DEF WatchdogEnds, Running, Live
<1>17. CASE Age
  BY <1>17 DEF Age
<1>18. ASSUME NEW r \in Runners, Take(r) PROVE TypeOK'
  BY <1>18 DEF Take
<1>19. ASSUME NEW r \in Runners, Wake(r) PROVE TypeOK'
  BY <1>19 DEF Wake
<1>20. ASSUME NEW r \in Runners, TurnEnds(r) PROVE TypeOK'
  <2>1. run' \in [Runners -> {"none", "waiting", "held", "woken", "turn",
                             "exiting", "leaving", "over"}]
    BY <1>20 DEF TurnEnds
  <2>2. queue' \in [Runners -> Nat]
    BY <1>20 DEF TurnEnds, Running, Live
  <2>. QED BY <1>20, <2>1, <2>2 DEF TurnEnds
<1>21. ASSUME NEW r \in Runners, Leave(r) PROVE TypeOK'
  BY <1>21 DEF Leave
<1>22. ASSUME NEW r \in Runners, TurnFails(r) PROVE TypeOK'
  BY <1>22 DEF TurnFails
<1>23. ASSUME NEW r \in Runners, TurnEscapes(r) PROVE TypeOK'
  BY <1>23 DEF TurnEscapes
<1>24. ASSUME NEW r \in Runners, Count(r) PROVE TypeOK'
  BY <1>24 DEF Count
<1>25. ASSUME NEW r \in Runners, Evaluate(r) PROVE TypeOK'
  BY <1>25 DEF Evaluate, Finish, Spiraling
<1>26. ASSUME NEW r \in Runners, Notified(r) PROVE TypeOK'
  BY <1>26 DEF Notified, Finish
<1>27. ASSUME NEW r \in Runners, Restart(r) PROVE TypeOK'
  <2>1. CASE ~circuit /\ transport
    <3>1. PICK q \in Runners : NewRunner(q)
      BY <1>27, <2>1 DEF Restart
    <3> QED
      BY <1>27, <2>1, <3>1 DEF Restart, NewRunner
  <2>2. CASE ~(~circuit /\ transport)
    BY <1>27, <2>2 DEF Restart
  <2> QED
    BY <2>1, <2>2
<1>28. ASSUME NEW r \in Runners, Restarted(r) PROVE TypeOK'
  BY <1>28 DEF Restarted
<1>29. CASE UNCHANGED vars
  BY <1>29 DEF vars
<1> QED
  BY <1>1, <1>2, <1>3, <1>4, <1>5, <1>6, <1>7, <1>8, <1>9, <1>10, <1>11, <1>12, <1>13, <1>14, <1>15, <1>16, <1>17, <1>18, <1>19, <1>20, <1>21, <1>22, <1>23, <1>24, <1>25, <1>26, <1>27, <1>28, <1>29 DEF Next, Start, Stop, RunnerStep, ExitStep

\* Nothing but Launch leaves the early phases.
LEMMA EarlyStep == TypeOK /\ Early /\ [Next]_vars => Early'
<1> SUFFICES ASSUME TypeOK, Early, [Next]_vars
             PROVE  Early'
  BY DEF Inv
<1> USE MaxRunnersAssumption DEF TypeOK, Early, Live, Running, Serving, flags, record, session
<1>1. CASE Connect
  BY <1>1 DEF Connect
<1>2. CASE Launch
  BY <1>2 DEF Launch, NewRunner
<1>3. CASE Launched
  BY <1>3 DEF Launched
<1>4. CASE Shutdown
  BY <1>4 DEF Shutdown
<1>5. CASE StopRunner
  BY <1>5 DEF StopRunner, Running, Live
<1>6. CASE RunnerStopped
  BY <1>6 DEF RunnerStopped, Running, Live
<1>7. CASE CancelRunner
  BY <1>7 DEF CancelRunner, Running, Live
<1>8. CASE Sweep
  BY <1>8 DEF Sweep
<1>9. CASE Close
  BY <1>9 DEF Close
<1>10. CASE Mention
  BY <1>10 DEF Mention, Prompt, Running, Live
<1>11. CASE Command
  BY <1>11 DEF Command, Prompt, Running, Live
<1>12. CASE Pause
  BY <1>12 DEF Pause, SetPaused
<1>13. CASE Resume
  BY <1>13 DEF Resume, SetPaused, Rearm, Running, Live
<1>14. CASE Clock
  BY <1>14 DEF Clock
<1>15. CASE Scheduler
  BY <1>15 DEF Scheduler, SetPaused, Rearm, Running, Live
<1>16. CASE WatchdogEnds
  BY <1>16 DEF WatchdogEnds, Running, Live
<1>17. CASE Age
  BY <1>17 DEF Age
<1>18. ASSUME NEW r \in Runners, Take(r) PROVE Early'
  BY <1>18 DEF Take
<1>19. ASSUME NEW r \in Runners, Wake(r) PROVE Early'
  BY <1>19 DEF Wake
<1>20. ASSUME NEW r \in Runners, TurnEnds(r) PROVE Early'
  BY <1>20 DEF TurnEnds, Running, Live
<1>21. ASSUME NEW r \in Runners, Leave(r) PROVE Early'
  BY <1>21 DEF Leave
<1>22. ASSUME NEW r \in Runners, TurnFails(r) PROVE Early'
  BY <1>22 DEF TurnFails
<1>23. ASSUME NEW r \in Runners, TurnEscapes(r) PROVE Early'
  BY <1>23 DEF TurnEscapes
<1>24. ASSUME NEW r \in Runners, Count(r) PROVE Early'
  BY <1>24 DEF Count
<1>25. ASSUME NEW r \in Runners, Evaluate(r) PROVE Early'
  BY <1>25 DEF Evaluate, Finish, Spiraling
<1>26. ASSUME NEW r \in Runners, Notified(r) PROVE Early'
  BY <1>26 DEF Notified, Finish
<1>27. ASSUME NEW r \in Runners, Restart(r) PROVE Early'
  BY <1>27 DEF Restart, NewRunner
<1>28. ASSUME NEW r \in Runners, Restarted(r) PROVE Early'
  BY <1>28 DEF Restarted
<1>29. CASE UNCHANGED vars
  BY <1>29 DEF vars
<1> QED
  BY <1>1, <1>2, <1>3, <1>4, <1>5, <1>6, <1>7, <1>8, <1>9, <1>10, <1>11, <1>12, <1>13, <1>14, <1>15, <1>16, <1>17, <1>18, <1>19, <1>20, <1>21, <1>22, <1>23, <1>24, <1>25, <1>26, <1>27, <1>28, <1>29 DEF Next, Start, Stop, RunnerStep, ExitStep

\* Handling an end goes with the state of the task.
LEMMA EndsStep == Inv /\ [Next]_vars => Ends'
<1> SUFFICES ASSUME TypeOK, Early, Ends, [Next]_vars
             PROVE  Ends'
  BY DEF Inv
<1> USE MaxRunnersAssumption DEF TypeOK, Early, Ends, flags, record, session
<1>1. CASE Connect
  BY <1>1 DEF Connect
<1>2. CASE Launch
  BY <1>2 DEF Launch, NewRunner
<1>3. CASE Launched
  BY <1>3 DEF Launched
<1>4. CASE Shutdown
  BY <1>4 DEF Shutdown
<1>5. CASE StopRunner
  BY <1>5 DEF StopRunner, Running, Live
<1>6. CASE RunnerStopped
  BY <1>6 DEF RunnerStopped, Running, Live
<1>7. CASE CancelRunner
  BY <1>7 DEF CancelRunner, Running, Live
<1>8. CASE Sweep
  BY <1>8 DEF Sweep
<1>9. CASE Close
  BY <1>9 DEF Close
<1>10. CASE Mention
  BY <1>10 DEF Mention, Prompt, Running, Live
<1>11. CASE Command
  BY <1>11 DEF Command, Prompt, Running, Live
<1>12. CASE Pause
  BY <1>12 DEF Pause, SetPaused
<1>13. CASE Resume
  BY <1>13 DEF Resume, SetPaused, Rearm, Running, Live
<1>14. CASE Clock
  BY <1>14 DEF Clock
<1>15. CASE Scheduler
  BY <1>15 DEF Scheduler, SetPaused, Rearm, Running, Live
<1>16. CASE WatchdogEnds
  BY <1>16 DEF WatchdogEnds, Running, Live
<1>17. CASE Age
  BY <1>17 DEF Age
<1>18. ASSUME NEW r \in Runners, Take(r) PROVE Ends'
  BY <1>18 DEF Take
<1>19. ASSUME NEW r \in Runners, Wake(r) PROVE Ends'
  BY <1>19 DEF Wake
<1>20. ASSUME NEW r \in Runners, TurnEnds(r) PROVE Ends'
  BY <1>20 DEF TurnEnds, Running, Live
<1>21. ASSUME NEW r \in Runners, Leave(r) PROVE Ends'
  BY <1>21 DEF Leave
<1>22. ASSUME NEW r \in Runners, TurnFails(r) PROVE Ends'
  BY <1>22 DEF TurnFails
<1>23. ASSUME NEW r \in Runners, TurnEscapes(r) PROVE Ends'
  BY <1>23 DEF TurnEscapes
<1>24. ASSUME NEW r \in Runners, Count(r) PROVE Ends'
  BY <1>24 DEF Count
<1>25. ASSUME NEW r \in Runners, Evaluate(r) PROVE Ends'
  BY <1>25 DEF Evaluate, Finish, Spiraling
<1>26. ASSUME NEW r \in Runners, Notified(r) PROVE Ends'
  BY <1>26 DEF Notified, Finish
<1>27. ASSUME NEW r \in Runners, Restart(r) PROVE Ends'
  BY <1>27 DEF Restart, NewRunner
<1>28. ASSUME NEW r \in Runners, Restarted(r) PROVE Ends'
  BY <1>28 DEF Restarted
<1>29. CASE UNCHANGED vars
  BY <1>29 DEF vars
<1> QED
  BY <1>1, <1>2, <1>3, <1>4, <1>5, <1>6, <1>7, <1>8, <1>9, <1>10, <1>11, <1>12, <1>13, <1>14, <1>15, <1>16, <1>17, <1>18, <1>19, <1>20, <1>21, <1>22, <1>23, <1>24, <1>25, <1>26, <1>27, <1>28, <1>29 DEF Next, Start, Stop, RunnerStep, ExitStep

\* A replacement is created only when nobody else is pending.
LEMMA PendingStep == Inv /\ [Next]_vars => OnePending'
<1> SUFFICES ASSUME TypeOK, Early, Ends, OnePending, [Next]_vars
             PROVE  OnePending'
  BY DEF Inv
<1> USE MaxRunnersAssumption DEF TypeOK, Early, Ends, OnePending, Pending, Live, flags, record, session
<1>1. CASE Connect
  BY <1>1 DEF Connect
<1>2. CASE Launch
  BY <1>2 DEF Launch, NewRunner
<1>3. CASE Launched
  BY <1>3 DEF Launched
<1>4. CASE Shutdown
  BY <1>4 DEF Shutdown
<1>5. CASE StopRunner
  BY <1>5 DEF StopRunner, Running, Live
<1>6. CASE RunnerStopped
  BY <1>6 DEF RunnerStopped, Running, Live
<1>7. CASE CancelRunner
  BY <1>7 DEF CancelRunner, Running, Live
<1>8. CASE Sweep
  BY <1>8 DEF Sweep
<1>9. CASE Close
  BY <1>9 DEF Close
<1>10. CASE Mention
  BY <1>10 DEF Mention, Prompt, Running, Live
<1>11. CASE Command
  BY <1>11 DEF Command, Prompt, Running, Live
<1>12. CASE Pause
  BY <1>12 DEF Pause, SetPaused
<1>13. CASE Resume
  BY <1>13 DEF Resume, SetPaused, Rearm, Running, Live
<1>14. CASE Clock
  BY <1>14 DEF Clock
<1>15. CASE Scheduler
  BY <1>15 DEF Scheduler, SetPaused, Rearm, Running, Live
<1>16. CASE WatchdogEnds
  BY <1>16 DEF WatchdogEnds, Running, Live
<1>17. CASE Age
  BY <1>17 DEF Age
<1>18. ASSUME NEW r \in Runners, Take(r) PROVE OnePending'
  BY <1>18 DEF Take
<1>19. ASSUME NEW r \in Runners, Wake(r) PROVE OnePending'
  BY <1>19 DEF Wake
<1>20. ASSUME NEW r \in Runners, TurnEnds(r) PROVE OnePending'
  BY <1>20 DEF TurnEnds, Running, Live
<1>21. ASSUME NEW r \in Runners, Leave(r) PROVE OnePending'
  BY <1>21 DEF Leave
<1>22. ASSUME NEW r \in Runners, TurnFails(r) PROVE OnePending'
  <2>1. run[r] = "turn" /\ (\A q \in Runners : q # r => run'[q] = run[q] /\ exit'[q] = exit[q])
    BY <1>22 DEF TurnFails
  <2>2. \A q \in Runners : Pending(q)' => Pending(q)
    BY <2>1
  <2>. QED BY <2>2
<1>23. ASSUME NEW r \in Runners, TurnEscapes(r) PROVE OnePending'
  BY <1>23 DEF TurnEscapes
<1>24. ASSUME NEW r \in Runners, Count(r) PROVE OnePending'
  BY <1>24 DEF Count
<1>25. ASSUME NEW r \in Runners, Evaluate(r) PROVE OnePending'
  <2>1. /\ exit[r] = "counted"
        /\ \/ exit' = [exit EXCEPT ![r] = "notifying"]
           \/ exit' = [exit EXCEPT ![r] = "delayed"]
    BY <1>25 DEF Evaluate
  <2>2. run' = run \/ run' = [run EXCEPT ![r] = "over"]
    BY <1>25 DEF Evaluate, Finish
  <2>3. \A q \in Runners : Pending(q)' => Pending(q)
    BY <2>1, <2>2
  <2>. QED BY <2>3
<1>26. ASSUME NEW r \in Runners, Notified(r) PROVE OnePending'
  BY <1>26 DEF Notified, Finish
<1>27. ASSUME NEW r \in Runners, Restart(r) PROVE OnePending'
  <2>1. CASE ~circuit /\ transport
    <3>1. PICK q \in Runners : NewRunner(q)
      BY <1>27, <2>1 DEF Restart
    <3>2. run[r] = "over" /\ exit[r] = "delayed" /\ exit' = [exit EXCEPT ![r] = "arming"]
      BY <1>27, <2>1 DEF Restart
    <3>3. run[q] = "none" /\ run' = [run EXCEPT ![q] = "waiting"]
      BY <3>1 DEF NewRunner
    <3>4. ASSUME NEW p \in Runners, p # q, Pending(p)' PROVE FALSE
      <4>1. CASE p = r
        BY <4>1, <3>2, <3>3, <3>4
      <4>2. CASE p # r
        BY <4>2, <3>2, <3>3, <3>4
      <4> QED
        BY <4>1, <4>2
    <3> QED
      BY <3>4
  <2>2. CASE ~(~circuit /\ transport)
    BY <1>27, <2>2 DEF Restart
  <2> QED
    BY <2>1, <2>2
<1>28. ASSUME NEW r \in Runners, Restarted(r) PROVE OnePending'
  BY <1>28 DEF Restarted
<1>29. CASE UNCHANGED vars
  BY <1>29 DEF vars
<1> QED
  BY <1>1, <1>2, <1>3, <1>4, <1>5, <1>6, <1>7, <1>8, <1>9, <1>10, <1>11, <1>12, <1>13, <1>14, <1>15, <1>16, <1>17, <1>18, <1>19, <1>20, <1>21, <1>22, <1>23, <1>24, <1>25, <1>26, <1>27, <1>28, <1>29 DEF Next, Start, Stop, RunnerStep, ExitStep

\* Whoever counts a crash is the only one pending.
LEMMA CalmStep == Inv /\ [Next]_vars => Calm'
<1> SUFFICES ASSUME TypeOK, Early, Ends, OnePending, Calm, [Next]_vars
             PROVE  Calm'
  BY DEF Inv
<1> USE MaxRunnersAssumption DEF TypeOK, Early, Ends, OnePending, Pending, Calm, flags, record, session
<1>1. CASE Connect
  BY <1>1 DEF Connect
<1>2. CASE Launch
  BY <1>2 DEF Launch, NewRunner
<1>3. CASE Launched
  BY <1>3 DEF Launched
<1>4. CASE Shutdown
  BY <1>4 DEF Shutdown
<1>5. CASE StopRunner
  BY <1>5 DEF StopRunner, Running, Live
<1>6. CASE RunnerStopped
  BY <1>6 DEF RunnerStopped, Running, Live
<1>7. CASE CancelRunner
  BY <1>7 DEF CancelRunner, Running, Live
<1>8. CASE Sweep
  BY <1>8 DEF Sweep
<1>9. CASE Close
  BY <1>9 DEF Close
<1>10. CASE Mention
  BY <1>10 DEF Mention, Prompt, Running, Live
<1>11. CASE Command
  BY <1>11 DEF Command, Prompt, Running, Live
<1>12. CASE Pause
  BY <1>12 DEF Pause, SetPaused
<1>13. CASE Resume
  BY <1>13 DEF Resume, SetPaused, Rearm, Running, Live
<1>14. CASE Clock
  BY <1>14 DEF Clock
<1>15. CASE Scheduler
  BY <1>15 DEF Scheduler, SetPaused, Rearm, Running, Live
<1>16. CASE WatchdogEnds
  BY <1>16 DEF WatchdogEnds, Running, Live
<1>17. CASE Age
  <2>1. crashes'.recent < crashes.recent
    BY <1>17 DEF Age
  <2> QED
    BY <1>17, <2>1, MaxCrashAssumption DEF Age
<1>18. ASSUME NEW r \in Runners, Take(r) PROVE Calm'
  BY <1>18 DEF Take
<1>19. ASSUME NEW r \in Runners, Wake(r) PROVE Calm'
  BY <1>19 DEF Wake
<1>20. ASSUME NEW r \in Runners, TurnEnds(r) PROVE Calm'
  BY <1>20 DEF TurnEnds, Running, Live
<1>21. ASSUME NEW r \in Runners, Leave(r) PROVE Calm'
  BY <1>21 DEF Leave
<1>22. ASSUME NEW r \in Runners, TurnFails(r) PROVE Calm'
  BY <1>22 DEF TurnFails
<1>23. ASSUME NEW r \in Runners, TurnEscapes(r) PROVE Calm'
  BY <1>23 DEF TurnEscapes
<1>24. ASSUME NEW r \in Runners, Count(r) PROVE Calm'
  BY <1>24 DEF Count
<1>25. ASSUME NEW r \in Runners, Evaluate(r) PROVE Calm'
  <2>1. CASE Spiraling
    BY <1>25, <2>1 DEF Evaluate
  <2>2. CASE ~Spiraling
    <3>1. crashes.recent < MaxCrash
      BY <2>2, MaxCrashAssumption DEF Spiraling
    <3> QED
      BY <1>25, <2>2, <3>1 DEF Evaluate
  <2> QED
    BY <2>1, <2>2
<1>26. ASSUME NEW r \in Runners, Notified(r) PROVE Calm'
  BY <1>26 DEF Notified, Finish
<1>27. ASSUME NEW r \in Runners, Restart(r) PROVE Calm'
  BY <1>27 DEF Restart, NewRunner
<1>28. ASSUME NEW r \in Runners, Restarted(r) PROVE Calm'
  BY <1>28 DEF Restarted
<1>29. CASE UNCHANGED vars
  BY <1>29 DEF vars
<1> QED
  BY <1>1, <1>2, <1>3, <1>4, <1>5, <1>6, <1>7, <1>8, <1>9, <1>10, <1>11, <1>12, <1>13, <1>14, <1>15, <1>16, <1>17, <1>18, <1>19, <1>20, <1>21, <1>22, <1>23, <1>24, <1>25, <1>26, <1>27, <1>28, <1>29 DEF Next, Start, Stop, RunnerStep, ExitStep

\* The watchdog is armed with, or after, whatever makes it needed.
LEMMA WatchedStep == Inv /\ Watched /\ [Next]_vars => Watched'
<1> SUFFICES ASSUME TypeOK, Ends, Watched, [Next]_vars
             PROVE  Watched'
  BY DEF Inv
<1> USE MaxRunnersAssumption DEF TypeOK, Ends, Watched, Running, Live, flags, record, session
<1>1. CASE Connect
  BY <1>1 DEF Connect
<1>2. CASE Launch
  BY <1>2 DEF Launch, NewRunner
<1>3. CASE Launched
  BY <1>3 DEF Launched
<1>4. CASE Shutdown
  BY <1>4 DEF Shutdown
<1>5. CASE StopRunner
  BY <1>5 DEF StopRunner, Running, Live
<1>6. CASE RunnerStopped
  BY <1>6 DEF RunnerStopped, Running, Live
<1>7. CASE CancelRunner
  BY <1>7 DEF CancelRunner, Running, Live
<1>8. CASE Sweep
  BY <1>8 DEF Sweep
<1>9. CASE Close
  BY <1>9 DEF Close
<1>10. CASE Mention
  BY <1>10 DEF Mention, Prompt, Running, Live
<1>11. CASE Command
  BY <1>11 DEF Command, Prompt, Running, Live
<1>12. CASE Pause
  BY <1>12 DEF Pause, SetPaused
<1>13. CASE Resume
  BY <1>13 DEF Resume, SetPaused, Rearm, Running, Live
<1>14. CASE Clock
  BY <1>14 DEF Clock
<1>15. CASE Scheduler
  BY <1>15 DEF Scheduler, SetPaused, Rearm, Running, Live
<1>16. CASE WatchdogEnds
  BY <1>16 DEF WatchdogEnds, Running, Live
<1>17. CASE Age
  BY <1>17 DEF Age
<1>18. ASSUME NEW r \in Runners, Take(r) PROVE Watched'
  BY <1>18 DEF Take
<1>19. ASSUME NEW r \in Runners, Wake(r) PROVE Watched'
  BY <1>19 DEF Wake
<1>20. ASSUME NEW r \in Runners, TurnEnds(r) PROVE Watched'
  BY <1>20 DEF TurnEnds, Running, Live
<1>21. ASSUME NEW r \in Runners, Leave(r) PROVE Watched'
  BY <1>21 DEF Leave
<1>22. ASSUME NEW r \in Runners, TurnFails(r) PROVE Watched'
  <2>1. CASE stopping[r]
    BY <1>22, <2>1 DEF TurnFails
  <2>2. CASE ~stopping[r]
    <3>1. exit' = [exit EXCEPT ![r] = "logging"] /\ exit[r] = "none"
      BY <1>22, <2>2 DEF TurnFails
    <3>2. Running' => Running
      BY <1>22, <2>2 DEF TurnFails
    <3> QED
      BY <1>22, <2>2, <3>1, <3>2 DEF TurnFails
  <2> QED
    BY <2>1, <2>2
<1>23. ASSUME NEW r \in Runners, TurnEscapes(r) PROVE Watched'
  <2>1. Running' => Running
    BY <1>23 DEF TurnEscapes
  <2>2. (\A q \in Runners : exit'[q] # "arming") => \A q \in Runners : exit[q] # "arming"
    BY <1>23 DEF TurnEscapes
  <2> QED
    BY <1>23, <2>1, <2>2 DEF TurnEscapes
<1>24. ASSUME NEW r \in Runners, Count(r) PROVE Watched'
  BY <1>24 DEF Count
<1>25. ASSUME NEW r \in Runners, Evaluate(r) PROVE Watched'
  <2>1. /\ exit[r] = "counted"
        /\ \/ exit' = [exit EXCEPT ![r] = "notifying"]
           \/ exit' = [exit EXCEPT ![r] = "delayed"]
    BY <1>25 DEF Evaluate
  <2>2. run' = run \/ run' = [run EXCEPT ![r] = "over"]
    BY <1>25 DEF Evaluate, Finish
  <2>3. UNCHANGED <<phase, slot, paused, watch>>
    BY <1>25 DEF Evaluate
  <2>4. (\A q \in Runners : exit'[q] # "arming") => \A q \in Runners : exit[q] # "arming"
    BY <2>1
  <2>5. Running' => Running
    BY <2>2, <2>3
  <2>. QED BY <2>3, <2>4, <2>5
<1>26. ASSUME NEW r \in Runners, Notified(r) PROVE Watched'
  BY <1>26 DEF Notified, Finish
<1>27. ASSUME NEW r \in Runners, Restart(r) PROVE Watched'
  BY <1>27 DEF Restart, NewRunner
<1>28. ASSUME NEW r \in Runners, Restarted(r) PROVE Watched'
  BY <1>28 DEF Restarted
<1>29. CASE UNCHANGED vars
  BY <1>29 DEF vars
<1> QED
  BY <1>1, <1>2, <1>3, <1>4, <1>5, <1>6, <1>7, <1>8, <1>9, <1>10, <1>11, <1>12, <1>13, <1>14, <1>15, <1>16, <1>17, <1>18, <1>19, <1>20, <1>21, <1>22, <1>23, <1>24, <1>25, <1>26, <1>27, <1>28, <1>29 DEF Next, Start, Stop, RunnerStep, ExitStep

LEMMA InvInit == Init => Inv /\ Watched
<1> USE MaxCrashAssumption, MaxRunnersAssumption DEF Init
<1>1. Init => TypeOK
  <2> SUFFICES ASSUME Init PROVE TypeOK
    OBVIOUS
  <2>1. crashes \in [recent : Nat, old : Nat]
    OBVIOUS
  <2>2. /\ run \in [Runners -> {"none"}] /\ gate \in [Runners -> BOOLEAN]
        /\ stopping \in [Runners -> BOOLEAN] /\ queue \in [Runners -> Nat]
        /\ exit \in [Runners -> {"none"}]
    OBVIOUS
  <2>3. slot \in 0..MaxRunners
    OBVIOUS
  <2>4. {paused, manual, night, circuit, watch} \subseteq BOOLEAN
    OBVIOUS
  <2> QED
    BY <2>1, <2>2, <2>3, <2>4 DEF TypeOK
<1>2. Init => Early /\ Ends /\ OnePending /\ Calm
  BY DEF Early, Ends, OnePending, Pending, Live, Calm
<1>3. Init => Watched
  BY DEF Watched
<1> QED
  BY <1>1, <1>2, <1>3 DEF Inv

LEMMA InvStep == Inv /\ [Next]_vars => Inv'
  BY TypeStep, EarlyStep, EndsStep, PendingStep, CalmStep DEF Inv

LEMMA Invariance == Spec => [](Inv /\ Watched)
<1>1. Inv /\ Watched /\ [Next]_vars => (Inv /\ Watched)'
  BY InvStep, WatchedStep DEF Inv
<1> QED
  BY InvInit, <1>1, PTL DEF Spec

\* Every variable keeps its type: AgentDaemon.__init__ and the handlers.
THEOREM TypeCorrect == Spec => []TypeOK
<1>1. Inv => TypeOK
  BY DEF Inv
<1> QED
  BY Invariance, <1>1, PTL

\* At most one runner takes prompts, whichever way the last one ended.
THEOREM OneAtATime == Spec => []OneRunner
<1>1. Inv => OneRunner
  BY DEF Inv, OnePending, Pending, OneRunner
<1> QED
  BY Invariance, <1>1, PTL

\* A running agent that is not paused is watched.
THEOREM AlwaysWatched == Spec => []Watched
  BY Invariance, PTL

\* A step that starts a runner is Launch or Restart, below the limit of crashes.
LEMMA StartStep ==
  ASSUME Inv, [Next]_vars, NEW r \in Runners, run[r] = "none", run'[r] # "none"
  PROVE  crashes.recent < MaxCrash
<1> USE MaxCrashAssumption DEF Inv, TypeOK, flags, record, session
<1>1. CASE Connect
  BY <1>1 DEF Connect
<1>2. CASE Launch
  BY <1>2 DEF Launch, NewRunner, Early
<1>3. CASE Launched
  BY <1>3 DEF Launched
<1>4. CASE Shutdown
  BY <1>4 DEF Shutdown
<1>5. CASE StopRunner
  BY <1>5 DEF StopRunner, Running, Live
<1>6. CASE RunnerStopped
  BY <1>6 DEF RunnerStopped, Running, Live
<1>7. CASE CancelRunner
  BY <1>7 DEF CancelRunner, Running, Live
<1>8. CASE Sweep
  BY <1>8 DEF Sweep
<1>9. CASE Close
  BY <1>9 DEF Close
<1>10. CASE Mention
  BY <1>10 DEF Mention, Prompt, Running, Live
<1>11. CASE Command
  BY <1>11 DEF Command, Prompt, Running, Live
<1>12. CASE Pause
  BY <1>12 DEF Pause, SetPaused
<1>13. CASE Resume
  BY <1>13 DEF Resume, SetPaused, Rearm, Running, Live
<1>14. CASE Clock
  BY <1>14 DEF Clock
<1>15. CASE Scheduler
  BY <1>15 DEF Scheduler, SetPaused, Rearm, Running, Live
<1>16. CASE WatchdogEnds
  BY <1>16 DEF WatchdogEnds, Running, Live
<1>17. CASE Age
  BY <1>17 DEF Age
<1>18. ASSUME NEW q \in Runners, Take(q) PROVE crashes.recent < MaxCrash
  BY <1>18 DEF Take
<1>19. ASSUME NEW q \in Runners, Wake(q) PROVE crashes.recent < MaxCrash
  BY <1>19 DEF Wake
<1>20. ASSUME NEW q \in Runners, TurnEnds(q) PROVE crashes.recent < MaxCrash
  BY <1>20 DEF TurnEnds, Running, Live
<1>21. ASSUME NEW q \in Runners, Leave(q) PROVE crashes.recent < MaxCrash
  BY <1>21 DEF Leave
<1>22. ASSUME NEW q \in Runners, TurnFails(q) PROVE crashes.recent < MaxCrash
  BY <1>22 DEF TurnFails
<1>23. ASSUME NEW q \in Runners, TurnEscapes(q) PROVE crashes.recent < MaxCrash
  BY <1>23 DEF TurnEscapes
<1>24. ASSUME NEW q \in Runners, Count(q) PROVE crashes.recent < MaxCrash
  BY <1>24 DEF Count
<1>25. ASSUME NEW q \in Runners, Evaluate(q) PROVE crashes.recent < MaxCrash
  BY <1>25 DEF Evaluate, Finish, Spiraling
<1>26. ASSUME NEW q \in Runners, Notified(q) PROVE crashes.recent < MaxCrash
  BY <1>26 DEF Notified, Finish
<1>27. ASSUME NEW q \in Runners, Restart(q) PROVE crashes.recent < MaxCrash
  BY <1>27 DEF Restart, NewRunner, Calm
<1>28. ASSUME NEW q \in Runners, Restarted(q) PROVE crashes.recent < MaxCrash
  BY <1>28 DEF Restarted
<1>29. CASE UNCHANGED vars
  BY <1>29 DEF vars
<1> QED
  BY <1>1, <1>2, <1>3, <1>4, <1>5, <1>6, <1>7, <1>8, <1>9, <1>10, <1>11, <1>12, <1>13, <1>14, <1>15, <1>16, <1>17, <1>18, <1>19, <1>20, <1>21, <1>22, <1>23, <1>24, <1>25, <1>26, <1>27, <1>28, <1>29 DEF Next, Start, Stop, RunnerStep, ExitStep

\* The daemon does not restart an agent that spirals: _evaluate_circuit_breaker.
THEOREM NoCrashLoop == Spec => NoSpiral
<1>1. Inv /\ [Next]_vars =>
        [\A r \in Runners : run[r] = "none" /\ run'[r] # "none" => crashes.recent < MaxCrash]_vars
  BY StartStep
<1> QED
  BY Invariance, <1>1, PTL DEF Spec, NoSpiral

-----------------------------------------------------------------------------
(* The transport.  First, what its invariants speak of.                      *)

\* Lines of an agent to the server and of the server to an agent.
Asks   == {"JOIN", "PART", "HISTORY", "PRIVMSG"}
Tells  == {"JOIN", "PART", "404", "474", "PRIVMSG", "HISTORY"}
Lines  == [verb : {"NICK", "001", "433"} \cup Asks \cup Tells, chan : Chans \cup {NoChan}, msg : Msgs]
Up     == {l \in Lines : l.verb = "NICK" \/ (l.verb \in Asks /\ l.chan \in Chans)}
Down   == {l \in Lines : l.verb \in {"001", "433"} \/ (l.verb \in Tells /\ l.chan \in Chans)}

Entries == [msg : Msgs, at : Nat]
Buffers == [lines : Seq(Entries), total : Nat, cursor : Nat]

AgentOK  == /\ process \in {"new", "runs", "over"} /\ link \in {"down", "up", "broken"}
            /\ confirms \in BOOLEAN /\ connected \in BOOLEAN
            /\ dialler \in BOOLEAN /\ reconnecting \in BOOLEAN
            /\ channels \subseteq Chans
            /\ toServer \in Seq(Up) /\ toClient \in Seq(Down)
ServerOK == /\ reg \in {"none", "current", "stale"}
            /\ members \subseteq Chans /\ asked \subseteq Chans /\ refused \subseteq Chans
            /\ access \in [Chans -> {"open", "archived", "denied"}]
            /\ said \in 0..MaxSaid
            /\ relaying \subseteq [chan : Chans, msg : 1..MaxSaid, pending : BOOLEAN]
            /\ due \in [Chans -> SUBSET (Msgs \ {Own})]
            /\ turns \in Nat
StoreOK  == /\ history \in [Chans -> Seq(Msgs)]
            /\ committed \in [Chans -> Nat]
            /\ \A c \in Chans : committed[c] <= Len(history[c])

\* A buffer holds the newest lines, numbered in their order, and the cursor is at the last
\* line that was answered.
BufferAt(b, a) ==
  /\ b \in Buffers /\ a \in Seq(Entries)
  /\ Len(b.lines) = IF b.total < MaxBuf THEN b.total ELSE MaxBuf
  /\ \A i \in 1..Len(b.lines) : b.lines[i].at = (b.total - Len(b.lines)) + i
  /\ b.cursor <= b.total
  /\ LastAt(a) = b.cursor
BuffersOK == /\ buffer \in [Chans -> Buffers] /\ answer \in [Chans -> Seq(Entries)]
             /\ heard \in [Chans -> SUBSET Msgs]
             /\ \A c \in Chans : BufferAt(buffer[c], answer[c])

\* A connection begins with NICK, which is answered with 001 or 433 and sent once.
In(verbs, s)  == {i \in 1..Len(s) : s[i].verb \in verbs}
Handshake ==
  /\ In({"NICK"}, toServer) \subseteq {1} /\ In({"001", "433"}, toClient) \subseteq {1}
  /\ link # "up" => toServer = <<>> /\ toClient = <<>> /\ reg # "current"
  /\ 1 \in In({"NICK"}, toServer) => reg # "current" /\ toClient = <<>>
  /\ reg = "current" => In({"433"}, toClient) = {}
  /\ reg # "current" /\ toClient # <<>> => Len(toClient) = 1 /\ toClient[1].verb = "433"
  /\ process = "new" => link = "down"
  /\ dialler => link = "down" /\ process = "runs"
Session ==
  /\ reg = "none" => members = {}
  /\ reg # "current" => /\ refused = {} /\ \A c \in Chans : due[c] = {}
                        /\ \A r \in relaying : ~r.pending
  /\ link # "up" /\ process # "over" => asked = {}
  /\ refused \subseteq members
  /\ \A c \in Chans : due[c] # {} => c \in members
  /\ turns = 0 => \A c \in Chans : access[c] = "open"

\* Whether the last word on something is that it is so, once the first k lines of t are
\* read: A say so, R say not, and b is how it is now.
Holds(t, b, A, R, k) ==
  \/ \E i \in 1..k : t[i] \in A /\ \A j \in (i + 1)..k : t[j] \notin R
  \/ b /\ \A j \in 1..k : t[j] \notin R

Joins(c)    == {l \in Lines : l.verb = "JOIN" /\ l.chan = c}
Parts(c)    == {l \in Lines : l.verb = "PART" /\ l.chan = c}
Removals(c) == {l \in Lines : l.verb \in {"PART", "404", "474"} /\ l.chan = c}
Recents(c)  == {l \in Lines : l.verb = "HISTORY" /\ l.chan = c}

\* What the agent will believe, with what it believes now, and where it will be.
BelievesIn(t, N, c) == Holds(t, c \in N, Joins(c), Removals(c), Len(t))
Believes(c, now)    == BelievesIn(toClient, now, c)
InNow               == IF reg = "current" THEN members ELSE {}
StaysIn(t, N, c, k) == Holds(t, c \in N, Joins(c), Parts(c), k)
Stays(c, k)         == StaysIn(toServer, InNow, c, k)

\* The answer to NICK was not read yet.
Unwelcomed == IF toClient = <<>> THEN reg # "current" ELSE toClient[1].verb \in {"001", "433"}

\* Some line of t is among S.
Has(t, S) == \E i \in 1..Len(t) : t[i] \in S

\* With echoes, and without: what the agent believes follows what the server knows.
Echoed(c) ==
  confirms /\ reg = "current" =>
    /\ c \in members => Believes(c, channels) \/ c \in refused
    /\ Believes(c, {}) => c \in members
    /\ Believes(c, channels) /\ ~Unwelcomed =>
         c \in members \/ access[c] = "archived" \/ Has(toServer, Joins(c))
Assumed(c) ==
  ~confirms /\ link = "up" =>
    /\ c \notin channels => ~Stays(c, Len(toServer))
    /\ c \in channels /\ turns = 0 /\ ~Unwelcomed => Stays(c, Len(toServer))

\* What an agent has to hear it has heard, or is about to.
Carries(c, m) == {l \in Lines : l.verb \in {"PRIVMSG", "HISTORY"} /\ l.chan = c /\ l.msg = m}
Coming(c, m) ==
  \/ m \in heard[c]
  \/ Has(toClient, Carries(c, m))
  \/ \E r \in relaying : r.pending /\ r.chan = c /\ r.msg = m
  \/ m \in ToSet(history[c]) /\ Has(toServer, Recents(c))
\* A JOIN after HISTORY was sent is followed by HISTORY, or makes no difference.
FollowedIn(t, N, c, right) ==
  \A i \in 1..Len(t) : t[i] \in Joins(c) =>
    \/ \E j \in (i + 1)..Len(t) : t[j] \in Recents(c)
    \/ right = "archived"
    \/ StaysIn(t, N, c, i - 1)
Arriving(c) == \A m \in due[c] : Coming(c, m)
Sought(c) ==
  link = "up" /\ c \in asked =>
    /\ FollowedIn(toServer, InNow, c, access[c])
    /\ Unwelcomed /\ c \in channels =>
         ~confirms /\ (Stays(c, Len(toServer)) \/ access[c] = "archived")

-----------------------------------------------------------------------------
(* What the last word on a channel is.                                       *)

\* The word of a line is the last one until the next.
LEMMA HoldsNext ==
  ASSUME NEW t, NEW k \in Nat, NEW x, NEW B, NEW A, NEW R
  PROVE  Holds(t, x \in B, A, R, k + 1) <=>
           t[k + 1] \in A \/ (Holds(t, x \in B, A, R, k) /\ t[k + 1] \notin R)
<1>1. ASSUME Holds(t, x \in B, A, R, k + 1)
      PROVE  t[k + 1] \in A \/ (Holds(t, x \in B, A, R, k) /\ t[k + 1] \notin R)
  <2>1. CASE \E i \in 1..(k + 1) : t[i] \in A /\ \A j \in (i + 1)..(k + 1) : t[j] \notin R
    <3>1. PICK i \in 1..(k + 1) : t[i] \in A /\ \A j \in (i + 1)..(k + 1) : t[j] \notin R
      BY <2>1
    <3>2. CASE i # k + 1
      <4>1. i \in 1..k /\ k + 1 \in (i + 1)..(k + 1) /\ \A j \in (i + 1)..k : j \in (i + 1)..(k + 1)
        BY <3>2
      <4>. QED BY <3>1, <4>1 DEF Holds
    <3>. QED BY <3>1, <3>2
  <2>2. CASE x \in B /\ \A j \in 1..(k + 1) : t[j] \notin R
    <3>1. k + 1 \in 1..(k + 1) /\ \A j \in 1..k : j \in 1..(k + 1)
      OBVIOUS
    <3>. QED BY <2>2, <3>1 DEF Holds
  <2>. QED BY <1>1, <2>1, <2>2 DEF Holds
<1>2. ASSUME t[k + 1] \in A PROVE Holds(t, x \in B, A, R, k + 1)
  <2>1. k + 1 \in 1..(k + 1) /\ \A j \in ((k + 1) + 1)..(k + 1) : FALSE
    OBVIOUS
  <2>. QED BY <1>2, <2>1 DEF Holds
<1>3. ASSUME Holds(t, x \in B, A, R, k), t[k + 1] \notin R PROVE Holds(t, x \in B, A, R, k + 1)
  <2>1. CASE \E i \in 1..k : t[i] \in A /\ \A j \in (i + 1)..k : t[j] \notin R
    <3>1. PICK i \in 1..k : t[i] \in A /\ \A j \in (i + 1)..k : t[j] \notin R
      BY <2>1
    <3>2. i \in 1..(k + 1) /\ \A j \in (i + 1)..(k + 1) : j \in (i + 1)..k \/ j = k + 1
      OBVIOUS
    <3>. QED BY <1>3, <3>1, <3>2 DEF Holds
  <2>2. CASE x \in B /\ \A j \in 1..k : t[j] \notin R
    <3>1. \A j \in 1..(k + 1) : j \in 1..k \/ j = k + 1
      OBVIOUS
    <3>. QED BY <1>3, <2>2, <3>1 DEF Holds
  <2>. QED BY <1>3, <2>1, <2>2 DEF Holds
<1>. QED BY <1>1, <1>2, <1>3

\* Only the lines up to the k-th matter.
LEMMA HoldsSame ==
  ASSUME NEW t, NEW u, NEW k \in Nat, \A i \in 1..k : t[i] = u[i], NEW x, NEW B, NEW A, NEW R
  PROVE  Holds(t, x \in B, A, R, k) <=> Holds(u, x \in B, A, R, k)
<1>1. \A i \in 1..k : \A j \in (i + 1)..k : t[i] = u[i] /\ t[j] = u[j]
  OBVIOUS
<1>. QED BY <1>1 DEF Holds

\* What holds is kept by lines that do not say otherwise, ...
LEMMA HoldsKept ==
  ASSUME NEW t, NEW k \in Nat, NEW n \in Nat, k <= n, NEW x, NEW B, NEW A, NEW R,
         \A j \in (k + 1)..n : t[j] \notin R
  PROVE  Holds(t, x \in B, A, R, k) => Holds(t, x \in B, A, R, n)
<1>1. \A i \in 1..k : i \in 1..n /\ \A j \in (i + 1)..n : j \in (i + 1)..k \/ j \in (k + 1)..n
  OBVIOUS
<1>2. \A j \in 1..n : j \in 1..k \/ j \in (k + 1)..n
  OBVIOUS
<1>. QED BY <1>1, <1>2 DEF Holds

\* ... and held before those that do not say so.
LEMMA HoldsBefore ==
  ASSUME NEW t, NEW k \in Nat, NEW n \in Nat, k <= n, NEW x, NEW B, NEW A, NEW R,
         \A j \in (k + 1)..n : t[j] \notin A
  PROVE  Holds(t, x \in B, A, R, n) => Holds(t, x \in B, A, R, k)
<1>1. \A i \in 1..n : i \in 1..k \/ i \in (k + 1)..n
  OBVIOUS
<1>2. \A i \in 1..k : \A j \in (i + 1)..k : j \in (i + 1)..n
  OBVIOUS
<1>3. \A j \in 1..k : j \in 1..n
  OBVIOUS
<1>. QED BY <1>1, <1>2, <1>3 DEF Holds

\* Reading the first line puts its word into what is so now.
LEMMA HoldsRead ==
  ASSUME NEW S, NEW t \in Seq(S), t # <<>>, NEW x, NEW B, NEW D, NEW A, NEW R,
         x \in D <=> Head(t) \in A \/ (x \in B /\ Head(t) \notin R)
  PROVE  \A k \in 1..Len(t) : Holds(t, x \in B, A, R, k) <=> Holds(Tail(t), x \in D, A, R, k - 1)
<1>. DEFINE u == Tail(t)
            l == Len(t)
<1>1. l \in Nat \ {0} /\ (\A i \in 1..(l - 1) : u[i] = t[i + 1]) /\ Head(t) = t[1]
  BY HeadTailProperties, LenProperties, EmptySeq
<1>. HIDE DEF u, l
<1>. SUFFICES ASSUME NEW k \in 1..l PROVE Holds(t, x \in B, A, R, k) <=> Holds(u, x \in D, A, R, k - 1)
  BY DEF u, l
<1>2. \A i \in 1..(k - 1) : u[i] = t[i + 1]
  BY <1>1
<1>3. x \in D <=> t[1] \in A \/ (x \in B /\ t[1] \notin R)
  BY <1>1
<1>4. ASSUME Holds(t, x \in B, A, R, k) PROVE Holds(u, x \in D, A, R, k - 1)
  <2>1. CASE \E i \in 1..k : t[i] \in A /\ \A j \in (i + 1)..k : t[j] \notin R
    <3>1. PICK i \in 1..k : t[i] \in A /\ \A j \in (i + 1)..k : t[j] \notin R
      BY <2>1
    <3>2. CASE i = 1
      <4>1. x \in D /\ \A j \in 1..(k - 1) : j + 1 \in 2..k
        BY <1>3, <3>1, <3>2
      <4>. QED BY <1>2, <3>1, <3>2, <4>1 DEF Holds
    <3>3. CASE i # 1
      <4>1. i - 1 \in 1..(k - 1) /\ u[i - 1] = t[i]
        BY <1>2, <3>3
      <4>2. \A j \in ((i - 1) + 1)..(k - 1) : j \in 1..(k - 1) /\ j + 1 \in (i + 1)..k
        BY <3>3
      <4>. QED BY <1>2, <3>1, <4>1, <4>2 DEF Holds
    <3>. QED BY <3>2, <3>3
  <2>2. CASE x \in B /\ \A j \in 1..k : t[j] \notin R
    <3>1. 1 \in 1..k /\ \A j \in 1..(k - 1) : j + 1 \in 1..k
      OBVIOUS
    <3>. QED BY <1>2, <1>3, <2>2, <3>1 DEF Holds
  <2>. QED BY <1>4, <2>1, <2>2 DEF Holds
<1>5. ASSUME Holds(u, x \in D, A, R, k - 1) PROVE Holds(t, x \in B, A, R, k)
  <2>1. CASE \E i \in 1..(k - 1) : u[i] \in A /\ \A j \in (i + 1)..(k - 1) : u[j] \notin R
    <3>1. PICK i \in 1..(k - 1) : u[i] \in A /\ \A j \in (i + 1)..(k - 1) : u[j] \notin R
      BY <2>1
    <3>2. i + 1 \in 1..k /\ t[i + 1] \in A
      BY <1>2, <3>1
    <3>3. \A j \in ((i + 1) + 1)..k : j - 1 \in (i + 1)..(k - 1) /\ t[j] = u[j - 1]
      BY <1>2
    <3>. QED BY <3>1, <3>2, <3>3 DEF Holds
  <2>2. CASE x \in D /\ \A j \in 1..(k - 1) : u[j] \notin R
    <3>1. \A j \in 2..k : j - 1 \in 1..(k - 1) /\ t[j] = u[j - 1]
      BY <1>2
    <3>2. \A j \in 2..k : t[j] \notin R
      BY <2>2, <3>1
    <3>3. CASE t[1] \in A
      <4>1. 1 \in 1..k /\ (1 + 1)..k = 2..k
        OBVIOUS
      <4>. QED BY <3>2, <3>3, <4>1 DEF Holds
    <3>4. CASE x \in B /\ t[1] \notin R
      <4>1. \A j \in 1..k : j = 1 \/ j \in 2..k
        OBVIOUS
      <4>. QED BY <3>2, <3>4, <4>1 DEF Holds
    <3>. QED BY <1>3, <2>2, <3>3, <3>4
  <2>. QED BY <1>5, <2>1, <2>2 DEF Holds
<1>. QED BY <1>4, <1>5

\* The same for the lines to the server, ...
LEMMA StaysRead ==
  ASSUME NEW t \in Seq(Lines), t # <<>>, NEW N, NEW M, NEW c,
         c \in M <=> Head(t) \in Joins(c) \/ (c \in N /\ Head(t) \notin Parts(c))
  PROVE  \A k \in 1..Len(t) : StaysIn(t, N, c, k) <=> StaysIn(Tail(t), M, c, k - 1)
BY HoldsRead DEF StaysIn

LEMMA StaysWritten ==
  ASSUME NEW t \in Seq(Lines), NEW u \in Seq(Lines), NEW N, NEW c
  PROVE  /\ \A k \in 0..Len(t) : StaysIn(t \o u, N, c, k) <=> StaysIn(t, N, c, k)
         /\ (\A j \in 1..Len(u) : u[j] \notin Parts(c)) =>
              \A k \in 0..Len(u) : StaysIn(t, N, c, Len(t)) => StaysIn(t \o u, N, c, Len(t) + k)
         /\ (\A j \in 1..Len(u) : u[j] \notin Joins(c)) =>
              \A k \in 0..Len(u) : StaysIn(t \o u, N, c, Len(t) + k) => StaysIn(t, N, c, Len(t))
<1>. DEFINE v == t \o u
            l == Len(t)
            m == Len(u)
<1>1. l \in Nat /\ m \in Nat /\ (\A i \in 1..l : v[i] = t[i]) /\ \A i \in 1..m : v[l + i] = u[i]
  <2>1. \A i \in 1..m : l + i \in 1..(l + m) /\ ~(l + i <= l) /\ (l + i) - l = i
    BY LenProperties
  <2>2. \A i \in 1..l : i \in 1..(l + m)
    BY LenProperties
  <2>. QED BY <2>1, <2>2, ConcatProperties, LenProperties
<1>. HIDE DEF v, l, m
<1>2. ASSUME NEW k \in 0..l PROVE StaysIn(v, N, c, k) <=> StaysIn(t, N, c, k)
  <2>1. \A i \in 1..k : v[i] = t[i]
    BY <1>1
  <2>2. k \in Nat
    BY <1>1
  <2>. QED BY <2>1, <2>2, HoldsSame DEF StaysIn
<1>3. \A k \in 0..m : \A j \in (l + 1)..(l + k) : j - l \in 1..m /\ v[j] = u[j - l]
  BY <1>1
<1>4. ASSUME \A j \in 1..m : u[j] \notin Parts(c), NEW k \in 0..m, StaysIn(t, N, c, l)
      PROVE  StaysIn(v, N, c, l + k)
  <2>1. \A j \in (l + 1)..(l + k) : v[j] \notin Parts(c)
    BY <1>3, <1>4
  <2>2. StaysIn(v, N, c, l)
    BY <1>1, <1>2, <1>4
  <2>3. l + k \in Nat /\ l <= l + k
    BY <1>1
  <2>. QED BY <1>1, <2>1, <2>2, <2>3, HoldsKept DEF StaysIn
<1>5. ASSUME \A j \in 1..m : u[j] \notin Joins(c), NEW k \in 0..m, StaysIn(v, N, c, l + k)
      PROVE  StaysIn(t, N, c, l)
  <2>1. \A j \in (l + 1)..(l + k) : v[j] \notin Joins(c)
    BY <1>3, <1>5
  <2>2. l + k \in Nat /\ l <= l + k
    BY <1>1
  <2>3. StaysIn(v, N, c, l)
    BY <1>1, <1>5, <2>1, <2>2, HoldsBefore DEF StaysIn
  <2>. QED BY <1>1, <1>2, <2>3
<1>. QED BY <1>2, <1>4, <1>5 DEF v, l, m

LEMMA StaysNext ==
  ASSUME NEW t, NEW k \in Nat, NEW N, NEW c
  PROVE  StaysIn(t, N, c, k + 1) <=>
           t[k + 1] \in Joins(c) \/ (StaysIn(t, N, c, k) /\ t[k + 1] \notin Parts(c))
BY HoldsNext DEF StaysIn

LEMMA StaysNow == ASSUME NEW t, NEW N, NEW c PROVE StaysIn(t, N, c, 0) <=> c \in N
<1>1. 1..0 = {}
  OBVIOUS
<1>. QED BY <1>1 DEF StaysIn, Holds

\* ... and to the agent.
LEMMA BelievesRead ==
  ASSUME NEW t \in Seq(Lines), t # <<>>, NEW N, NEW M, NEW c,
         c \in M <=> Head(t) \in Joins(c) \/ (c \in N /\ Head(t) \notin Removals(c))
  PROVE  BelievesIn(t, N, c) <=> BelievesIn(Tail(t), M, c)
<1>1. Len(t) \in 1..Len(t) /\ Len(Tail(t)) = Len(t) - 1
  BY LenProperties, EmptySeq, HeadTailProperties
<1>2. Holds(t, c \in N, Joins(c), Removals(c), Len(t))
        <=> Holds(Tail(t), c \in M, Joins(c), Removals(c), Len(t) - 1)
  BY <1>1, HoldsRead
<1>. QED BY <1>1, <1>2 DEF BelievesIn

LEMMA BelievesWritten ==
  ASSUME NEW t \in Seq(Lines), NEW l \in Lines, NEW N, NEW c
  PROVE  BelievesIn(t \o <<l>>, N, c) <=>
           l \in Joins(c) \/ (BelievesIn(t, N, c) /\ l \notin Removals(c))
<1>. DEFINE v == t \o <<l>>
            n == Len(t)
<1>1. n \in Nat /\ Len(v) = n + 1 /\ (\A i \in 1..n : v[i] = t[i]) /\ v[n + 1] = l
  BY AppendProperties, AppendIsConcat, LenProperties
<1>. HIDE DEF v, n
<1>2. Holds(v, c \in N, Joins(c), Removals(c), n) <=> Holds(t, c \in N, Joins(c), Removals(c), n)
  BY <1>1, HoldsSame
<1>3. Holds(v, c \in N, Joins(c), Removals(c), n + 1) <=>
        v[n + 1] \in Joins(c)
        \/ (Holds(v, c \in N, Joins(c), Removals(c), n) /\ v[n + 1] \notin Removals(c))
  BY <1>1, HoldsNext
<1>. QED BY <1>1, <1>2, <1>3 DEF BelievesIn, v, n

\* Lines that say nothing of a channel.
LEMMA BelievesAfter ==
  ASSUME NEW t \in Seq(Lines), NEW u \in Seq(Lines), NEW N, NEW c,
         \A j \in 1..Len(u) : u[j] \notin Joins(c) /\ u[j] \notin Removals(c)
  PROVE  BelievesIn(t \o u, N, c) <=> BelievesIn(t, N, c)
<1>. DEFINE v == t \o u
            l == Len(t)
            m == Len(u)
<1>1. l \in Nat /\ m \in Nat /\ Len(v) = l + m /\ (\A i \in 1..l : v[i] = t[i])
      /\ \A i \in 1..m : v[l + i] = u[i]
  <2>1. \A i \in 1..m : l + i \in 1..(l + m) /\ ~(l + i <= l) /\ (l + i) - l = i
    BY LenProperties
  <2>2. \A i \in 1..l : i \in 1..(l + m)
    BY LenProperties
  <2>. QED BY <2>1, <2>2, ConcatProperties, LenProperties
<1>2. \A j \in 1..m : u[j] \notin Joins(c) /\ u[j] \notin Removals(c)
  OBVIOUS
<1>. HIDE DEF v, l, m
<1>3. \A j \in (l + 1)..(l + m) : j - l \in 1..m /\ v[j] = u[j - l]
  BY <1>1
<1>4. \A j \in (l + 1)..(l + m) : v[j] \notin Joins(c) /\ v[j] \notin Removals(c)
  BY <1>2, <1>3
<1>5. l + m \in Nat /\ l <= l + m
  BY <1>1
<1>6. Holds(v, c \in N, Joins(c), Removals(c), l) => Holds(v, c \in N, Joins(c), Removals(c), l + m)
  BY <1>1, <1>4, <1>5, HoldsKept
<1>7. Holds(v, c \in N, Joins(c), Removals(c), l + m) => Holds(v, c \in N, Joins(c), Removals(c), l)
  BY <1>1, <1>4, <1>5, HoldsBefore
<1>8. Holds(v, c \in N, Joins(c), Removals(c), l) <=> Holds(t, c \in N, Joins(c), Removals(c), l)
  BY <1>1, HoldsSame
<1>. QED BY <1>1, <1>6, <1>7, <1>8 DEF BelievesIn, v, l, m

LEMMA BelievesNow == ASSUME NEW N, NEW c PROVE BelievesIn(<<>>, N, c) <=> c \in N
<1>1. 1..0 = {} /\ Len(<<>>) = 0
  OBVIOUS
<1>. QED BY <1>1 DEF BelievesIn, Holds

LEMMA BelievesEver ==
  ASSUME NEW t, NEW N, NEW c
  PROVE  /\ BelievesIn(t, {}, c) => BelievesIn(t, N, c)
         /\ BelievesIn(t, N, c) => BelievesIn(t, {}, c) \/ c \in N
BY DEF BelievesIn, Holds

-----------------------------------------------------------------------------
(* The buffers.                                                              *)

LEMMA NewestOf ==
  ASSUME NEW S, NEW s \in Seq(S), NEW n \in Nat
  PROVE  /\ Newest(n, s) \in Seq(S)
         /\ Len(Newest(n, s)) = IF n < Len(s) THEN n ELSE Len(s)
         /\ \A i \in 1..Len(Newest(n, s)) : Newest(n, s)[i] = s[(Len(s) - Len(Newest(n, s))) + i]
<1>. DEFINE l == Len(s)
            m == IF n < l THEN l - n + 1 ELSE 1
<1>1. l \in Nat /\ s \in [1..l -> S]
  BY LenProperties
<1>. HIDE DEF l
<1>2. m \in Int /\ \A i \in m..l : s[i] \in S
  BY <1>1
<1>. HIDE DEF m
<1>3. /\ SubSeq(s, m, l) \in Seq(S)
      /\ Len(SubSeq(s, m, l)) = IF m <= l THEN l - m + 1 ELSE 0
      /\ \A i \in 1..(l - m + 1) : SubSeq(s, m, l)[i] = s[m + i - 1]
  BY <1>1, <1>2, SubSeqProperties
<1>4. Newest(n, s) = SubSeq(s, m, l)
  BY DEF Newest, l, m
<1>5. Len(Newest(n, s)) = IF n < l THEN n ELSE l
  BY <1>1, <1>3, <1>4 DEF m
<1>6. \A i \in 1..Len(Newest(n, s)) : i \in 1..(l - m + 1) /\ m + i - 1 = (l - Len(Newest(n, s))) + i
  BY <1>1, <1>5 DEF m
<1>. QED BY <1>3, <1>4, <1>5, <1>6 DEF l

\* add keeps a buffer in order.
LEMMA Added ==
  ASSUME NEW b, NEW a, BufferAt(b, a), NEW m \in Msgs
  PROVE  BufferAt(Add(b, m), a)
<1>. DEFINE L   == Len(b.lines)
            T   == b.total
            e   == [msg |-> m, at |-> T + 1]
            app == Append(b.lines, e)
            new == Newest(MaxBuf, app)
            N   == Len(new)
<1>1. /\ b \in Buffers /\ b.lines \in Seq(Entries) /\ e \in Entries
      /\ \A i \in 1..L : b.lines[i].at = (T - L) + i
      /\ b.cursor <= T /\ a \in Seq(Entries) /\ LastAt(a) = b.cursor
  BY DEF BufferAt, Buffers, Entries
<1>2. /\ L \in Nat /\ T \in Nat /\ MaxBuf \in Nat \ {0} /\ b.cursor \in Nat
      /\ L = IF T < MaxBuf THEN T ELSE MaxBuf
  BY <1>1, MaxBufAssumption, LenProperties DEF BufferAt, Buffers
<1>3. /\ app \in Seq(Entries) /\ Len(app) = L + 1
      /\ \A i \in 1..L : app[i] = b.lines[i]
      /\ app[L + 1] = e
  BY <1>1, AppendProperties
<1>4. Add(b, m) = [[b EXCEPT !.lines = new] EXCEPT !.total = T + 1]
  BY Zenon DEF Add
<1>5. e.at = T + 1
  OBVIOUS
<1>. HIDE DEF L, T, e, app
<1>6. \A i \in 1..(L + 1) : app[i].at = (T - L) + i
  <2>1. \A i \in 1..(L + 1) : i \in 1..L \/ i = L + 1
    BY <1>2
  <2>2. (T - L) + (L + 1) = T + 1
    BY <1>2
  <2>. QED BY <1>1, <1>3, <1>5, <2>1, <2>2
<1>7. /\ new \in Seq(Entries)
      /\ N = IF MaxBuf < L + 1 THEN MaxBuf ELSE L + 1
      /\ \A i \in 1..N : new[i] = app[(L + 1 - N) + i]
  <2>1. MaxBuf \in Nat
    BY <1>2
  <2>2. /\ new \in Seq(Entries)
        /\ N = IF MaxBuf < Len(app) THEN MaxBuf ELSE Len(app)
        /\ \A i \in 1..N : new[i] = app[(Len(app) - N) + i]
    BY <1>3, <2>1, NewestOf
  <2>3. Len(app) = L + 1
    BY <1>3
  <2>. HIDE DEF new, N
  <2>4. N \in Nat
    BY <1>2, <2>2, <2>3
  <2>. QED BY <1>2, <2>2, <2>3, <2>4
<1>. HIDE DEF new, N
<1>8. N \in Nat /\ N <= L + 1 /\ N = IF T + 1 < MaxBuf THEN T + 1 ELSE MaxBuf
  BY <1>2, <1>7
<1>9. Add(b, m) \in Buffers /\ Add(b, m).lines = new /\ Add(b, m).total = T + 1
      /\ Add(b, m).cursor = b.cursor
  <2>. DEFINE b1 == [b EXCEPT !.lines = new]
  <2>1. b1 \in Buffers /\ b1.lines = new /\ b1.cursor = b.cursor
    BY <1>1, <1>7 DEF Buffers
  <2>2. Add(b, m) = [b1 EXCEPT !.total = T + 1]
    BY <1>4
  <2>. HIDE DEF b1
  <2>. QED BY <1>2, <2>1, <2>2 DEF Buffers
<1>10. \A i \in 1..N : new[i].at = (T + 1 - N) + i
  <2>. SUFFICES ASSUME NEW i \in 1..N PROVE new[i].at = (T + 1 - N) + i
    OBVIOUS
  <2>. DEFINE k == (L + 1 - N) + i
  <2>1. k \in 1..(L + 1) /\ (T - L) + k = (T + 1 - N) + i
    BY <1>2, <1>8
  <2>2. new[i] = app[k]
    BY <1>7
  <2>. HIDE DEF k
  <2>. QED BY <1>6, <2>1, <2>2
<1>11. b.cursor <= T + 1
  BY <1>1, <1>2
<1>12. Len(new) = N
  BY DEF N
<1>. DEFINE c == Add(b, m)
<1>13. c \in Buffers /\ a \in Seq(Entries)
  BY <1>1, <1>9
<1>14. Len(c.lines) = IF c.total < MaxBuf THEN c.total ELSE MaxBuf
  BY <1>8, <1>9, <1>12
<1>15. \A i \in 1..Len(c.lines) : c.lines[i].at = (c.total - Len(c.lines)) + i
  BY <1>2, <1>8, <1>9, <1>10, <1>12
<1>16. c.cursor <= c.total /\ LastAt(a) = c.cursor
  BY <1>1, <1>9, <1>11
<1>. HIDE DEF c
<1>17. BufferAt(c, a)
  BY <1>13, <1>14, <1>15, <1>16 DEF BufferAt
<1>. QED BY <1>17 DEF c

\* What read answers: the newest lines after the cursor, as many as the limit allows.
LEMMA Answers ==
  ASSUME NEW b, NEW a, BufferAt(b, a), Unread(b) > 0, NEW limit \in Nat \ {0}
  PROVE  LET x == Read(b, limit)
             n == IF limit < Unread(b) THEN limit ELSE Unread(b)
         IN  /\ x \in Seq(Entries)
             /\ Len(x) = IF MaxBuf < n THEN MaxBuf ELSE n
             /\ Len(x) # 0
             /\ x[1].at > b.cursor
             /\ x[Len(x)].at = b.total
             /\ BufferAt(AfterRead(b), x)
<1>. DEFINE L == Len(b.lines)
            T == b.total
            C == b.cursor
            U == T - C
            y == Newest(U, b.lines)
            x == Newest(limit, y)
            M == Len(y)
            N == Len(x)
<1>1. /\ b \in Buffers /\ b.lines \in Seq(Entries)
      /\ \A i \in 1..L : b.lines[i].at = (T - L) + i
  BY DEF BufferAt, Buffers
<1>2. /\ L \in Nat /\ T \in Nat /\ C \in Nat /\ MaxBuf \in Nat \ {0}
      /\ L = IF T < MaxBuf THEN T ELSE MaxBuf
      /\ C <= T
  BY <1>1, MaxBufAssumption, LenProperties DEF BufferAt, Buffers
<1>3. Read(b, limit) = x /\ Unread(b) = U
  BY DEF Read, Unread
<1>. HIDE DEF L, T, C
<1>4. U \in Nat /\ U # 0 /\ U <= T
  BY <1>2, <1>3
<1>5. /\ y \in Seq(Entries)
      /\ M = IF U < L THEN U ELSE L
      /\ \A i \in 1..M : y[i] = b.lines[(L - M) + i]
  BY <1>1, <1>4, NewestOf DEF L
<1>. HIDE DEF y, M
<1>6. M \in Nat /\ M # 0 /\ M <= L /\ limit \in Nat
  BY <1>2, <1>4, <1>5
<1>7. /\ x \in Seq(Entries)
      /\ N = IF limit < M THEN limit ELSE M
      /\ \A i \in 1..N : x[i] = y[(M - N) + i]
  BY <1>5, <1>6, NewestOf DEF M
<1>. HIDE DEF x, N
<1>8. N \in Nat /\ N # 0 /\ N <= M /\ N <= U
  BY <1>4, <1>5, <1>6, <1>7
<1>9. \A i \in 1..N : x[i].at = (T - N) + i
  <2>. SUFFICES ASSUME NEW i \in 1..N PROVE x[i].at = (T - N) + i
    OBVIOUS
  <2>. DEFINE j == (M - N) + i
              k == (L - M) + j
  <2>1. j \in 1..M /\ k \in 1..L /\ (T - L) + k = (T - N) + i
    BY <1>2, <1>6, <1>8
  <2>2. x[i] = y[j]
    BY <1>7
  <2>. HIDE DEF j
  <2>3. y[j] = b.lines[k]
    BY <1>5, <2>1
  <2>. HIDE DEF k
  <2>. QED BY <1>1, <2>1, <2>2, <2>3
<1>10. x[1].at > C /\ x[N].at = T
  <2>1. 1 \in 1..N /\ N \in 1..N
    BY <1>8
  <2>2. x[1].at = (T - N) + 1 /\ x[N].at = (T - N) + N
    BY <1>9, <2>1
  <2>. QED BY <1>2, <1>8, <2>2
<1>11. N = LET n == IF limit < U THEN limit ELSE U IN IF MaxBuf < n THEN MaxBuf ELSE n
  BY <1>2, <1>4, <1>5, <1>7
<1>12. AfterRead(b) = [b EXCEPT !.cursor = T]
  BY DEF AfterRead, T
<1>13. AfterRead(b) \in Buffers /\ AfterRead(b).lines = b.lines /\ AfterRead(b).total = T
       /\ AfterRead(b).cursor = T
  BY <1>1, <1>2, <1>12 DEF Buffers, T
<1>14. LastAt(x) = T
  BY <1>7, <1>8, <1>10, EmptySeq DEF LastAt, N
<1>15. T <= T
  BY <1>2
<1>16. BufferAt(AfterRead(b), x)
  BY <1>1, <1>2, <1>7, <1>13, <1>14, <1>15 DEF BufferAt, L
<1>. QED BY <1>3, <1>7, <1>8, <1>10, <1>11, <1>16 DEF N, T, C

LEMMA BufferedOK ==
  ASSUME BuffersOK, NEW c \in Chans, NEW m \in Msgs, Buffered(c, m), UNCHANGED answer
  PROVE  BuffersOK'
<1>1. buffer \in [Chans -> Buffers] /\ heard \in [Chans -> SUBSET Msgs]
      /\ \A d \in Chans : BufferAt(buffer[d], answer[d])
  BY DEF BuffersOK
<1>2. BufferAt(Add(buffer[c], m), answer[c])
  BY <1>1, Added
<1>3. buffer' = [buffer EXCEPT ![c] = Add(buffer[c], m)]
      /\ heard' = [heard EXCEPT ![c] = heard[c] \cup {m}]
  BY DEF Buffered
<1>4. Add(buffer[c], m) \in Buffers
  BY <1>2 DEF BufferAt
<1>5. buffer' \in [Chans -> Buffers] /\ heard' \in [Chans -> SUBSET Msgs]
  BY <1>1, <1>3, <1>4
<1>6. ASSUME NEW d \in Chans PROVE BufferAt(buffer'[d], answer'[d])
  BY <1>1, <1>2, <1>3
<1>. QED BY <1>5, <1>6 DEF BuffersOK

\* A step of irc_read.
LEMMA ReadStep ==
  ASSUME BuffersOK, ReadChannel
  PROVE  /\ BuffersOK'
         /\ \E c \in Chans, limit \in Limits :
              /\ BufferAt(buffer[c], answer[c]) /\ Unread(buffer[c]) > 0
              /\ answer' = [answer EXCEPT ![c] = Read(buffer[c], limit)]
<1>1. PICK c \in Chans, limit \in Limits :
        /\ Unread(buffer[c]) > 0
        /\ answer' = [answer EXCEPT ![c] = Read(buffer[c], limit)]
        /\ buffer' = [buffer EXCEPT ![c] = AfterRead(buffer[c])]
  BY DEF ReadChannel
<1>2. buffer \in [Chans -> Buffers] /\ answer \in [Chans -> Seq(Entries)]
      /\ heard \in [Chans -> SUBSET Msgs] /\ heard' = heard
      /\ \A d \in Chans : BufferAt(buffer[d], answer[d])
  BY DEF BuffersOK, ReadChannel
<1>3. limit \in Nat \ {0}
  BY LimitsAssumption
<1>4. Read(buffer[c], limit) \in Seq(Entries) /\ BufferAt(AfterRead(buffer[c]), Read(buffer[c], limit))
  BY <1>1, <1>2, <1>3, Answers
<1>5. AfterRead(buffer[c]) \in Buffers
  BY <1>4 DEF BufferAt
<1>6. buffer' \in [Chans -> Buffers] /\ answer' \in [Chans -> Seq(Entries)]
  BY <1>1, <1>2, <1>4, <1>5
<1>7. ASSUME NEW d \in Chans PROVE BufferAt(buffer'[d], answer'[d])
  BY <1>1, <1>2, <1>4
<1>. QED BY <1>1, <1>2, <1>6, <1>7 DEF BuffersOK

LEMMA MinOfThree ==
  ASSUME NEW a \in Nat, NEW b \in Nat, NEW n \in Nat
  PROVE  Min({a, b, n}) = LET m == IF a < n THEN a ELSE n IN IF b < m THEN b ELSE m
<1>. DEFINE m == IF a < n THEN a ELSE n
            k == IF b < m THEN b ELSE m
<1>1. k \in {a, b, n} /\ \A y \in {a, b, n} : k <= y
  OBVIOUS
<1>2. \A x \in {a, b, n} : (\A y \in {a, b, n} : x <= y) => x = k
  OBVIOUS
<1>. QED BY <1>1, <1>2 DEF Min

-----------------------------------------------------------------------------
(* Lines.                                                                    *)

USE DEF agentVars, bufferVars, wireVars, sessionVars, roomVars, countVars

LEMMA OwnMsg == Own \in Msgs
BY TransportBoundsAssumption DEF Own, Msgs

LEMMA LineOK ==
  /\ \A v \in Asks : \A c \in Chans : \A m \in Msgs : Line(v, c, m) \in Up
  /\ \A v \in Tells : \A c \in Chans : \A m \in Msgs : Line(v, c, m) \in Down
  /\ Bare("NICK") \in Up /\ Bare("001") \in Down /\ Bare("433") \in Down
BY OwnMsg DEF Line, Bare, Up, Down, Lines, Asks, Tells

LEMMA LineIs ==
  ASSUME NEW v, NEW c, NEW m
  PROVE  Line(v, c, m).verb = v /\ Line(v, c, m).chan = c /\ Line(v, c, m).msg = m
         /\ Bare(v).verb = v
BY DEF Line, Bare

LEMMA WireLines == Seq(Up) \subseteq Seq(Lines) /\ Seq(Down) \subseteq Seq(Lines)
<1>1. Up \subseteq Lines /\ Down \subseteq Lines
  BY DEF Up, Down
<1>. QED BY <1>1, SeqMonotonic

LEMMA ReadOK ==
  ASSUME NEW S, NEW t \in Seq(S), t # <<>>
  PROVE  /\ Head(t) \in S /\ Tail(t) \in Seq(S)
         /\ Head(t) = t[1] /\ Len(t) \in Nat \ {0} /\ Len(Tail(t)) = Len(t) - 1
         /\ \A i \in 1..Len(Tail(t)) : i + 1 \in 1..Len(t) /\ Tail(t)[i] = t[i + 1]
<1>1. Len(t) \in Nat \ {0} /\ Len(Tail(t)) = Len(t) - 1
  BY EmptySeq, HeadTailProperties
<1>2. \A i \in 1..(Len(t) - 1) : i + 1 \in 1..Len(t)
  BY <1>1
<1>. QED BY <1>1, <1>2, HeadTailProperties

LEMMA WriteOK ==
  ASSUME NEW S, NEW t \in Seq(S), NEW u \in Seq(S)
  PROVE  /\ t \o u \in Seq(S) /\ Len(t) \in Nat /\ Len(u) \in Nat /\ Len(t \o u) = Len(t) + Len(u)
         /\ \A i \in 1..Len(t) : (t \o u)[i] = t[i]
         /\ \A i \in 1..Len(u) : (t \o u)[Len(t) + i] = u[i]
         /\ \A i \in 1..Len(t \o u) : i \in 1..Len(t) \/ (i - Len(t) \in 1..Len(u) /\ (t \o u)[i] = u[i - Len(t)])
<1>1. Len(t) \in Nat /\ Len(u) \in Nat
  BY LenProperties
<1>2. \A i \in 1..Len(u) : /\ Len(t) + i \in 1..(Len(t) + Len(u)) /\ ~(Len(t) + i <= Len(t))
                           /\ (Len(t) + i) - Len(t) = i
  BY <1>1
<1>3. \A i \in 1..Len(t) : i \in 1..(Len(t) + Len(u))
  BY <1>1
<1>4. \A i \in 1..(Len(t) + Len(u)) : i \in 1..Len(t) \/ (i - Len(t) \in 1..Len(u) /\ ~(i <= Len(t)))
  BY <1>1
<1>. QED BY <1>1, <1>2, <1>3, <1>4, ConcatProperties

LEMMA OneOK ==
  ASSUME NEW S, NEW l \in S
  PROVE  <<l>> \in Seq(S) /\ Len(<<l>>) = 1 /\ <<l>>[1] = l /\ \A i \in 1..Len(<<l>>) : <<l>>[i] = l
OBVIOUS

LEMMA TwoOK ==
  ASSUME NEW S, NEW k \in S, NEW l \in S
  PROVE  /\ <<k, l>> \in Seq(S) /\ Len(<<k, l>>) = 2 /\ <<k, l>>[1] = k /\ <<k, l>>[2] = l
         /\ \A i \in 1..Len(<<k, l>>) : <<k, l>>[i] \in {k, l}
OBVIOUS

\* Where lines of some verbs are.
LEMMA InWritten ==
  ASSUME NEW S, NEW t \in Seq(S), NEW u \in Seq(S), NEW V, \A i \in 1..Len(u) : u[i].verb \notin V
  PROVE  In(V, t \o u) = In(V, t)
<1>1. \A i \in 1..Len(t \o u) : (t \o u)[i].verb \in V => i \in 1..Len(t)
  BY WriteOK
<1>2. \A i \in 1..Len(t) : i \in 1..Len(t \o u) /\ (t \o u)[i] = t[i]
  BY WriteOK
<1>. QED BY <1>1, <1>2 DEF In

LEMMA InRead ==
  ASSUME NEW S, NEW t \in Seq(S), t # <<>>, NEW V, In(V, t) \subseteq {1}
  PROVE  In(V, Tail(t)) = {}
<1>1. \A i \in 1..Len(Tail(t)) : i + 1 \in 1..Len(t) /\ Tail(t)[i] = t[i + 1] /\ i + 1 # 1
  <2>1. Len(Tail(t)) \in Nat
    BY ReadOK
  <2>2. \A i \in 1..Len(Tail(t)) : i + 1 # 1
    BY <2>1
  <2>. QED BY <2>2, ReadOK
<1>. QED BY <1>1 DEF In

LEMMA InNone == \A V : In(V, <<>>) = {}
BY DEF In

\* What is asked for when the connection is welcomed.
LEMMA Rejoining ==
  ASSUME NEW C, C \subseteq Chans
  PROVE  LET u == SetToSeq({Line("JOIN", c, Own) : c \in C})
         IN  /\ u \in Seq(Up)
             /\ \A i \in 1..Len(u) : \E c \in C : u[i] = Line("JOIN", c, Own)
             /\ \A c \in C : \E i \in 1..Len(u) : u[i] = Line("JOIN", c, Own)
<1>. DEFINE S == {Line("JOIN", c, Own) : c \in C}
            f == [c \in C |-> Line("JOIN", c, Own)]
            n == Cardinality(S)
            u == SetToSeq(S)
<1>1. IsFiniteSet(C)
  BY ChansAssumption, FS_Subset
<1>2. f \in Surjection(C, S)
  BY DEF Surjection
<1>3. IsFiniteSet(S)
  BY <1>1, <1>2, FS_Surjection
<1>4. S \subseteq Up
  BY LineOK, OwnMsg DEF Asks
<1>. HIDE DEF S, f
<1>5. n \in Nat /\ ExistsBijection(1..n, S)
  BY <1>3, FS_CardinalityType
<1>6. PICK g : g \in Bijection(1..n, S)
  BY <1>5 DEF ExistsBijection
<1>7. g \in [1..n -> S] /\ IsInjective(g)
  BY <1>6 DEF Bijection, Injection
<1>8. u \in [1..n -> S] /\ IsInjective(u)
  BY <1>7 DEF SetToSeq
<1>9. u \in Injection(1..n, S)
  BY <1>8 DEF Injection
<1>10. IsFiniteSet(1..n) /\ Cardinality(1..n) = n
  <2>1. 1 \in Int /\ n \in Int
    BY <1>5
  <2>. QED BY <1>5, <2>1, FS_Interval
<1>11. u \in Surjection(1..n, S)
  BY <1>3, <1>9, <1>10, FS_Injection
<1>. HIDE DEF u
<1>12. u \in Seq(S) /\ Len(u) = n
  BY <1>5, <1>8
<1>13. u \in Seq(Up)
  BY <1>4, <1>12, SeqMonotonic
<1>14. \A i \in 1..Len(u) : u[i] \in S
  BY <1>8, <1>12
<1>15. \A l \in S : \E i \in 1..Len(u) : u[i] = l
  BY <1>11, <1>12 DEF Surjection
<1>. QED BY <1>13, <1>14, <1>15 DEF S, u

-----------------------------------------------------------------------------
(* Types, and what a connection is like at any time.                         *)

Basics == AgentOK /\ ServerOK /\ StoreOK /\ BuffersOK /\ Handshake /\ Session

LEMMA ServerSame ==
  ServerOK /\ UNCHANGED <<sessionVars, access, said, relaying, turns>> => ServerOK'
BY DEF ServerOK

LEMMA StoreSame == StoreOK /\ UNCHANGED <<history, committed>> => StoreOK'
BY DEF StoreOK

LEMMA BuffersSame == BuffersOK /\ UNCHANGED bufferVars => BuffersOK'
BY DEF BuffersOK

LEMMA SessionSame ==
  Session /\ UNCHANGED <<sessionVars, relaying, access, turns, link, process>> => Session'
BY DEF Session

LEMMA InitBasics == TransportInit => Basics
<1>. SUFFICES ASSUME TransportInit PROVE Basics
  OBVIOUS
<1>. USE DEF TransportInit
<1>1. AgentOK
  <2>1. <<>> \in Seq(Up) /\ <<>> \in Seq(Down)
    BY EmptySeq
  <2>. QED BY <2>1 DEF AgentOK
<1>2. ServerOK
  BY TransportBoundsAssumption, OwnMsg DEF ServerOK
<1>3. StoreOK
  BY DEF StoreOK
<1>4. BuffersOK
  <2>1. EmptyBuffer \in Buffers
    BY DEF EmptyBuffer, Buffers
  <2>2. \A a : a = <<>> => BufferAt(EmptyBuffer, a)
    BY <2>1, MaxBufAssumption DEF BufferAt, EmptyBuffer, LastAt
  <2>. QED BY <2>1, <2>2 DEF BuffersOK
<1>5. Handshake
  BY InNone DEF Handshake
<1>6. Session
  BY DEF Session
<1>. QED BY <1>1, <1>2, <1>3, <1>4, <1>5, <1>6 DEF Basics

\* A new connection.
LEMMA OpenedOK ==
  ASSUME Basics, Opened, process = "new" \/ dialler,
         process' = "runs", dialler' = FALSE,
         UNCHANGED <<confirms, channels, connected, sessionVars, relaying, access, turns>>
  PROVE  /\ toServer' \in Seq(Up) /\ toClient' \in Seq(Down)
         /\ Handshake' /\ Session'
<1>1. toServer' = <<Bare("NICK")>> /\ toClient' = <<>> /\ link' = "up" /\ link = "down"
  BY DEF Opened
<1>2. /\ Len(<<Bare("NICK")>>) = 1 /\ <<Bare("NICK")>>[1].verb = "NICK"
      /\ <<Bare("NICK")>> \in Seq(Up) /\ <<>> \in Seq(Down)
  <2>1. Bare("NICK") \in Up /\ Bare("NICK").verb = "NICK"
    BY LineOK, LineIs
  <2>2. <<>> \in Seq(Down)
    BY EmptySeq
  <2>. QED BY <2>1, <2>2, OneOK
<1>3. In({"NICK"}, toServer') \subseteq {1} /\ In({"001", "433"}, toClient') = {}
      /\ In({"433"}, toClient') = {}
  BY <1>1, <1>2, InNone DEF In
<1>4. reg # "current" /\ (process = "new" \/ process = "runs")
  BY <1>1 DEF Basics, Handshake
<1>5. Handshake'
  BY <1>1, <1>3, <1>4 DEF Handshake
<1>6. asked = {}
  BY <1>1, <1>4 DEF Basics, Session
<1>7. Session'
  BY <1>4, <1>6 DEF Basics, Session
<1>. QED BY <1>1, <1>2, <1>5, <1>7

LEMMA ConnectToServerBasics == Basics /\ ConnectToServer => Basics'
<1>. SUFFICES ASSUME Basics, ConnectToServer PROVE Basics'
  OBVIOUS
<1>0. dialler = FALSE
  BY DEF Basics, Handshake, AgentOK, ConnectToServer
<1>1. toServer' \in Seq(Up) /\ toClient' \in Seq(Down) /\ Handshake' /\ Session'
  BY <1>0, OpenedOK DEF ConnectToServer
<1>2. AgentOK'
  BY <1>1 DEF Basics, AgentOK, ConnectToServer, Opened
<1>. QED BY <1>1, <1>2, ServerSame, StoreSame, BuffersSame DEF Basics, ConnectToServer

LEMMA DialBasics == Basics /\ Dial => Basics'
<1>. SUFFICES ASSUME Basics, Dial PROVE Basics'
  OBVIOUS
<1>0. process = "runs"
  BY DEF Basics, Handshake, Dial
<1>1. toServer' \in Seq(Up) /\ toClient' \in Seq(Down) /\ Handshake' /\ Session'
  BY <1>0, OpenedOK DEF Dial
<1>2. AgentOK'
  BY <1>1 DEF Basics, AgentOK, Dial, Opened
<1>. QED BY <1>1, <1>2, ServerSame, StoreSame, BuffersSame DEF Basics, Dial

LEMMA ReadLoopEndsBasics == Basics /\ ReadLoopEnds => Basics'
<1>. SUFFICES ASSUME Basics, ReadLoopEnds PROVE Basics'
  OBVIOUS
<1>1. AgentOK'
  BY DEF Basics, AgentOK, ReadLoopEnds
<1>2. Handshake'
  BY DEF Basics, Handshake, ReadLoopEnds, AgentOK
<1>3. Session'
  BY DEF Basics, Session, ReadLoopEnds
<1>. QED BY <1>1, <1>2, <1>3, ServerSame, StoreSame, BuffersSame DEF Basics, ReadLoopEnds

\* The end of a connection.
LEMMA HungOK ==
  ASSUME Basics, Hung, link' # "up",
         UNCHANGED <<members, access, said, turns>>
  PROVE  /\ ServerOK' /\ Session'
         /\ toServer' \in Seq(Up) /\ toClient' \in Seq(Down)
         /\ reg' # "current" /\ toServer' = <<>> /\ toClient' = <<>>
<1>1. relaying' \subseteq [chan : Chans, msg : 1..MaxSaid, pending : BOOLEAN]
      /\ \A r \in relaying' : ~r.pending
  <2>1. relaying \subseteq [chan : Chans, msg : 1..MaxSaid, pending : BOOLEAN]
    BY DEF Basics, ServerOK
  <2>. QED BY <2>1 DEF Hung
<1>2. due' \in [Chans -> SUBSET (Msgs \ {Own})] /\ \A c \in Chans : due'[c] = {}
  BY DEF Hung
<1>3. reg' \in {"none", "stale"} /\ asked' = {} /\ refused' = {} /\ (reg' = "none" => reg = "none")
  BY DEF Hung, Basics, ServerOK
<1>4. ServerOK'
  BY <1>1, <1>2, <1>3 DEF Basics, ServerOK
<1>5. Session'
  BY <1>1, <1>2, <1>3 DEF Basics, Session
<1>. QED BY <1>3, <1>4, <1>5 DEF Hung

LEMMA DisconnectBasics == Basics /\ Disconnect => Basics'
<1>. SUFFICES ASSUME Basics, Disconnect PROVE Basics'
  OBVIOUS
<1>1. ServerOK' /\ Session' /\ toServer' \in Seq(Up) /\ toClient' \in Seq(Down)
      /\ reg' # "current" /\ toServer' = <<>> /\ toClient' = <<>>
  BY HungOK DEF Disconnect
<1>2. AgentOK'
  BY <1>1 DEF Basics, AgentOK, Disconnect
<1>3. Handshake'
  BY <1>1, InNone DEF Handshake, Disconnect
<1>. QED BY <1>1, <1>2, <1>3, StoreSame, BuffersSame DEF Basics, Disconnect

LEMMA BreakBasics == Basics /\ Break => Basics'
<1>. SUFFICES ASSUME Basics, Break PROVE Basics'
  OBVIOUS
<1>1. ServerOK' /\ Session' /\ toServer' \in Seq(Up) /\ toClient' \in Seq(Down)
      /\ reg' # "current" /\ toServer' = <<>> /\ toClient' = <<>>
  BY HungOK DEF Break
<1>2. AgentOK'
  BY <1>1 DEF Basics, AgentOK, Break
<1>3. Handshake'
  BY <1>1, InNone DEF Basics, Handshake, Break
<1>. QED BY <1>1, <1>2, <1>3, StoreSame, BuffersSame DEF Basics, Break

LEMMA ServerRestartsBasics == Basics /\ ServerRestarts => Basics'
<1>. SUFFICES ASSUME Basics, ServerRestarts PROVE Basics'
  OBVIOUS
<1>1. /\ link' = (IF link = "up" THEN "broken" ELSE link)
      /\ toServer' = <<>> /\ toClient' = <<>>
      /\ reg' = "none" /\ members' = {} /\ asked' = {} /\ refused' = {} /\ relaying' = {}
      /\ due' = [c \in Chans |-> {}]
      /\ UNCHANGED <<agentVars, bufferVars, said, turns>>
  BY DEF ServerRestarts
<1>2. PICK C \in SUBSET {c \in Chans : access[c] = "archived"} :
        access' = [c \in Chans |-> IF c \in C THEN "open" ELSE access[c]]
  BY DEF ServerRestarts
<1>3. access \in [Chans -> {"open", "archived", "denied"}]
  BY DEF Basics, ServerOK
<1>4. /\ access' \in [Chans -> {"open", "archived", "denied"}]
      /\ \A c \in Chans : access[c] = "open" => access'[c] = "open"
  BY <1>2, <1>3
<1>5. AgentOK'
  BY <1>1 DEF Basics, AgentOK
<1>6. ServerOK'
  BY <1>1, <1>4 DEF Basics, ServerOK
<1>7. StoreOK'
  <2>1. history \in [Chans -> Seq(Msgs)] /\ committed \in [Chans -> Nat]
        /\ \A c \in Chans : committed[c] <= Len(history[c])
    BY DEF Basics, StoreOK
  <2>2. committed' \in [Chans -> Nat] /\ \A c \in Chans : committed'[c] <= Len(history[c])
    <3>1. CASE UNCHANGED committed
      BY <2>1, <3>1
    <3>2. CASE committed' = [c \in Chans |-> Len(history[c])]
      <4>1. \A c \in Chans : Len(history[c]) \in Nat
        BY <2>1, LenProperties
      <4>. QED BY <3>2, <4>1
    <3>. QED BY <3>1, <3>2 DEF ServerRestarts
  <2>3. ASSUME NEW c \in Chans
        PROVE  SubSeq(history[c], 1, committed'[c]) \in Seq(Msgs)
               /\ Len(SubSeq(history[c], 1, committed'[c])) = committed'[c]
    <3>1. history[c] \in Seq(Msgs) /\ committed'[c] \in Nat /\ committed'[c] <= Len(history[c])
      BY <2>1, <2>2
    <3>2. \A i \in 1..committed'[c] : history[c][i] \in Msgs
      <4>1. \A i \in 1..committed'[c] : i \in 1..Len(history[c])
        BY <3>1, LenProperties
      <4>. QED BY <3>1, <4>1, ElementOfSeq
    <3>3. 1 \in Int /\ committed'[c] \in Int
      BY <3>1
    <3>4. SubSeq(history[c], 1, committed'[c]) \in Seq(Msgs)
          /\ Len(SubSeq(history[c], 1, committed'[c]))
               = IF 1 <= committed'[c] THEN committed'[c] - 1 + 1 ELSE 0
      BY <3>2, <3>3, SubSeqProperties
    <3>. QED BY <3>1, <3>4
  <2>4. history' = [c \in Chans |-> SubSeq(history[c], 1, committed'[c])]
    BY DEF ServerRestarts
  <2>. QED BY <2>2, <2>3, <2>4 DEF StoreOK
<1>8. Handshake'
  BY <1>1, InNone DEF Basics, Handshake
<1>9. Session'
  BY <1>1, <1>4 DEF Basics, Session
<1>. QED BY <1>1, <1>5, <1>6, <1>7, <1>8, <1>9, BuffersSame DEF Basics

\* What is read from the server.
LEMMA GotOK ==
  ASSUME Basics, NEW verb, Got(verb)
  PROVE  /\ link = "up" /\ toClient # <<>> /\ toClient \in Seq(Down) /\ toClient' = Tail(toClient)
         /\ Head(toClient) \in Down /\ Head(toClient).verb = verb /\ toClient' \in Seq(Down)
         /\ verb \in Tells => From \in Chans /\ What \in Msgs
         /\ In({"001", "433"}, toClient') = {} /\ In({"433"}, toClient') = {}
         /\ verb # "433" => reg = "current" /\ In({"NICK"}, toServer) = {}
         /\ verb = "433" => reg # "current" /\ toClient' = <<>>
<1>1. link = "up" /\ toClient # <<>> /\ toClient \in Seq(Down) /\ toClient' = Tail(toClient)
      /\ Head(toClient).verb = verb
  BY DEF Basics, AgentOK, Got
<1>2. Head(toClient) \in Down /\ toClient' \in Seq(Down) /\ Head(toClient) = toClient[1]
      /\ Len(toClient) \in Nat \ {0} /\ Len(toClient') = Len(toClient) - 1
  BY <1>1, ReadOK
<1>3. In({"001", "433"}, toClient) \subseteq {1}
  BY DEF Basics, Handshake
<1>4. In({"433"}, toClient) \subseteq In({"001", "433"}, toClient)
  BY DEF In
<1>5. In({"001", "433"}, toClient') = {} /\ In({"433"}, toClient') = {}
  BY <1>1, <1>3, <1>4, InRead
<1>6. verb # "433" => reg = "current"
  BY <1>1, <1>2 DEF Basics, Handshake
<1>7. reg = "current" => In({"NICK"}, toServer) = {}
  BY DEF Basics, Handshake
<1>8. verb = "433" => reg # "current" /\ toClient' = <<>>
  <2>. SUFFICES ASSUME verb = "433" PROVE reg # "current" /\ toClient' = <<>>
    OBVIOUS
  <2>1. 1 \in In({"433"}, toClient)
    BY <1>1, <1>2 DEF In
  <2>2. reg # "current" /\ Len(toClient) = 1
    BY <1>1, <2>1 DEF Basics, Handshake
  <2>3. Len(toClient') = 0
    BY <1>2, <2>2
  <2>. QED BY <1>2, <2>2, <2>3, EmptySeq
<1>9. verb \in Tells => From \in Chans /\ What \in Msgs
  BY <1>1, <1>2 DEF From, What, Down, Lines, Tells
<1>. QED BY <1>1, <1>2, <1>5, <1>6, <1>7, <1>8, <1>9

\* A registered connection stays one.
LEMMA HandshakeKept ==
  ASSUME Basics, reg = "current", UNCHANGED <<reg, link, process, dialler>>,
         In({"NICK"}, toServer') = {},
         In({"001", "433"}, toClient') \subseteq {1}, In({"433"}, toClient') = {}
  PROVE  Handshake'
BY DEF Basics, Handshake

LEMMA GotWelcomeBasics == Basics /\ GotWelcome => Basics'
<1>. SUFFICES ASSUME Basics, GotWelcome PROVE Basics'
  OBVIOUS
<1>. DEFINE u == SetToSeq({Line("JOIN", c, Own) : c \in channels})
<1>1. Got("001") /\ toServer' = toServer \o u
  BY DEF GotWelcome
<1>2. channels \subseteq Chans /\ toServer \in Seq(Up)
  BY DEF Basics, AgentOK
<1>3. u \in Seq(Up) /\ \A i \in 1..Len(u) : \E c \in channels : u[i] = Line("JOIN", c, Own)
  BY <1>2, Rejoining
<1>. HIDE DEF u
<1>4. \A i \in 1..Len(u) : u[i].verb \notin {"NICK"}
  BY <1>3, LineIs
<1>5. reg = "current" /\ toClient' \in Seq(Down) /\ In({"NICK"}, toServer) = {}
      /\ In({"001", "433"}, toClient') = {} /\ In({"433"}, toClient') = {}
  BY <1>1, GotOK
<1>6. toServer' \in Seq(Up) /\ In({"NICK"}, toServer') = {}
  <2>1. toServer' \in Seq(Up)
    BY <1>1, <1>2, <1>3, WriteOK
  <2>2. In({"NICK"}, toServer \o u) = In({"NICK"}, toServer)
    BY <1>2, <1>3, <1>4, InWritten
  <2>3. In({"NICK"}, toServer') = In({"NICK"}, toServer \o u)
    BY <1>1
  <2>. QED BY <1>5, <2>1, <2>2, <2>3
<1>7. AgentOK'
  BY <1>5, <1>6 DEF Basics, AgentOK, GotWelcome
<1>8. Handshake'
  BY <1>5, <1>6, HandshakeKept DEF GotWelcome
<1>. QED BY <1>7, <1>8, ServerSame, StoreSame, BuffersSame, SessionSame DEF Basics, GotWelcome

LEMMA GotNickInUseBasics == Basics /\ GotNickInUse => Basics'
<1>. SUFFICES ASSUME Basics, GotNickInUse PROVE Basics'
  OBVIOUS
<1>1. link = "up" /\ toClient' \in Seq(Down) /\ reg # "current" /\ toClient' = <<>>
  BY GotOK DEF GotNickInUse
<1>2. AgentOK'
  BY <1>1, EmptySeq DEF Basics, AgentOK, GotNickInUse
<1>3. Handshake'
  BY <1>1, InNone DEF Basics, Handshake, GotNickInUse
<1>4. Session'
  BY <1>1 DEF Basics, Session, GotNickInUse
<1>. QED BY <1>2, <1>3, <1>4, ServerSame, StoreSame, BuffersSame DEF Basics, GotNickInUse

LEMMA TrackingBasics ==
  ASSUME Basics, NEW verb, verb # "433", NEW tracked, tracked \subseteq Chans,
         Tracking(verb, tracked)
  PROVE  Basics'
<1>1. reg = "current" /\ toClient' \in Seq(Down) /\ In({"NICK"}, toServer) = {}
      /\ In({"001", "433"}, toClient') = {} /\ In({"433"}, toClient') = {}
  BY GotOK DEF Tracking
<1>2. AgentOK'
  BY <1>1 DEF Basics, AgentOK, Tracking
<1>3. Handshake'
  BY <1>1, HandshakeKept DEF Tracking
<1>. QED BY <1>2, <1>3, ServerSame, StoreSame, BuffersSame, SessionSame DEF Basics, Tracking

LEMMA GotJoinBasics == Basics /\ GotJoin => Basics'
<1>. SUFFICES ASSUME Basics, GotJoin PROVE Basics'
  OBVIOUS
<1>1. From \in Chans
  BY GotOK DEF GotJoin, Tracking, Tells
<1>2. channels \cup {From} \subseteq Chans
  BY <1>1 DEF Basics, AgentOK
<1>. QED BY <1>2, TrackingBasics DEF GotJoin

LEMMA GotRemovalBasics == Basics /\ GotRemoval => Basics'
<1>. SUFFICES ASSUME Basics, GotRemoval PROVE Basics'
  OBVIOUS
<1>1. channels \ {From} \subseteq Chans
  BY DEF Basics, AgentOK
<1>. QED BY <1>1, TrackingBasics DEF GotRemoval

LEMMA GotMessageBasics == Basics /\ GotMessage => Basics'
<1>. SUFFICES ASSUME Basics, GotMessage PROVE Basics'
  OBVIOUS
<1>1. PICK verb \in {"PRIVMSG", "HISTORY"} : Got(verb)
  BY DEF GotMessage
<1>2. verb # "433" /\ verb \in Tells
  BY DEF Tells
<1>3. /\ reg = "current" /\ toClient' \in Seq(Down) /\ In({"NICK"}, toServer) = {}
      /\ In({"001", "433"}, toClient') = {} /\ In({"433"}, toClient') = {}
      /\ From \in Chans /\ What \in Msgs
  BY <1>1, <1>2, GotOK
<1>4. BuffersOK'
  <2>1. CASE Buffered(From, What)
    BY <1>3, <2>1, BufferedOK DEF Basics, GotMessage
  <2>2. CASE UNCHANGED <<buffer, heard>>
    BY <2>2, BuffersSame DEF Basics, GotMessage
  <2>. QED BY <2>1, <2>2 DEF GotMessage
<1>5. AgentOK'
  BY <1>3 DEF Basics, AgentOK, GotMessage
<1>6. Handshake'
  BY <1>3, HandshakeKept DEF GotMessage
<1>. QED BY <1>4, <1>5, <1>6, ServerSame, StoreSame, SessionSame DEF Basics, GotMessage

\* What is sent to the server.
LEMMA SentOK ==
  ASSUME Basics, NEW u \in Seq(Up), \A i \in 1..Len(u) : u[i].verb \notin {"NICK"}, Sent(u),
         UNCHANGED <<link, toClient, reg, process, dialler>>
  PROVE  toServer' \in Seq(Up) /\ Handshake'
<1>1. toServer \in Seq(Up)
  BY DEF Basics, AgentOK
<1>2. CASE link = "up"
  <2>1. toServer' = toServer \o u
    BY <1>2 DEF Sent
  <2>2. toServer' \in Seq(Up) /\ In({"NICK"}, toServer') = In({"NICK"}, toServer)
    BY <1>1, <2>1, WriteOK, InWritten
  <2>. QED BY <1>2, <2>2 DEF Basics, Handshake
<1>3. CASE link # "up"
  BY <1>1, <1>3 DEF Sent, Basics, Handshake
<1>. QED BY <1>2, <1>3

LEMMA JoinChannelBasics == Basics /\ JoinChannel => Basics'
<1>. SUFFICES ASSUME Basics, JoinChannel PROVE Basics'
  OBVIOUS
<1>1. PICK c \in Chans \ channels :
        /\ Sent(<<Line("JOIN", c, Own), Line("HISTORY", c, Own)>>)
        /\ asked' = (IF link = "up" THEN asked \cup {c} ELSE asked)
        /\ AskedFor(channels \cup {c})
  BY DEF JoinChannel
<1>. DEFINE u == <<Line("JOIN", c, Own), Line("HISTORY", c, Own)>>
<1>2. u \in Seq(Up) /\ \A i \in 1..Len(u) : u[i].verb \notin {"NICK"}
  <2>1. Line("JOIN", c, Own) \in Up /\ Line("HISTORY", c, Own) \in Up
    BY LineOK, OwnMsg DEF Asks
  <2>2. Line("JOIN", c, Own).verb = "JOIN" /\ Line("HISTORY", c, Own).verb = "HISTORY"
    BY LineIs
  <2>. QED BY <2>1, <2>2, TwoOK
<1>. HIDE DEF u
<1>3. toServer' \in Seq(Up) /\ Handshake'
  <2>1. Sent(u)
    BY <1>1 DEF u
  <2>. QED BY <1>1, <1>2, <2>1, SentOK DEF JoinChannel, AskedFor
<1>4. AgentOK'
  BY <1>1, <1>3 DEF Basics, AgentOK, JoinChannel, AskedFor
<1>5. ServerOK'
  BY <1>1 DEF Basics, ServerOK, JoinChannel
<1>6. Session'
  BY <1>1 DEF Basics, Session, JoinChannel, AskedFor
<1>. QED BY <1>3, <1>4, <1>5, <1>6, StoreSame, BuffersSame DEF Basics, JoinChannel

LEMMA OneUp ==
  ASSUME NEW v \in {"JOIN", "PART", "HISTORY", "PRIVMSG"}, NEW c \in Chans
  PROVE  LET u == <<Line(v, c, Own)>>
         IN  u \in Seq(Up) /\ \A i \in 1..Len(u) : u[i].verb \notin {"NICK"}
<1>1. Line(v, c, Own) \in Up /\ Line(v, c, Own).verb = v
  BY LineOK, LineIs, OwnMsg DEF Asks
<1>. QED BY <1>1, OneOK

LEMMA PartChannelBasics == Basics /\ PartChannel => Basics'
<1>. SUFFICES ASSUME Basics, PartChannel PROVE Basics'
  OBVIOUS
<1>1. PICK c \in Chans : Sent(<<Line("PART", c, Own)>>) /\ AskedFor(channels \ {c})
  BY DEF PartChannel
<1>2. toServer' \in Seq(Up) /\ Handshake'
  BY <1>1, OneUp, SentOK DEF PartChannel, AskedFor
<1>3. AgentOK'
  BY <1>1, <1>2 DEF Basics, AgentOK, PartChannel, AskedFor
<1>4. Session'
  BY <1>1, SessionSame DEF Basics, PartChannel, AskedFor
<1>. QED BY <1>2, <1>3, <1>4, ServerSame, StoreSame, BuffersSame DEF Basics, PartChannel

LEMMA SendPrivmsgBasics == Basics /\ SendPrivmsg => Basics'
<1>. SUFFICES ASSUME Basics, SendPrivmsg PROVE Basics'
  OBVIOUS
<1>1. PICK c \in channels : Sent(<<Line("PRIVMSG", c, Own)>>) /\ Buffered(c, Own)
  BY DEF SendPrivmsg
<1>2. c \in Chans
  BY DEF Basics, AgentOK
<1>3. toServer' \in Seq(Up) /\ Handshake'
  BY <1>1, <1>2, OneUp, SentOK DEF SendPrivmsg
<1>4. AgentOK'
  BY <1>3 DEF Basics, AgentOK, SendPrivmsg
<1>5. BuffersOK'
  BY <1>1, <1>2, OwnMsg, BufferedOK DEF Basics, SendPrivmsg
<1>. QED BY <1>3, <1>4, <1>5, ServerSame, StoreSame, SessionSame DEF Basics, SendPrivmsg

LEMMA ReadChannelBasics == Basics /\ ReadChannel => Basics'
<1>. SUFFICES ASSUME Basics, ReadChannel PROVE Basics'
  OBVIOUS
<1>1. BuffersOK'
  BY ReadStep DEF Basics
<1>2. AgentOK' /\ Handshake'
  BY DEF Basics, AgentOK, Handshake, ReadChannel
<1>. QED BY <1>1, <1>2, ServerSame, StoreSame, SessionSame DEF Basics, ReadChannel

\* What the server reads of a registered agent.
LEMMA ReadsOK ==
  ASSUME Basics, NEW verb, Reads(verb)
  PROVE  /\ link = "up" /\ reg = "current" /\ toServer # <<>> /\ toServer \in Seq(Up)
         /\ toServer' = Tail(toServer) /\ toServer' \in Seq(Up)
         /\ Head(toServer) \in Up /\ Head(toServer).verb = verb
         /\ verb \in Asks => Target \in Chans
         /\ In({"NICK"}, toServer') = {}
         /\ In({"001", "433"}, toClient) \subseteq {1} /\ In({"433"}, toClient) = {}
<1>1. link = "up" /\ reg = "current" /\ toServer # <<>> /\ toServer \in Seq(Up)
      /\ toServer' = Tail(toServer) /\ Head(toServer).verb = verb
  BY DEF Basics, AgentOK, Reads
<1>2. Head(toServer) \in Up /\ toServer' \in Seq(Up)
  BY <1>1, ReadOK
<1>3. In({"NICK"}, toServer) \subseteq {1}
  BY DEF Basics, Handshake
<1>4. In({"NICK"}, toServer') = {}
  BY <1>1, <1>3, InRead
<1>5. verb \in Asks => Target \in Chans
  BY <1>1, <1>2 DEF Target, Up, Asks
<1>6. In({"001", "433"}, toClient) \subseteq {1} /\ In({"433"}, toClient) = {}
  BY <1>1 DEF Basics, Handshake
<1>. QED BY <1>1, <1>2, <1>4, <1>5, <1>6

\* What the server writes to it.
LEMMA WrittenOK ==
  ASSUME Basics, reg = "current", NEW u \in Seq(Down),
         \A i \in 1..Len(u) : u[i].verb \notin {"001", "433"}, Written(u)
  PROVE  /\ toClient' = toClient \o u /\ toClient' \in Seq(Down)
         /\ In({"001", "433"}, toClient') \subseteq {1} /\ In({"433"}, toClient') = {}
<1>1. toClient \in Seq(Down)
  BY DEF Basics, AgentOK
<1>2. toClient' = toClient \o u
  BY DEF Written
<1>3. \A i \in 1..Len(u) : u[i].verb \notin {"433"}
  OBVIOUS
<1>4. In({"001", "433"}, toClient \o u) = In({"001", "433"}, toClient)
      /\ In({"433"}, toClient \o u) = In({"433"}, toClient)
  BY <1>1, <1>3, InWritten
<1>5. In({"001", "433"}, toClient') = In({"001", "433"}, toClient \o u)
      /\ In({"433"}, toClient') = In({"433"}, toClient \o u)
  BY <1>2
<1>6. toClient' \in Seq(Down)
  BY <1>1, <1>2, WriteOK
<1>. QED BY <1>2, <1>4, <1>5, <1>6 DEF Basics, Handshake

LEMMA OneDown ==
  ASSUME NEW v \in {"JOIN", "PART", "404", "474", "PRIVMSG", "HISTORY"}, NEW c \in Chans,
         NEW m \in Msgs
  PROVE  LET u == <<Line(v, c, m)>>
         IN  u \in Seq(Down) /\ \A i \in 1..Len(u) : u[i].verb \notin {"001", "433"}
<1>1. Line(v, c, m) \in Down /\ Line(v, c, m).verb = v
  BY LineOK, LineIs DEF Tells
<1>. QED BY <1>1, OneOK

LEMMA RegisterBasics == Basics /\ Register => Basics'
<1>. SUFFICES ASSUME Basics, Register PROVE Basics'
  OBVIOUS
<1>1. toServer \in Seq(Up) /\ toServer # <<>> /\ toServer' = Tail(toServer)
      /\ Head(toServer).verb = "NICK" /\ link = "up"
  BY DEF Basics, AgentOK, Register
<1>2. toServer' \in Seq(Up) /\ Head(toServer) = toServer[1] /\ Len(toServer) \in Nat \ {0}
  BY <1>1, ReadOK
<1>3. 1 \in In({"NICK"}, toServer)
  BY <1>1, <1>2 DEF In
<1>4. reg # "current" /\ toClient = <<>> /\ In({"NICK"}, toServer) \subseteq {1}
  BY <1>3 DEF Basics, Handshake
<1>5. In({"NICK"}, toServer') = {}
  BY <1>1, <1>4, InRead
<1>6. PICK v \in {"001", "433"} : /\ Written(<<Bare(v)>>)
                                  /\ v = "001" => reg = "none" /\ reg' = "current"
                                  /\ v = "433" => reg' = reg
  BY DEF Register
<1>. DEFINE l == Bare(v)
<1>7. l \in Down /\ l.verb = v
  BY LineOK, LineIs
<1>8. toClient' = <<l>>
  <2>1. toClient' = <<>> \o <<l>>
    BY <1>4, <1>6 DEF Written
  <2>2. <<l>> \in Seq(Down)
    BY <1>7, OneOK
  <2>. QED BY <2>1, <2>2, ConcatEmptySeq
<1>. HIDE DEF l
<1>9. toClient' \in Seq(Down) /\ Len(toClient') = 1 /\ toClient'[1] = l
  BY <1>7, <1>8, OneOK
<1>10. In({"001", "433"}, toClient') \subseteq {1} /\ (v = "001" => In({"433"}, toClient') = {})
  BY <1>7, <1>9 DEF In
<1>11. AgentOK'
  BY <1>2, <1>9 DEF Basics, AgentOK, Register
<1>12. ServerOK'
  BY <1>6 DEF Basics, ServerOK, Register
<1>13. Handshake'
  <2>1. toClient' # <<>>
    BY <1>9, EmptySeq
  <2>. QED BY <1>1, <1>4, <1>5, <1>6, <1>7, <1>9, <1>10, <2>1 DEF Basics, Handshake, Register
<1>14. Session'
  BY <1>4, <1>6 DEF Basics, Session, Register
<1>. QED BY <1>11, <1>12, <1>13, <1>14, StoreSame, BuffersSame DEF Basics, Register

LEMMA ServerNoticesBasics == Basics /\ ServerNotices => Basics'
<1>. SUFFICES ASSUME Basics, ServerNotices PROVE Basics'
  OBVIOUS
<1>1. AgentOK' /\ ServerOK'
  BY DEF Basics, AgentOK, ServerOK, ServerNotices
<1>2. Handshake'
  BY DEF Basics, Handshake, ServerNotices
<1>3. Session'
  BY DEF Basics, Session, ServerNotices
<1>. QED BY <1>1, <1>2, <1>3, StoreSame, BuffersSame DEF Basics, ServerNotices

\* A line that is read without an answer and without a change.
LEMMA ReadsBasics ==
  ASSUME Basics, NEW verb, Reads(verb),
         UNCHANGED <<agentVars, bufferVars, link, toClient, sessionVars, access, said, relaying,
                     turns>>, StoreOK'
  PROVE  Basics'
<1>1. toServer' \in Seq(Up) /\ reg = "current" /\ In({"NICK"}, toServer') = {}
      /\ In({"001", "433"}, toClient) \subseteq {1} /\ In({"433"}, toClient) = {}
  BY ReadsOK
<1>2. AgentOK'
  BY <1>1 DEF Basics, AgentOK
<1>3. Handshake'
  BY <1>1, HandshakeKept
<1>. QED BY <1>2, <1>3, ServerSame, BuffersSame, SessionSame DEF Basics

LEMMA JoinArchivedBasics == Basics /\ JoinArchived => Basics'
BY ReadsBasics, StoreSame DEF Basics, JoinArchived

LEMMA JoinAgainBasics == Basics /\ JoinAgain => Basics'
BY ReadsBasics, StoreSame DEF Basics, JoinAgain

\* A line that is answered.
LEMMA AnswersBasics ==
  ASSUME Basics, NEW verb, Reads(verb), NEW u \in Seq(Down),
         \A i \in 1..Len(u) : u[i].verb \notin {"001", "433"}, Written(u),
         UNCHANGED <<agentVars, bufferVars, link, reg>>,
         ServerOK', StoreOK', Session'
  PROVE  Basics'
<1>1. toServer' \in Seq(Up) /\ reg = "current" /\ In({"NICK"}, toServer') = {}
  BY ReadsOK
<1>2. toClient' \in Seq(Down)
      /\ In({"001", "433"}, toClient') \subseteq {1} /\ In({"433"}, toClient') = {}
  BY <1>1, WrittenOK
<1>3. AgentOK'
  BY <1>1, <1>2 DEF Basics, AgentOK
<1>4. Handshake'
  BY <1>1, <1>2, HandshakeKept
<1>. QED BY <1>3, <1>4, BuffersSame DEF Basics

LEMMA JoinDeniedBasics == Basics /\ JoinDenied => Basics'
<1>. SUFFICES ASSUME Basics, JoinDenied PROVE Basics'
  OBVIOUS
<1>1. Reads("JOIN") /\ Target \in Chans /\ Written(<<Line("474", Target, Own)>>)
  BY ReadsOK DEF JoinDenied, Asks
<1>2. /\ <<Line("474", Target, Own)>> \in Seq(Down)
      /\ \A i \in 1..Len(<<Line("474", Target, Own)>>) :
           <<Line("474", Target, Own)>>[i].verb \notin {"001", "433"}
  BY <1>1, OneDown, OwnMsg
<1>3. reg = "current" /\ link = "up"
  BY <1>1, ReadsOK
<1>4. ServerOK'
  BY <1>1 DEF Basics, ServerOK, JoinDenied
<1>5. Session'
  BY <1>1, <1>3 DEF Basics, Session, JoinDenied
<1>6. StoreOK'
  BY StoreSame DEF Basics, JoinDenied
<1>7. UNCHANGED <<agentVars, bufferVars, link, reg>>
  BY DEF JoinDenied
<1>. QED BY <1>1, <1>2, <1>4, <1>5, <1>6, <1>7, AnswersBasics

LEMMA OthersOK == \A h \in Seq(Msgs) : OfOthers(h) \subseteq Msgs \ {Own}
<1>. SUFFICES ASSUME NEW h \in Seq(Msgs) PROVE OfOthers(h) \subseteq Msgs \ {Own}
  OBVIOUS
<1>1. \A i \in DOMAIN h : h[i] \in Msgs
  BY LenProperties, ElementOfSeq
<1>. QED BY <1>1 DEF OfOthers, ToSet

LEMMA JoinBasics == Basics /\ Join => Basics'
<1>. SUFFICES ASSUME Basics, Join PROVE Basics'
  OBVIOUS
<1>1. Reads("JOIN") /\ Target \in Chans /\ Written(<<Line("JOIN", Target, Own)>>)
  BY ReadsOK DEF Join, Asks
<1>2. /\ <<Line("JOIN", Target, Own)>> \in Seq(Down)
      /\ \A i \in 1..Len(<<Line("JOIN", Target, Own)>>) :
           <<Line("JOIN", Target, Own)>>[i].verb \notin {"001", "433"}
  BY <1>1, OneDown, OwnMsg
<1>3. reg = "current" /\ link = "up"
  BY <1>1, ReadsOK
<1>4. OfOthers(history[Target]) \subseteq Msgs \ {Own}
  BY <1>1, OthersOK DEF Basics, StoreOK
<1>. DEFINE t == Target
<1>5. PICK d \in SUBSET (Msgs \ {Own}) : due' = [due EXCEPT ![t] = d]
  BY <1>4 DEF Join
<1>6. t \in Chans /\ members' = members \cup {t}
  BY <1>1 DEF Join
<1>. HIDE DEF t
<1>7. ServerOK'
  BY <1>5, <1>6 DEF Basics, ServerOK, Join
<1>8. Session'
  BY <1>3, <1>5, <1>6 DEF Basics, Session, ServerOK, Join
<1>9. StoreOK'
  BY StoreSame DEF Basics, Join
<1>10. UNCHANGED <<agentVars, bufferVars, link, reg>>
  BY DEF Join
<1>. QED BY <1>1, <1>2, <1>7, <1>8, <1>9, <1>10, AnswersBasics

\* The agent is in a channel no more.
LEMMA LeftOK ==
  ASSUME ServerOK, Session, NEW c \in Chans, Left(c), asked' \subseteq asked,
         reg = "none" => c \notin members,
         UNCHANGED <<reg, access, said, relaying, link, process>>, turns' \in Nat,
         turns' = 0 => turns = 0
  PROVE  ServerOK' /\ Session'
<1>1. members' = members \ {c} /\ refused' = refused \ {c} /\ due' = [due EXCEPT ![c] = {}]
  BY DEF Left
<1>2. ServerOK'
  BY <1>1 DEF ServerOK
<1>3. Session'
  BY <1>1 DEF ServerOK, Session
<1>. QED BY <1>2, <1>3

LEMMA PartBasics == Basics /\ Part => Basics'
<1>. SUFFICES ASSUME Basics, Part PROVE Basics'
  OBVIOUS
<1>1. Reads("PART") /\ Target \in Chans
  BY ReadsOK DEF Part, Asks
<1>2. StoreOK'
  BY StoreSame DEF Basics, Part
<1>3. UNCHANGED <<agentVars, bufferVars, link, reg, access, said, relaying, turns, asked>>
  BY DEF Part
<1>4. CASE Target \notin members
  <2>1. UNCHANGED <<toClient, sessionVars>>
    BY <1>4 DEF Part
  <2>. QED BY <1>1, <1>2, <1>3, <2>1, ReadsBasics
<1>5. CASE Target \in members
  <2>1. Left(Target) /\ Written(<<Line("PART", Target, Own)>>)
    BY <1>5 DEF Part
  <2>2. /\ <<Line("PART", Target, Own)>> \in Seq(Down)
        /\ \A i \in 1..Len(<<Line("PART", Target, Own)>>) :
             <<Line("PART", Target, Own)>>[i].verb \notin {"001", "433"}
    BY <1>1, OneDown, OwnMsg
  <2>3. reg = "current" /\ turns \in Nat
    BY <1>1, ReadsOK DEF Basics, ServerOK
  <2>4. ServerOK' /\ Session'
    BY <1>1, <1>3, <2>1, <2>3, LeftOK DEF Basics
  <2>. QED BY <1>1, <1>2, <1>3, <2>1, <2>2, <2>4, AnswersBasics
<1>. QED BY <1>4, <1>5

\* The answer to HISTORY.
LEMMA RecentLines ==
  ASSUME StoreOK, NEW c \in Chans
  PROVE  LET u == [i \in DOMAIN history[c] |-> Line("HISTORY", c, history[c][i])]
         IN  /\ u \in Seq(Down)
             /\ Len(u) = Len(history[c])
             /\ \A i \in 1..Len(u) : u[i] = Line("HISTORY", c, history[c][i])
             /\ \A i \in 1..Len(u) : u[i].verb = "HISTORY"
<1>. DEFINE h == history[c]
            n == Len(h)
            u == [i \in DOMAIN h |-> Line("HISTORY", c, h[i])]
<1>1. n \in Nat /\ DOMAIN h = 1..n /\ \A i \in 1..n : h[i] \in Msgs
  BY LenProperties, ElementOfSeq DEF StoreOK
<1>2. \A i \in 1..n : Line("HISTORY", c, h[i]) \in Down /\ Line("HISTORY", c, h[i]).verb = "HISTORY"
  BY <1>1, LineOK, LineIs DEF Tells
<1>. HIDE DEF h, n
<1>3. u \in [1..n -> Down] /\ \A i \in 1..n : u[i] = Line("HISTORY", c, h[i])
  BY <1>1, <1>2
<1>. HIDE DEF u
<1>4. u \in Seq(Down) /\ Len(u) = n
  BY <1>1, <1>3
<1>5. \A i \in 1..Len(u) : u[i].verb = "HISTORY"
  BY <1>2, <1>3, <1>4
<1>. QED BY <1>3, <1>4, <1>5 DEF u, h, n

LEMMA RecentBasics == Basics /\ Recent => Basics'
<1>. SUFFICES ASSUME Basics, Recent PROVE Basics'
  OBVIOUS
<1>1. Reads("HISTORY") /\ Target \in Chans
  BY ReadsOK DEF Recent, Asks
<1>2. ServerOK' /\ StoreOK' /\ Session'
  BY ServerSame, StoreSame, SessionSame DEF Basics, Recent
<1>3. UNCHANGED <<agentVars, bufferVars, link, reg>>
  BY DEF Recent
<1>4. PICK u \in Seq(Down) : Written(u) /\ \A i \in 1..Len(u) : u[i].verb \notin {"001", "433"}
  <2>1. CASE Target \in members
    <3>. DEFINE u == [i \in DOMAIN history[Target] |-> Line("HISTORY", Target, history[Target][i])]
    <3>1. u \in Seq(Down) /\ \A i \in 1..Len(u) : u[i].verb = "HISTORY"
      BY <1>1, RecentLines DEF Basics
    <3>2. Written(u)
      BY <2>1 DEF Recent
    <3>. QED BY <3>1, <3>2
  <2>2. CASE Target \notin members
    <3>1. Written(<<>>) /\ <<>> \in Seq(Down) /\ \A i \in 1..Len(<<>>) : FALSE
      BY <2>2 DEF Recent
    <3>. QED BY <3>1
  <2>. QED BY <2>1, <2>2
<1>. QED BY <1>1, <1>2, <1>3, <1>4, AnswersBasics

LEMMA StoredOK ==
  ASSUME StoreOK, NEW c \in Chans, NEW m \in Msgs,
         history' = [history EXCEPT ![c] = Append(@, m)], UNCHANGED committed
  PROVE  StoreOK'
<1>1. history \in [Chans -> Seq(Msgs)] /\ committed \in [Chans -> Nat]
      /\ \A d \in Chans : committed[d] <= Len(history[d])
  BY DEF StoreOK
<1>2. /\ Append(history[c], m) \in Seq(Msgs) /\ Len(Append(history[c], m)) = Len(history[c]) + 1
      /\ Len(history[c]) \in Nat
  BY <1>1, AppendProperties, LenProperties
<1>3. history' \in [Chans -> Seq(Msgs)]
  BY <1>1, <1>2
<1>4. ASSUME NEW d \in Chans PROVE committed'[d] <= Len(history'[d])
  <2>1. CASE d = c
    <3>1. committed[c] <= Len(history[c]) /\ committed[c] \in Nat
      BY <1>1
    <3>2. committed[c] <= Len(history[c]) + 1
      BY <1>2, <3>1
    <3>. QED BY <1>1, <1>2, <2>1, <3>2
  <2>2. CASE d # c
    BY <1>1, <2>2
  <2>. QED BY <2>1, <2>2
<1>. QED BY <1>1, <1>3, <1>4 DEF StoreOK

LEMMA PrivmsgBasics == Basics /\ Privmsg => Basics'
<1>. SUFFICES ASSUME Basics, Privmsg PROVE Basics'
  OBVIOUS
<1>1. Reads("PRIVMSG") /\ Target \in Chans
  BY ReadsOK DEF Privmsg, Asks
<1>2. ServerOK' /\ Session'
  BY ServerSame, SessionSame DEF Basics, Privmsg
<1>3. UNCHANGED <<agentVars, bufferVars, link, sessionVars, access, said, relaying, turns>>
  BY DEF Privmsg
<1>4. CASE Target \in members
  <2>1. history' = [history EXCEPT ![Target] = Append(@, Own)] /\ UNCHANGED <<toClient, committed>>
    BY <1>4 DEF Privmsg
  <2>2. StoreOK'
    BY <1>1, <2>1, OwnMsg, StoredOK DEF Basics
  <2>. QED BY <1>1, <1>3, <2>1, <2>2, ReadsBasics
<1>5. CASE Target \notin members
  <2>1. StoreOK'
    BY <1>5, StoreSame DEF Basics, Privmsg
  <2>2. PICK u \in Seq(Down) : Written(u) /\ \A i \in 1..Len(u) : u[i].verb \notin {"001", "433"}
    <3>1. CASE Written(<<>>)
      <4>1. <<>> \in Seq(Down) /\ \A i \in 1..Len(<<>>) : FALSE
        OBVIOUS
      <4>. QED BY <3>1, <4>1
    <3>2. CASE Written(<<Line("404", Target, Own)>>)
      BY <1>1, <3>2, OneDown, OwnMsg
    <3>. QED BY <1>5, <3>1, <3>2 DEF Privmsg
  <2>. QED BY <1>1, <1>2, <1>3, <2>1, <2>2, AnswersBasics
<1>. QED BY <1>4, <1>5

LEMMA SayBasics == Basics /\ Say => Basics'
<1>. SUFFICES ASSUME Basics, Say PROVE Basics'
  OBVIOUS
<1>. DEFINE m == said + 1
<1>1. PICK c \in Chans :
        /\ relaying' = relaying \cup {[chan |-> c, msg |-> m, pending |-> c \in members /\ reg = "current"]}
        /\ due' = IF c \in members /\ reg = "current" THEN [due EXCEPT ![c] = @ \cup {m}] ELSE due
  BY DEF Say
<1>2. m \in 1..MaxSaid /\ m \in Msgs \ {Own} /\ said' = m /\ m \in 0..MaxSaid
  BY TransportBoundsAssumption DEF Basics, ServerOK, Say, Msgs, Own
<1>. HIDE DEF m
<1>3. \E p \in BOOLEAN : /\ relaying' = relaying \cup {[chan |-> c, msg |-> m, pending |-> p]}
                         /\ p => c \in members /\ reg = "current"
  <2>1. CASE c \in members /\ reg = "current"
    <3>1. (c \in members /\ reg = "current") = TRUE
      BY <2>1
    <3>2. relaying' = relaying \cup {[chan |-> c, msg |-> m, pending |-> TRUE]}
      BY <1>1, <3>1
    <3>. QED BY <2>1, <3>2
  <2>2. CASE ~(c \in members /\ reg = "current")
    <3>1. (c \in members /\ reg = "current") = FALSE
      BY <2>2
    <3>2. relaying' = relaying \cup {[chan |-> c, msg |-> m, pending |-> FALSE]}
      BY <1>1, <3>1
    <3>. QED BY <3>2
  <2>. QED BY <2>1, <2>2
<1>4. PICK p \in BOOLEAN : /\ relaying' = relaying \cup {[chan |-> c, msg |-> m, pending |-> p]}
                           /\ p => c \in members /\ reg = "current"
  BY <1>3
<1>5. /\ relaying' \subseteq [chan : Chans, msg : 1..MaxSaid, pending : BOOLEAN]
      /\ reg # "current" => \A r \in relaying' : ~r.pending
  <2>1. relaying \subseteq [chan : Chans, msg : 1..MaxSaid, pending : BOOLEAN]
        /\ (reg # "current" => \A r \in relaying : ~r.pending)
    BY DEF Basics, ServerOK, Session
  <2>2. [chan |-> c, msg |-> m, pending |-> p] \in [chan : Chans, msg : 1..MaxSaid, pending : BOOLEAN]
        /\ [chan |-> c, msg |-> m, pending |-> p].pending = p
    BY <1>2
  <2>. QED BY <1>4, <2>1, <2>2
<1>6. /\ due' \in [Chans -> SUBSET (Msgs \ {Own})]
      /\ \A d \in Chans : due'[d] = due[d] \/ (d \in members /\ reg = "current")
  <2>1. due \in [Chans -> SUBSET (Msgs \ {Own})]
    BY DEF Basics, ServerOK
  <2>2. CASE c \in members /\ reg = "current"
    <3>1. due' = [due EXCEPT ![c] = due[c] \cup {m}]
      BY <1>1, <2>2
    <3>. QED BY <1>2, <2>1, <2>2, <3>1
  <2>3. CASE ~(c \in members /\ reg = "current")
    <3>1. due' = due
      BY <1>1, <2>3
    <3>. QED BY <2>1, <3>1
  <2>. QED BY <2>2, <2>3
<1>7. ServerOK'
  BY <1>2, <1>5, <1>6 DEF Basics, ServerOK, Say
<1>8. Session'
  BY <1>5, <1>6 DEF Basics, Session, Say
<1>9. AgentOK' /\ Handshake'
  BY DEF Basics, AgentOK, Handshake, Say
<1>. QED BY <1>7, <1>8, <1>9, StoreSame, BuffersSame DEF Basics, Say

LEMMA RelayBasics == Basics /\ Relay => Basics'
<1>. SUFFICES ASSUME Basics, Relay PROVE Basics'
  OBVIOUS
<1>1. PICK r \in relaying :
        /\ r.pending /\ Written(<<Line("PRIVMSG", r.chan, r.msg)>>)
        /\ relaying' = (relaying \ {r}) \cup {[r EXCEPT !.pending = FALSE]}
  BY DEF Relay
<1>2. relaying \subseteq [chan : Chans, msg : 1..MaxSaid, pending : BOOLEAN]
  BY DEF Basics, ServerOK
<1>3. reg = "current" /\ r.chan \in Chans /\ r.msg \in Msgs
  BY <1>1, <1>2, TransportBoundsAssumption DEF Basics, Session, Msgs
<1>4. /\ toClient' \in Seq(Down)
      /\ In({"001", "433"}, toClient') \subseteq {1} /\ In({"433"}, toClient') = {}
  BY <1>1, <1>3, OneDown, WrittenOK
<1>5. In({"NICK"}, toServer) = {}
  BY <1>3 DEF Basics, Handshake
<1>6. relaying' \subseteq [chan : Chans, msg : 1..MaxSaid, pending : BOOLEAN]
  BY <1>1, <1>2
<1>7. AgentOK' /\ ServerOK'
  BY <1>4, <1>6 DEF Basics, AgentOK, ServerOK, Relay
<1>8. Handshake'
  BY <1>3, <1>4, <1>5, HandshakeKept DEF Relay
<1>9. Session'
  BY <1>3 DEF Basics, Session, Relay
<1>. QED BY <1>7, <1>8, <1>9, StoreSame, BuffersSame DEF Basics, Relay

LEMMA StoreBasics == Basics /\ Store => Basics'
<1>. SUFFICES ASSUME Basics, Store PROVE Basics'
  OBVIOUS
<1>1. PICK r \in relaying :
        /\ ~r.pending /\ history' = [history EXCEPT ![r.chan] = Append(@, r.msg)]
        /\ relaying' = relaying \ {r}
  BY DEF Store
<1>2. r.chan \in Chans /\ r.msg \in Msgs
  BY <1>1, TransportBoundsAssumption DEF Basics, ServerOK, Msgs
<1>3. StoreOK'
  BY <1>1, <1>2, StoredOK DEF Basics, Store
<1>4. AgentOK' /\ Handshake'
  BY DEF Basics, AgentOK, Handshake, Store
<1>5. ServerOK' /\ Session'
  BY <1>1 DEF Basics, ServerOK, Session, Store
<1>. QED BY <1>3, <1>4, <1>5, BuffersSame DEF Basics, Store

LEMMA ExpelBasics == Basics /\ Expel => Basics'
<1>. SUFFICES ASSUME Basics, Expel PROVE Basics'
  OBVIOUS
<1>1. PICK c \in members :
        /\ Left(c) /\ asked' = asked \ {c}
        /\ toClient' = IF reg = "current" THEN Append(toClient, Line("PART", c, Own)) ELSE toClient
  BY DEF Expel
<1>2. c \in Chans /\ turns \in Nat /\ turns' = turns + 1 /\ toClient \in Seq(Down)
  BY DEF Basics, ServerOK, AgentOK, Expel, Turn
<1>3. turns' \in Nat /\ turns' # 0
  BY <1>2
<1>4. reg # "none"
  BY DEF Basics, Session
<1>5. ServerOK' /\ Session'
  BY <1>1, <1>2, <1>3, <1>4, LeftOK DEF Basics, Expel
<1>6. toClient' \in Seq(Down) /\ Handshake'
  <2>1. CASE reg = "current"
    <3>1. Written(<<Line("PART", c, Own)>>)
      BY <1>1, <1>2, <2>1, LineOK, OwnMsg, AppendIsConcat DEF Written, Tells
    <3>2. /\ toClient' \in Seq(Down)
          /\ In({"001", "433"}, toClient') \subseteq {1} /\ In({"433"}, toClient') = {}
      BY <1>2, <2>1, <3>1, OneDown, OwnMsg, WrittenOK
    <3>3. In({"NICK"}, toServer) = {}
      BY <2>1 DEF Basics, Handshake
    <3>. QED BY <2>1, <3>2, <3>3, HandshakeKept DEF Expel
  <2>2. CASE reg # "current"
    BY <1>1, <1>2, <2>2 DEF Basics, Handshake, Expel
  <2>. QED BY <2>1, <2>2
<1>7. AgentOK'
  BY <1>6 DEF Basics, AgentOK, Expel
<1>. QED BY <1>5, <1>6, <1>7, StoreSame, BuffersSame DEF Basics, Expel

\* A change of what a channel lets an agent do.
LEMMA AccessBasics ==
  ASSUME Basics, Turn, NEW c \in Chans, NEW a \in {"open", "archived", "denied"},
         access' = [access EXCEPT ![c] = a],
         UNCHANGED <<agentVars, bufferVars, wireVars, sessionVars, said, relaying, history, committed>>
  PROVE  Basics'
<1>1. turns' \in Nat /\ turns' # 0
  BY DEF Basics, ServerOK, Turn
<1>2. AgentOK' /\ Handshake'
  BY DEF Basics, AgentOK, Handshake
<1>3. ServerOK'
  BY <1>1 DEF Basics, ServerOK
<1>4. Session'
  BY <1>1 DEF Basics, Session
<1>. QED BY <1>2, <1>3, <1>4, StoreSame, BuffersSame DEF Basics

LEMMA ArchiveBasics == Basics /\ Archive => Basics'
BY AccessBasics DEF Archive

LEMMA ChangeRightsBasics == Basics /\ ChangeRights => Basics'
BY AccessBasics DEF ChangeRights

LEMMA NextBasics == Basics /\ [TransportNext]_transportVars => Basics'
<1>. SUFFICES ASSUME Basics, [TransportNext]_transportVars PROVE Basics'
  OBVIOUS
<1>1. CASE Agent
  BY <1>1, ConnectToServerBasics, DialBasics, ReadLoopEndsBasics, DisconnectBasics, GotWelcomeBasics,
     GotNickInUseBasics, GotJoinBasics, GotRemovalBasics, GotMessageBasics, JoinChannelBasics,
     PartChannelBasics, SendPrivmsgBasics, ReadChannelBasics DEF Agent
<1>2. CASE Server
  BY <1>2, RegisterBasics, ServerNoticesBasics, JoinArchivedBasics, JoinDeniedBasics,
     JoinAgainBasics, JoinBasics, PartBasics, RecentBasics, PrivmsgBasics, SayBasics, RelayBasics,
     StoreBasics, ExpelBasics, ArchiveBasics, ChangeRightsBasics DEF Server
<1>3. CASE Faults
  BY <1>3, BreakBasics, ServerRestartsBasics DEF Faults
<1>4. CASE UNCHANGED transportVars
  <2>1. AgentOK' /\ Handshake'
    BY <1>4 DEF Basics, AgentOK, Handshake, transportVars
  <2>. QED BY <1>4, <2>1, ServerSame, StoreSame, BuffersSame, SessionSame DEF Basics, transportVars
<1>. QED BY <1>1, <1>2, <1>3, <1>4 DEF TransportNext

LEMMA AlwaysBasics == TransportSpec => []Basics
BY InitBasics, NextBasics, PTL DEF TransportSpec

LEMMA BasicsTyped == Basics => TransportTypeOK
<1>. SUFFICES ASSUME Basics PROVE TransportTypeOK
  OBVIOUS
<1>1. AgentOK /\ ServerOK /\ StoreOK /\ BuffersOK
  BY DEF Basics
<1>2. ASSUME NEW c \in Chans
      PROVE  /\ history[c] \in Seq(Msgs) /\ committed[c] \in 0..Len(history[c])
             /\ heard[c] \subseteq Msgs /\ due[c] \subseteq Msgs \ {Own}
             /\ buffer[c].lines \in Seq([msg : Msgs, at : Nat])
             /\ Len(buffer[c].lines) <= MaxBuf
             /\ buffer[c].cursor \in 0..buffer[c].total
  <2>1. history[c] \in Seq(Msgs) /\ committed[c] \in Nat /\ committed[c] <= Len(history[c])
        /\ Len(history[c]) \in Nat
    BY <1>1, LenProperties DEF StoreOK
  <2>2. heard[c] \subseteq Msgs /\ due[c] \subseteq Msgs \ {Own}
    BY <1>1 DEF BuffersOK, ServerOK
  <2>3. BufferAt(buffer[c], answer[c])
    BY <1>1 DEF BuffersOK
  <2>4. /\ buffer[c].lines \in Seq([msg : Msgs, at : Nat])
        /\ Len(buffer[c].lines) <= MaxBuf
        /\ buffer[c].cursor \in 0..buffer[c].total
    <3>1. buffer[c].total \in Nat /\ buffer[c].cursor \in Nat /\ MaxBuf \in Nat
          /\ buffer[c].lines \in Seq(Entries)
      BY <2>3, MaxBufAssumption DEF BufferAt, Buffers
    <3>. QED BY <2>3, <3>1 DEF BufferAt, Entries
  <2>. QED BY <2>1, <2>2, <2>4
<1>3. said \in 0..MaxSaid /\ relaying \subseteq [chan : Chans, msg : 1..MaxSaid, pending : BOOLEAN]
  BY <1>1 DEF ServerOK
<1>4. {confirms, connected, dialler, reconnecting} \subseteq BOOLEAN
  BY <1>1 DEF AgentOK
<1>. QED BY <1>1, <1>2, <1>3, <1>4 DEF TransportTypeOK, AgentOK, ServerOK

\* The variables of the transport, the session and the server's store have values of
\* their types: the buffer holds at most max_per_channel lines and no cursor passes it.
THEOREM TransportTypeCorrect == TransportSpec => []TransportTypeOK
BY AlwaysBasics, BasicsTyped, PTL

\* Only irc_read answers.
LEMMA OthersAnswerNothing ==
  TransportNext /\ ~ReadChannel => UNCHANGED answer
<1>. SUFFICES ASSUME TransportNext, ~ReadChannel PROVE answer' = answer
  OBVIOUS
<1>1. CASE Agent
  BY <1>1 DEF Agent, ConnectToServer, Dial, ReadLoopEnds, Disconnect, GotWelcome, GotNickInUse, GotJoin,
     GotRemoval, Tracking, GotMessage, JoinChannel, PartChannel, SendPrivmsg
<1>2. CASE Server
  BY <1>2 DEF Server, Register, ServerNotices, JoinArchived, JoinDenied, JoinAgain, Join, Part,
     Recent, Privmsg, Say, Relay, Store, Expel, Archive, ChangeRights
<1>3. CASE Faults
  BY <1>3 DEF Faults, Break, ServerRestarts
<1>. QED BY <1>1, <1>2, <1>3 DEF TransportNext

\* No answer of irc_read repeats a line, goes back, ends before the newest line or is
\* shorter than the caller's limit, the buffer and what is new allow, in any number of
\* channels, with any bound of the buffer and any limits.
THEOREM ReadsOnce == TransportSpec => ReadOnce
<1>. DEFINE Step(c) ==
       answer'[c] # answer[c] =>
         LET new == buffer[c].total - LastAt(answer[c]) IN
         /\ answer'[c][1].at > LastAt(answer[c])
         /\ LastAt(answer'[c]) = buffer[c].total
         /\ \E limit \in Limits : Len(answer'[c]) = Min({limit, MaxBuf, new})
<1>1. ASSUME Basics, ReadChannel PROVE \A c \in Chans : Step(c)
  <2>1. BuffersOK
    BY <1>1 DEF Basics
  <2>2. PICK d \in Chans, limit \in Limits :
          /\ BufferAt(buffer[d], answer[d]) /\ Unread(buffer[d]) > 0
          /\ answer' = [answer EXCEPT ![d] = Read(buffer[d], limit)]
    BY <1>1, <2>1, ReadStep
  <2>. DEFINE b == buffer[d]
              x == Read(b, limit)
              new == b.total - LastAt(answer[d])
              n == IF limit < Unread(b) THEN limit ELSE Unread(b)
  <2>3. limit \in Nat \ {0} /\ MaxBuf \in Nat
    BY LimitsAssumption, MaxBufAssumption
  <2>4. /\ x \in Seq(Entries)
        /\ Len(x) = IF MaxBuf < n THEN MaxBuf ELSE n
        /\ Len(x) # 0
        /\ x[1].at > b.cursor
        /\ x[Len(x)].at = b.total
    BY <2>2, <2>3, Answers
  <2>5. b.cursor = LastAt(answer[d]) /\ Unread(b) = new /\ new \in Nat
    <3>1. b.total \in Nat /\ b.cursor \in Nat /\ b.cursor <= b.total /\ LastAt(answer[d]) = b.cursor
      BY <2>2 DEF BufferAt, Buffers
    <3>. QED BY <3>1 DEF Unread
  <2>6. LastAt(x) = b.total
    BY <2>4, EmptySeq DEF LastAt
  <2>7. Len(x) = Min({limit, MaxBuf, new})
    <3>1. Min({limit, MaxBuf, new}) = LET m == IF limit < new THEN limit ELSE new
                                      IN IF MaxBuf < m THEN MaxBuf ELSE m
      BY <2>3, <2>5, MinOfThree
    <3>. QED BY <2>4, <2>5, <3>1
  <2>8. answer'[d] = x /\ \A c \in Chans : c # d => answer'[c] = answer[c]
    <3>1. answer \in [Chans -> Seq(Entries)]
      BY <2>1 DEF BuffersOK
    <3>. QED BY <2>2, <3>1
  <2>. HIDE DEF x
  <2>9. Step(d)
    BY <2>4, <2>5, <2>6, <2>7, <2>8
  <2>. QED BY <2>8, <2>9
<1>2. Basics /\ [TransportNext]_transportVars => [\A c \in Chans : Step(c)]_transportVars
  <2>. SUFFICES ASSUME Basics, TransportNext, ~ReadChannel PROVE \A c \in Chans : Step(c)
    BY <1>1
  <2>. QED BY OthersAnswerNothing
<1>. QED BY <1>2, AlwaysBasics, PTL DEF TransportSpec, ReadOnce

-----------------------------------------------------------------------------
(* What the agent believes and what the server knows.                        *)

LEMMA HasWritten ==
  ASSUME NEW S, NEW t \in Seq(S), NEW u \in Seq(S), NEW X
  PROVE  Has(t \o u, X) <=> Has(t, X) \/ Has(u, X)
<1>1. Has(t, X) => Has(t \o u, X)
  <2>1. \A i \in 1..Len(t) : i \in 1..Len(t \o u) /\ (t \o u)[i] = t[i]
    BY WriteOK
  <2>. QED BY <2>1 DEF Has
<1>2. Has(u, X) => Has(t \o u, X)
  <2>1. \A i \in 1..Len(u) : Len(t) + i \in 1..Len(t \o u) /\ (t \o u)[Len(t) + i] = u[i]
    BY WriteOK
  <2>. QED BY <2>1 DEF Has
<1>3. Has(t \o u, X) => Has(t, X) \/ Has(u, X)
  <2>. SUFFICES ASSUME NEW i \in 1..Len(t \o u), (t \o u)[i] \in X PROVE Has(t, X) \/ Has(u, X)
    BY DEF Has
  <2>1. CASE i \in 1..Len(t)
    <3>1. (t \o u)[i] = t[i]
      BY <2>1, WriteOK
    <3>. QED BY <2>1, <3>1 DEF Has
  <2>2. CASE i \notin 1..Len(t)
    <3>1. i - Len(t) \in 1..Len(u) /\ (t \o u)[i] = u[i - Len(t)]
      BY <2>2, WriteOK
    <3>. QED BY <3>1 DEF Has
  <2>. QED BY <2>1, <2>2
<1>. QED BY <1>1, <1>2, <1>3

LEMMA HasRead ==
  ASSUME NEW S, NEW t \in Seq(S), t # <<>>, NEW X
  PROVE  Has(t, X) <=> Head(t) \in X \/ Has(Tail(t), X)
<1>. DEFINE u == Tail(t)
            n == Len(t)
<1>1. Head(t) = t[1] /\ n \in Nat \ {0} /\ Len(u) = n - 1
      /\ \A i \in 1..Len(u) : i + 1 \in 1..n /\ u[i] = t[i + 1]
  BY ReadOK
<1>. HIDE DEF u, n
<1>2. Has(u, X) => \E i \in 1..n : t[i] \in X
  BY <1>1 DEF Has
<1>3. t[1] \in X => \E i \in 1..n : t[i] \in X
  BY <1>1
<1>4. ASSUME NEW i \in 1..n, t[i] \in X, i # 1 PROVE Has(u, X)
  <2>1. i - 1 \in 1..Len(u) /\ (i - 1) + 1 = i
    BY <1>1, <1>4
  <2>2. u[i - 1] = t[i]
    BY <1>1, <2>1
  <2>. QED BY <1>4, <2>1, <2>2 DEF Has
<1>5. Has(t, X) <=> \E i \in 1..n : t[i] \in X
  BY DEF Has, n
<1>. QED BY <1>1, <1>2, <1>3, <1>4, <1>5 DEF u

LEMMA HasNone == \A X : ~Has(<<>>, X)
<1>1. 1..Len(<<>>) = {}
  OBVIOUS
<1>. QED BY <1>1 DEF Has

\* The answer to NICK is the first line a registered agent reads.
LEMMA UnwelcomedWritten ==
  ASSUME Basics, reg = "current", reg' = "current", NEW u \in Seq(Down),
         \A i \in 1..Len(u) : u[i].verb \notin {"001", "433"}, Written(u)
  PROVE  Unwelcomed' <=> Unwelcomed
<1>1. toClient \in Seq(Down) /\ toClient' = toClient \o u
  BY DEF Basics, AgentOK, Written
<1>2. CASE toClient = <<>>
  <2>1. toClient' = u
    BY <1>1, <1>2, ConcatEmptySeq
  <2>2. u # <<>> => 1 \in 1..Len(u)
    BY LenProperties, EmptySeq
  <2>. QED BY <1>2, <2>1, <2>2 DEF Unwelcomed
<1>3. CASE toClient # <<>>
  <2>1. 1 \in 1..Len(toClient)
    BY <1>1, <1>3, LenProperties, EmptySeq
  <2>2. toClient'[1] = toClient[1] /\ toClient' # <<>>
    <3>1. Len(toClient') # 0
      BY <1>1, <2>1, WriteOK
    <3>. QED BY <1>1, <2>1, <3>1, WriteOK, EmptySeq
  <2>. QED BY <1>3, <2>2 DEF Unwelcomed
<1>. QED BY <1>2, <1>3

LEMMA UnwelcomedRead ==
  ASSUME Basics, NEW verb, Got(verb), verb # "433", UNCHANGED reg
  PROVE  ~Unwelcomed' /\ (verb # "001" => ~Unwelcomed)
<1>1. /\ toClient # <<>> /\ toClient \in Seq(Down) /\ Head(toClient).verb = verb
      /\ toClient' \in Seq(Down) /\ reg = "current" /\ In({"001", "433"}, toClient') = {}
  BY GotOK
<1>2. Head(toClient) = toClient[1]
  BY <1>1, ReadOK
<1>3. toClient' # <<>> => 1 \in 1..Len(toClient')
  BY <1>1, LenProperties, EmptySeq
<1>4. toClient' # <<>> => toClient'[1].verb \notin {"001", "433"}
  BY <1>1, <1>3 DEF In
<1>. QED BY <1>1, <1>2, <1>4 DEF Unwelcomed

LEMMA UnwelcomedSame == UNCHANGED <<toClient, reg>> => (Unwelcomed' <=> Unwelcomed)
BY DEF Unwelcomed

\* Lines of other channels and other lines say nothing of a channel.
LEMMA Words ==
  ASSUME NEW l \in Lines, NEW c
  PROVE  /\ l \in Joins(c) <=> l.verb = "JOIN" /\ l.chan = c
         /\ l \in Parts(c) <=> l.verb = "PART" /\ l.chan = c
         /\ l \in Recents(c) <=> l.verb = "HISTORY" /\ l.chan = c
         /\ l \in Removals(c) <=> l.verb \in {"PART", "404", "474"} /\ l.chan = c
         /\ \A m : l \in Carries(c, m) <=> l.verb \in {"PRIVMSG", "HISTORY"} /\ l.chan = c /\ l.msg = m
BY DEF Joins, Parts, Recents, Removals, Carries

LEMMA LineWords ==
  ASSUME NEW v \in Asks \cup Tells, NEW d \in Chans, NEW n \in Msgs
  PROVE  LET l == Line(v, d, n)
         IN  /\ l \in Lines
             /\ \A c : /\ l \in Joins(c) <=> v = "JOIN" /\ d = c
                       /\ l \in Parts(c) <=> v = "PART" /\ d = c
                       /\ l \in Recents(c) <=> v = "HISTORY" /\ d = c
                       /\ l \in Removals(c) <=> v \in {"PART", "404", "474"} /\ d = c
                       /\ \A m : l \in Carries(c, m) <=> v \in {"PRIVMSG", "HISTORY"} /\ d = c /\ n = m
<1>. DEFINE l == Line(v, d, n)
<1>1. l \in Lines
  BY LineOK DEF Up, Down
<1>2. l.verb = v /\ l.chan = d /\ l.msg = n
  BY LineIs
<1>. HIDE DEF l
<1>3. \A c : /\ l \in Joins(c) <=> v = "JOIN" /\ d = c
             /\ l \in Parts(c) <=> v = "PART" /\ d = c
             /\ l \in Recents(c) <=> v = "HISTORY" /\ d = c
             /\ l \in Removals(c) <=> v \in {"PART", "404", "474"} /\ d = c
             /\ \A m : l \in Carries(c, m) <=> v \in {"PRIVMSG", "HISTORY"} /\ d = c /\ n = m
  BY <1>1, <1>2 DEF Joins, Parts, Recents, Removals, Carries
<1>. QED BY <1>1, <1>3 DEF l

\* Reading puts no word there that was not on its way.
LEMMA BelievesReadNone ==
  ASSUME NEW t \in Seq(Lines), t # <<>>, NEW c
  PROVE  BelievesIn(Tail(t), {}, c) => BelievesIn(t, {}, c)
<1>. DEFINE M == {x \in {c} : Head(t) \in Joins(c)}
<1>1. c \in M <=> Head(t) \in Joins(c) \/ (c \in {} /\ Head(t) \notin Removals(c))
  OBVIOUS
<1>. HIDE DEF M
<1>2. BelievesIn(t, {}, c) <=> BelievesIn(Tail(t), M, c)
  BY <1>1, BelievesRead
<1>3. BelievesIn(Tail(t), {}, c) => BelievesIn(Tail(t), M, c)
  BY BelievesEver
<1>. QED BY <1>2, <1>3

LEMMA WiresOK == Basics => toServer \in Seq(Lines) /\ toClient \in Seq(Lines)
BY WireLines DEF Basics, AgentOK

-----------------------------------------------------------------------------
(* Echoed, step by step.                                                     *)

\* What keeps it: nothing new is believed, nothing is known less of.
LEMMA EchoedKept ==
  ASSUME NEW c, Echoed(c), confirms' = confirms, reg = "current",
         c \in members' <=> c \in members, c \in refused => c \in refused',
         BelievesIn(toClient', channels', c) <=> BelievesIn(toClient, channels, c),
         BelievesIn(toClient', {}, c) => BelievesIn(toClient, {}, c),
         ~Unwelcomed' => ~Unwelcomed,
         access[c] = "archived" => access'[c] = "archived",
         Has(toServer, Joins(c)) =>
           Has(toServer', Joins(c)) \/ c \in members' \/ access'[c] = "archived"
  PROVE  Echoed(c)'
<1>. SUFFICES ASSUME confirms, reg' = "current"
     PROVE  /\ c \in members' => BelievesIn(toClient', channels', c) \/ c \in refused'
            /\ BelievesIn(toClient', {}, c) => c \in members'
            /\ BelievesIn(toClient', channels', c) /\ ~Unwelcomed' =>
                 c \in members' \/ access'[c] = "archived" \/ Has(toServer', Joins(c))
  BY DEF Echoed, Believes
<1>. QED BY DEF Echoed, Believes

\* What is neither read nor written by the agent.
LEMMA EchoedOthers ==
  ASSUME Basics, NEW c, Echoed(c),
         UNCHANGED <<confirms, reg, members, refused, toClient>>, confirms => channels' = channels,
         access[c] = "archived" => access'[c] = "archived",
         Has(toServer, Joins(c)) =>
           Has(toServer', Joins(c)) \/ c \in members' \/ access'[c] = "archived"
  PROVE  Echoed(c)'
<1>1. CASE ~confirms \/ reg # "current"
  BY <1>1 DEF Echoed
<1>2. CASE confirms /\ reg = "current"
  <2>1. ~Unwelcomed' => ~Unwelcomed
    BY UnwelcomedSame
  <2>. QED BY <1>2, <2>1, EchoedKept
<1>. QED BY <1>1, <1>2

LEMMA EchoedSent ==
  ASSUME Basics, NEW c, Echoed(c), NEW u \in Seq(Up), Sent(u),
         UNCHANGED <<confirms, reg, members, refused, toClient, access>>,
         confirms => channels' = channels
  PROVE  Echoed(c)'
<1>1. toServer \in Seq(Lines) /\ u \in Seq(Lines)
  BY WiresOK, WireLines
<1>2. Has(toServer, Joins(c)) => Has(toServer', Joins(c))
  BY <1>1, HasWritten DEF Sent
<1>. QED BY <1>2, EchoedOthers

\* The agent reads a line.
LEMMA EchoedGot ==
  ASSUME Basics, NEW c, Echoed(c), NEW verb, Got(verb), verb \notin {"001", "433"},
         UNCHANGED <<confirms, reg, members, refused, toServer, access>>,
         confirms => (c \in channels' <=> Head(toClient) \in Joins(c)
                                          \/ (c \in channels /\ Head(toClient) \notin Removals(c)))
  PROVE  Echoed(c)'
<1>1. toClient \in Seq(Lines) /\ toClient # <<>> /\ toClient' = Tail(toClient) /\ reg = "current"
  BY WiresOK, GotOK
<1>2. BelievesIn(toClient', {}, c) => BelievesIn(toClient, {}, c)
  BY <1>1, BelievesReadNone
<1>3. ~Unwelcomed
  BY UnwelcomedRead
<1>4. CASE confirms
  <2>1. BelievesIn(toClient', channels', c) <=> BelievesIn(toClient, channels, c)
    BY <1>1, <1>4, BelievesRead
  <2>. QED BY <1>1, <1>2, <1>3, <2>1, EchoedKept
<1>5. CASE ~confirms
  BY <1>5 DEF Echoed
<1>. QED BY <1>4, <1>5

LEMMA GotWelcomeEchoed ==
  ASSUME Basics, NEW c \in Chans, Echoed(c), GotWelcome PROVE Echoed(c)'
<1>. DEFINE u == SetToSeq({Line("JOIN", d, Own) : d \in channels})
<1>1. Got("001") /\ toServer' = toServer \o u
      /\ UNCHANGED <<confirms, reg, members, refused, channels, access>>
  BY DEF GotWelcome
<1>2. channels \subseteq Chans
  BY DEF Basics, AgentOK
<1>3. u \in Seq(Up) /\ \A d \in channels : \E i \in 1..Len(u) : u[i] = Line("JOIN", d, Own)
  BY <1>2, Rejoining
<1>. HIDE DEF u
<1>4. toClient \in Seq(Lines) /\ toClient # <<>> /\ toClient' = Tail(toClient)
      /\ Head(toClient) \in Lines /\ Head(toClient).verb = "001"
  BY <1>1, WiresOK, GotOK DEF Down
<1>5. Head(toClient) \notin Joins(c) /\ Head(toClient) \notin Removals(c)
  BY <1>4, Words
<1>6. ASSUME NEW N PROVE BelievesIn(toClient', N, c) <=> BelievesIn(toClient, N, c)
  <2>1. c \in N <=> Head(toClient) \in Joins(c) \/ (c \in N /\ Head(toClient) \notin Removals(c))
    BY <1>5
  <2>. QED BY <1>4, <2>1, BelievesRead
<1>7. /\ BelievesIn(toClient', channels, c) <=> BelievesIn(toClient, channels, c)
      /\ BelievesIn(toClient', {}, c) <=> BelievesIn(toClient, {}, c)
  BY <1>6
<1>8. c \in channels => Has(toServer', Joins(c))
  <2>. SUFFICES ASSUME c \in channels PROVE Has(toServer', Joins(c))
    OBVIOUS
  <2>1. Line("JOIN", c, Own) \in Joins(c)
    BY LineWords, OwnMsg DEF Asks
  <2>2. Has(u, Joins(c))
    BY <1>3, <2>1 DEF Has
  <2>. QED BY <1>1, <1>3, <2>2, WiresOK, WireLines, HasWritten
<1>9. BelievesIn(toClient', channels, c) => BelievesIn(toClient', {}, c) \/ c \in channels
  BY BelievesEver
<1>10. channels' = channels
  BY <1>1
<1>. QED BY <1>1, <1>7, <1>8, <1>9, <1>10 DEF Echoed, Believes

\* From is where the line that is read says it is.
LEMMA TrackingEchoed ==
  ASSUME Basics, NEW c \in Chans, Echoed(c), GotJoin \/ GotRemoval PROVE Echoed(c)'
<1>1. PICK verb \in {"JOIN", "PART", "404", "474"} :
        /\ Got(verb)
        /\ channels' = IF confirms THEN (IF verb = "JOIN" THEN channels \cup {From} ELSE channels \ {From})
                                   ELSE channels
        /\ UNCHANGED <<confirms, reg, members, refused, toServer, access>>
  BY DEF GotJoin, GotRemoval, Tracking
<1>2. Head(toClient) \in Lines /\ Head(toClient).verb = verb /\ Head(toClient).chan = From
  BY <1>1, GotOK DEF Down, From
<1>3. /\ Head(toClient) \in Joins(c) <=> verb = "JOIN" /\ From = c
      /\ Head(toClient) \in Removals(c) <=> verb \in {"PART", "404", "474"} /\ From = c
  BY <1>2, Words
<1>4. confirms => (c \in channels' <=> Head(toClient) \in Joins(c)
                                       \/ (c \in channels /\ Head(toClient) \notin Removals(c)))
  BY <1>1, <1>3
<1>. QED BY <1>1, <1>4, EchoedGot

LEMMA GotMessageEchoed ==
  ASSUME Basics, NEW c \in Chans, Echoed(c), GotMessage PROVE Echoed(c)'
<1>1. PICK verb \in {"PRIVMSG", "HISTORY"} : Got(verb)
  BY DEF GotMessage
<1>2. UNCHANGED <<confirms, reg, members, refused, channels, toServer, access>>
  BY DEF GotMessage
<1>3. Head(toClient) \in Lines /\ Head(toClient).verb = verb
  BY <1>1, GotOK DEF Down
<1>4. Head(toClient) \notin Joins(c) /\ Head(toClient) \notin Removals(c)
  BY <1>3, Words
<1>. QED BY <1>1, <1>2, <1>4, EchoedGot

\* The agent's commands.
LEMMA CommandsEchoed ==
  ASSUME Basics, NEW c \in Chans, Echoed(c),
         JoinChannel \/ PartChannel \/ SendPrivmsg \/ ReadChannel
  PROVE  Echoed(c)'
<1>1. CASE JoinChannel
  <2>1. PICK d \in Chans : /\ Sent(<<Line("JOIN", d, Own), Line("HISTORY", d, Own)>>)
                           /\ AskedFor(channels \cup {d})
    BY <1>1 DEF JoinChannel
  <2>2. <<Line("JOIN", d, Own), Line("HISTORY", d, Own)>> \in Seq(Up)
    BY LineOK, OwnMsg, TwoOK DEF Asks
  <2>. QED BY <1>1, <2>1, <2>2, EchoedSent DEF JoinChannel, AskedFor
<1>2. CASE PartChannel
  BY <1>2, OneUp, EchoedSent DEF PartChannel, AskedFor
<1>3. CASE SendPrivmsg
  <2>1. PICK d \in Chans : Sent(<<Line("PRIVMSG", d, Own)>>)
    BY <1>3 DEF SendPrivmsg, Basics, AgentOK
  <2>. QED BY <1>3, <2>1, OneUp, EchoedSent DEF SendPrivmsg
<1>4. CASE ReadChannel
  BY <1>4, EchoedOthers DEF ReadChannel
<1>. QED BY <1>1, <1>2, <1>3, <1>4

\* The server answers a line, or writes one of its own.
LEMMA EchoedWritten ==
  ASSUME Basics, NEW c \in Chans, Echoed(c), reg = "current", NEW u \in Seq(Down),
         \A j \in 1..Len(u) : u[j].verb \notin {"001", "433"}
                              /\ u[j] \notin Joins(c) /\ u[j] \notin Removals(c),
         Written(u), UNCHANGED <<confirms, channels, reg, access>>,
         c \in members' <=> c \in members, c \in refused => c \in refused',
         Has(toServer, Joins(c)) => Has(toServer', Joins(c))
  PROVE  Echoed(c)'
<1>1. toClient \in Seq(Lines) /\ u \in Seq(Lines) /\ toClient' = toClient \o u
  BY WiresOK, WireLines DEF Written
<1>2. ASSUME NEW N PROVE BelievesIn(toClient', N, c) <=> BelievesIn(toClient, N, c)
  BY <1>1, BelievesAfter
<1>3. /\ BelievesIn(toClient', channels', c) <=> BelievesIn(toClient, channels, c)
      /\ BelievesIn(toClient', {}, c) => BelievesIn(toClient, {}, c)
  <2>1. channels' = channels
    OBVIOUS
  <2>. QED BY <1>2, <2>1
<1>4. ~Unwelcomed' => ~Unwelcomed
  BY UnwelcomedWritten
<1>. QED BY <1>3, <1>4, EchoedKept

\* A line that takes the agent from a channel, or refuses it one, has the last word.
LEMMA EchoedRemoved ==
  ASSUME Basics, NEW c \in Chans, NEW v \in {"PART", "404", "474"},
         toClient' = toClient \o <<Line(v, c, Own)>>, c \in members' => c \in refused'
  PROVE  Echoed(c)'
<1>. DEFINE l == Line(v, c, Own)
<1>1. l \in Lines /\ l \in Removals(c) /\ l \notin Joins(c)
  BY LineWords, OwnMsg DEF Tells
<1>. HIDE DEF l
<1>2. toClient \in Seq(Lines) /\ toClient' = toClient \o <<l>>
  BY WiresOK DEF l
<1>3. ASSUME NEW N PROVE ~BelievesIn(toClient', N, c)
  <2>1. BelievesIn(toClient \o <<l>>, N, c) <=>
          l \in Joins(c) \/ (BelievesIn(toClient, N, c) /\ l \notin Removals(c))
    BY <1>1, <1>2, BelievesWritten
  <2>. QED BY <1>1, <1>2, <2>1
<1>4. ~BelievesIn(toClient', channels', c) /\ ~BelievesIn(toClient', {}, c)
  BY <1>3
<1>. QED BY <1>4 DEF Echoed, Believes

\* What is read by the server.
LEMMA JoinsRead ==
  ASSUME Basics, NEW verb \in Asks, Reads(verb), NEW c \in Chans
  PROVE  /\ toServer \in Seq(Lines) /\ toServer # <<>> /\ toServer' = Tail(toServer)
         /\ Head(toServer) \in Lines /\ Head(toServer).verb = verb /\ Head(toServer).chan = Target
         /\ verb # "JOIN" \/ Target # c => (Has(toServer, Joins(c)) => Has(toServer', Joins(c)))
<1>1. /\ toServer \in Seq(Lines) /\ toServer # <<>> /\ toServer' = Tail(toServer)
      /\ Head(toServer) \in Lines /\ Head(toServer).verb = verb /\ Head(toServer).chan = Target
  BY WiresOK, ReadsOK DEF Up, Target
<1>2. verb # "JOIN" \/ Target # c => Head(toServer) \notin Joins(c)
  BY <1>1, Words
<1>. QED BY <1>1, <1>2, HasRead

LEMMA RegisterEchoed ==
  ASSUME Basics, NEW c \in Chans, Register PROVE Echoed(c)'
<1>1. 1 \in In({"NICK"}, toServer)
  <2>1. toServer \in Seq(Up) /\ toServer # <<>> /\ Head(toServer).verb = "NICK"
    BY DEF Basics, AgentOK, Register
  <2>2. Head(toServer) = toServer[1] /\ Len(toServer) \in Nat \ {0}
    BY <2>1, ReadOK
  <2>. QED BY <2>1, <2>2 DEF In
<1>2. toClient = <<>> /\ reg # "current"
  BY <1>1 DEF Basics, Handshake
<1>3. CASE reg' = "current"
  <2>1. reg = "none" /\ toClient' = toClient \o <<Bare("001")>> /\ members' = members
    BY <1>2, <1>3 DEF Register, Written
  <2>2. members' = {}
    BY <2>1 DEF Basics, Session
  <2>3. <<Bare("001")>> \in Seq(Down) /\ Len(<<Bare("001")>>) = 1 /\ <<Bare("001")>>[1].verb = "001"
    BY LineOK, LineIs, OneOK
  <2>4. toClient' = <<Bare("001")>>
    BY <1>2, <2>1, <2>3, ConcatEmptySeq
  <2>5. Unwelcomed'
    BY <2>3, <2>4, EmptySeq DEF Unwelcomed
  <2>6. ~BelievesIn(toClient', {}, c)
    <3>1. Bare("001") \in Lines /\ Bare("001").verb = "001"
      BY LineOK, LineIs DEF Down
    <3>2. Bare("001") \notin Joins(c)
      BY <3>1, Words
    <3>3. <<>> \in Seq(Lines)
      BY EmptySeq
    <3>. DEFINE l == Bare("001")
    <3>. HIDE DEF l
    <3>4. \A N : BelievesIn(<<>> \o <<l>>, N, c) <=>
                   l \in Joins(c) \/ (BelievesIn(<<>>, N, c) /\ l \notin Removals(c))
      BY <3>1, <3>3, BelievesWritten DEF l
    <3>5. \A N : BelievesIn(<<>>, N, c) <=> c \in N
      BY BelievesNow
    <3>6. toClient' = <<>> \o <<l>>
      BY <1>2, <2>1 DEF l
    <3>7. ~BelievesIn(<<>>, {}, c)
      BY <3>5
    <3>. QED BY <3>2, <3>4, <3>6, <3>7 DEF l
  <2>. QED BY <2>2, <2>5, <2>6 DEF Echoed, Believes
<1>4. CASE reg' # "current"
  BY <1>4 DEF Echoed
<1>. QED BY <1>3, <1>4

LEMMA JoinsEchoed ==
  ASSUME Basics, NEW c \in Chans, Echoed(c), JoinArchived \/ JoinDenied \/ JoinAgain \/ Join
  PROVE  Echoed(c)'
<1>1. Reads("JOIN") /\ Target \in Chans /\ reg = "current"
  <2>1. Reads("JOIN")
    BY DEF JoinArchived, JoinDenied, JoinAgain, Join
  <2>. QED BY <2>1, ReadsOK DEF Asks
<1>2. Target # c => (Has(toServer, Joins(c)) => Has(toServer', Joins(c)))
  BY <1>1, JoinsRead DEF Asks
<1>3. CASE JoinArchived
  BY <1>2, <1>3, EchoedOthers DEF JoinArchived
<1>4. CASE JoinAgain
  BY <1>2, <1>4, EchoedOthers DEF JoinAgain
<1>5. CASE JoinDenied
  <2>1. Written(<<Line("474", Target, Own)>>) /\ (c \in refused => c \in refused')
        /\ UNCHANGED <<confirms, channels, reg, access, members>>
    BY <1>5 DEF JoinDenied
  <2>2. CASE Target = c
    <3>1. c \in members' => c \in refused'
      BY <1>5, <2>2 DEF JoinDenied
    <3>. QED BY <2>1, <2>2, <3>1, EchoedRemoved DEF Written
  <2>3. CASE Target # c
    <3>. DEFINE u == <<Line("474", Target, Own)>>
    <3>1. u \in Seq(Down) /\ \A j \in 1..Len(u) : u[j].verb \notin {"001", "433"}
      BY <1>1, OneDown, OwnMsg
    <3>2. \A j \in 1..Len(u) : u[j] \notin Joins(c) /\ u[j] \notin Removals(c)
      <4>1. Line("474", Target, Own) \notin Joins(c) /\ Line("474", Target, Own) \notin Removals(c)
            /\ Line("474", Target, Own) \in Lines
        BY <1>1, <2>3, LineWords, OwnMsg DEF Tells
      <4>. QED BY <4>1, OneOK
    <3>3. Written(u)
      BY <2>1
    <3>. HIDE DEF u
    <3>. QED BY <1>1, <1>2, <2>1, <2>3, <3>1, <3>2, <3>3, EchoedWritten
  <2>. QED BY <2>2, <2>3
<1>6. CASE Join
  <2>1. /\ Written(<<Line("JOIN", Target, Own)>>) /\ members' = members \cup {Target}
        /\ UNCHANGED <<confirms, channels, reg, access, refused>>
    BY <1>6 DEF Join
  <2>. DEFINE l == Line("JOIN", Target, Own)
              u == <<l>>
  <2>2. l \in Lines /\ (l \in Joins(c) <=> Target = c) /\ l \notin Removals(c)
    BY <1>1, LineWords, OwnMsg DEF Asks
  <2>3. u \in Seq(Down) /\ \A j \in 1..Len(u) : u[j].verb \notin {"001", "433"}
    BY <1>1, OneDown, OwnMsg
  <2>4. Written(u)
    BY <2>1
  <2>. HIDE DEF l
  <2>5. CASE Target = c
    <3>1. toClient' = toClient \o <<l>> /\ toClient \in Seq(Lines)
      BY <2>4, WiresOK DEF Written
    <3>2. ASSUME NEW N PROVE BelievesIn(toClient', N, c)
      <4>1. BelievesIn(toClient \o <<l>>, N, c) <=>
              l \in Joins(c) \/ (BelievesIn(toClient, N, c) /\ l \notin Removals(c))
        BY <2>2, <3>1, BelievesWritten
      <4>. QED BY <2>2, <2>5, <3>1, <4>1
    <3>3. BelievesIn(toClient', channels', c) /\ c \in members'
      BY <2>1, <2>5, <3>2
    <3>. QED BY <3>3 DEF Echoed, Believes
  <2>6. CASE Target # c
    <3>1. \A j \in 1..Len(u) : u[j] \notin Joins(c) /\ u[j] \notin Removals(c)
      BY <2>2, <2>6, OneOK
    <3>2. c \in members' <=> c \in members
      BY <2>1, <2>6
    <3>. HIDE DEF u
    <3>. QED BY <1>1, <1>2, <2>1, <2>3, <2>4, <2>6, <3>1, <3>2, EchoedWritten
  <2>. QED BY <2>5, <2>6
<1>. QED BY <1>3, <1>4, <1>5, <1>6

\* Part and Expel: the agent is taken from a channel and told so.
LEMMA LeftEchoed ==
  ASSUME Basics, NEW c \in Chans, Echoed(c), NEW d \in Chans, Left(d), reg = "current",
         toClient' = toClient \o <<Line("PART", d, Own)>>,
         UNCHANGED <<confirms, channels, reg, access>>,
         Has(toServer, Joins(c)) => Has(toServer', Joins(c))
  PROVE  Echoed(c)'
<1>1. members' = members \ {d} /\ refused' = refused \ {d}
  BY DEF Left
<1>2. CASE d = c
  BY <1>1, <1>2, EchoedRemoved
<1>3. CASE d # c
  <2>. DEFINE l == Line("PART", d, Own)
              u == <<l>>
  <2>1. l \in Lines /\ l \notin Joins(c) /\ l \notin Removals(c)
    BY <1>3, LineWords, OwnMsg DEF Asks
  <2>2. u \in Seq(Down) /\ \A j \in 1..Len(u) : u[j].verb \notin {"001", "433"}
    BY OneDown, OwnMsg
  <2>. HIDE DEF l
  <2>3. \A j \in 1..Len(u) : u[j] \notin Joins(c) /\ u[j] \notin Removals(c)
    BY <2>1, OneOK
  <2>4. Written(u)
    BY DEF Written, l
  <2>. HIDE DEF u
  <2>. QED BY <1>1, <1>3, <2>2, <2>3, <2>4, EchoedWritten
<1>. QED BY <1>2, <1>3

LEMMA PartEchoed ==
  ASSUME Basics, NEW c \in Chans, Echoed(c), Part PROVE Echoed(c)'
<1>1. Reads("PART") /\ Target \in Chans /\ reg = "current"
  BY ReadsOK DEF Part, Asks
<1>2. Has(toServer, Joins(c)) => Has(toServer', Joins(c))
  BY <1>1, JoinsRead DEF Asks
<1>3. CASE Target \in members
  BY <1>1, <1>2, <1>3, LeftEchoed DEF Part, Written
<1>4. CASE Target \notin members
  BY <1>2, <1>4, EchoedOthers DEF Part
<1>. QED BY <1>3, <1>4

LEMMA ExpelEchoed ==
  ASSUME Basics, NEW c \in Chans, Echoed(c), Expel PROVE Echoed(c)'
<1>1. PICK d \in members :
        /\ Left(d)
        /\ toClient' = IF reg = "current" THEN Append(toClient, Line("PART", d, Own)) ELSE toClient
  BY DEF Expel
<1>2. d \in Chans
  BY DEF Basics, ServerOK
<1>3. CASE reg = "current"
  <2>1. toClient' = toClient \o <<Line("PART", d, Own)>>
    <3>1. toClient \in Seq(Lines) /\ Line("PART", d, Own) \in Lines
      BY <1>2, WiresOK, LineWords, OwnMsg DEF Asks
    <3>. QED BY <1>1, <1>3, <3>1, AppendIsConcat
  <2>. QED BY <1>1, <1>2, <1>3, <2>1, LeftEchoed DEF Expel
<1>4. CASE reg # "current"
  BY <1>4 DEF Echoed, Expel
<1>. QED BY <1>3, <1>4

LEMMA AnswersEchoed ==
  ASSUME Basics, NEW c \in Chans, Echoed(c), Recent \/ Privmsg PROVE Echoed(c)'
<1>1. PICK verb \in {"HISTORY", "PRIVMSG"} : Reads(verb)
  BY DEF Recent, Privmsg
<1>2. Target \in Chans /\ reg = "current"
  BY <1>1, ReadsOK DEF Asks
<1>3. Has(toServer, Joins(c)) => Has(toServer', Joins(c))
  BY <1>1, JoinsRead DEF Asks
<1>4. UNCHANGED <<confirms, channels, reg, members, refused, access>>
  BY DEF Recent, Privmsg
<1>5. ASSUME Written(<<>>) PROVE Echoed(c)'
  <2>1. toClient' = toClient
    <3>1. toClient \in Seq(Lines)
      BY WiresOK
    <3>. QED BY <1>5, <3>1, ConcatEmptySeq DEF Written
  <2>. QED BY <1>3, <1>4, <2>1, EchoedOthers
<1>6. CASE Recent
  <2>1. CASE Target \in members
    <3>. DEFINE u == [i \in DOMAIN history[Target] |-> Line("HISTORY", Target, history[Target][i])]
    <3>1. u \in Seq(Down) /\ \A i \in 1..Len(u) : u[i].verb = "HISTORY"
      BY <1>2, RecentLines DEF Basics
    <3>2. Written(u)
      BY <1>6, <2>1 DEF Recent
    <3>. HIDE DEF u
    <3>3. \A i \in 1..Len(u) : u[i].verb \notin {"001", "433"}
                               /\ u[i] \notin Joins(c) /\ u[i] \notin Removals(c)
      BY <3>1 DEF Joins, Removals
    <3>. QED BY <1>2, <1>3, <1>4, <3>1, <3>2, <3>3, EchoedWritten
  <2>2. CASE Target \notin members
    BY <1>5, <1>6, <2>2 DEF Recent
  <2>. QED BY <2>1, <2>2
<1>7. CASE Privmsg
  <2>1. CASE Target \in members
    BY <1>3, <1>4, <1>7, <2>1, EchoedOthers DEF Privmsg
  <2>2. CASE Target \notin members /\ Written(<<Line("404", Target, Own)>>)
    <3>1. CASE Target = c
      BY <1>4, <2>2, <3>1, EchoedRemoved DEF Written
    <3>2. CASE Target # c
      <4>. DEFINE l == Line("404", Target, Own)
                  u == <<l>>
      <4>1. l \in Lines /\ l \notin Joins(c) /\ l \notin Removals(c)
        BY <1>2, <3>2, LineWords, OwnMsg DEF Tells
      <4>2. u \in Seq(Down) /\ \A j \in 1..Len(u) : u[j].verb \notin {"001", "433"}
        BY <1>2, OneDown, OwnMsg
      <4>3. Written(u)
        BY <2>2
      <4>. HIDE DEF l
      <4>4. \A j \in 1..Len(u) : u[j] \notin Joins(c) /\ u[j] \notin Removals(c)
        BY <4>1, OneOK
      <4>. HIDE DEF u
      <4>. QED BY <1>2, <1>3, <1>4, <4>2, <4>3, <4>4, EchoedWritten
    <3>. QED BY <3>1, <3>2
  <2>. QED BY <1>5, <1>7, <2>1, <2>2 DEF Privmsg
<1>. QED BY <1>6, <1>7

LEMMA RelayEchoed ==
  ASSUME Basics, NEW c \in Chans, Echoed(c), Relay PROVE Echoed(c)'
<1>1. PICK r \in relaying : r.pending /\ Written(<<Line("PRIVMSG", r.chan, r.msg)>>)
  BY DEF Relay
<1>2. r.chan \in Chans /\ r.msg \in Msgs /\ reg = "current"
  BY <1>1, TransportBoundsAssumption DEF Basics, ServerOK, Session, Msgs
<1>. DEFINE l == Line("PRIVMSG", r.chan, r.msg)
            u == <<l>>
<1>3. l \in Lines /\ l \notin Joins(c) /\ l \notin Removals(c)
  BY <1>2, LineWords DEF Tells
<1>4. u \in Seq(Down) /\ \A j \in 1..Len(u) : u[j].verb \notin {"001", "433"}
  BY <1>2, OneDown
<1>5. Written(u) /\ UNCHANGED <<confirms, channels, reg, members, refused, access, toServer>>
  BY <1>1 DEF Relay
<1>. HIDE DEF l
<1>6. \A j \in 1..Len(u) : u[j] \notin Joins(c) /\ u[j] \notin Removals(c)
  BY <1>3, OneOK
<1>. HIDE DEF u
<1>. QED BY <1>2, <1>4, <1>5, <1>6, EchoedWritten

\* What takes the nick from the agent leaves nothing to be true.
LEMMA EndsEchoed ==
  ASSUME Basics, NEW c \in Chans,
         \/ ConnectToServer \/ Dial \/ ReadLoopEnds \/ Disconnect \/ GotNickInUse \/ ServerNotices
         \/ Break \/ ServerRestarts
  PROVE  Echoed(c)'
<1>1. reg' # "current"
  <2>1. CASE ConnectToServer \/ Dial
    BY <2>1 DEF ConnectToServer, Dial, Opened, Basics, Handshake
  <2>2. CASE ReadLoopEnds
    BY <2>2 DEF ReadLoopEnds, Basics, Handshake
  <2>3. CASE GotNickInUse
    <3>1. reg # "current"
      BY <2>3, GotOK DEF GotNickInUse
    <3>. QED BY <2>3, <3>1 DEF GotNickInUse
  <2>. QED BY <2>1, <2>2, <2>3 DEF Disconnect, ServerNotices, Break, ServerRestarts, Hung
<1>. QED BY <1>1 DEF Echoed

LEMMA RoomsEchoed ==
  ASSUME Basics, NEW c \in Chans, Echoed(c), Say \/ Store \/ Archive \/ ChangeRights
  PROVE  Echoed(c)'
<1>1. UNCHANGED <<confirms, reg, members, refused, toClient, channels, toServer>>
  BY DEF Say, Store, Archive, ChangeRights
<1>2. access[c] = "archived" => access'[c] = "archived"
  BY DEF Say, Store, Archive, ChangeRights, Basics, ServerOK
<1>. QED BY <1>1, <1>2, EchoedOthers

LEMMA EchoedNext ==
  ASSUME Basics, NEW c \in Chans, Echoed(c), [TransportNext]_transportVars PROVE Echoed(c)'
<1>1. CASE Agent
  BY <1>1, EndsEchoed, GotWelcomeEchoed, TrackingEchoed, GotMessageEchoed, CommandsEchoed DEF Agent
<1>2. CASE Server
  BY <1>2, EndsEchoed, RegisterEchoed, JoinsEchoed, PartEchoed, AnswersEchoed, RelayEchoed,
     ExpelEchoed, RoomsEchoed DEF Server
<1>3. CASE Faults
  BY <1>3, EndsEchoed DEF Faults
<1>4. CASE UNCHANGED transportVars
  BY <1>4, EchoedOthers DEF transportVars
<1>. QED BY <1>1, <1>2, <1>3, <1>4 DEF TransportNext

-----------------------------------------------------------------------------
(* Assumed, step by step.                                                    *)

LEMMA AssumedKept ==
  ASSUME NEW c, Assumed(c), confirms' = confirms, link = "up", c \in channels' <=> c \in channels,
         StaysIn(toServer', InNow', c, Len(toServer')) => StaysIn(toServer, InNow, c, Len(toServer)),
         turns' = 0 =>
           /\ turns = 0
           /\ StaysIn(toServer, InNow, c, Len(toServer)) => StaysIn(toServer', InNow', c, Len(toServer')),
         ~Unwelcomed' => ~Unwelcomed
  PROVE  Assumed(c)'
<1>. SUFFICES ASSUME ~confirms
     PROVE  /\ c \notin channels' => ~StaysIn(toServer', InNow', c, Len(toServer'))
            /\ c \in channels' /\ turns' = 0 /\ ~Unwelcomed' =>
                 StaysIn(toServer', InNow', c, Len(toServer'))
  BY DEF Assumed, Stays
<1>. QED BY DEF Assumed, Stays

LEMMA InNowSame == UNCHANGED <<reg, members>> => InNow' = InNow
BY DEF InNow

LEMMA StaysMore ==
  ASSUME NEW t, NEW N, NEW M, NEW c, NEW k, c \in N => c \in M
  PROVE  StaysIn(t, N, c, k) => StaysIn(t, M, c, k)
BY DEF StaysIn, Holds

\* A line that settles it, and lines that do not.
LEMMA StaysAdded ==
  ASSUME NEW t \in Seq(Lines), NEW u \in Seq(Lines), NEW N, NEW c,
         \E i \in 1..Len(u) : u[i] \in Joins(c), \A j \in 1..Len(u) : u[j] \notin Parts(c)
  PROVE  StaysIn(t \o u, N, c, Len(t \o u))
<1>. DEFINE v == t \o u
            l == Len(t)
            m == Len(u)
<1>1. /\ l \in Nat /\ m \in Nat /\ Len(v) = l + m
      /\ \A i \in 1..m : v[l + i] = u[i]
  BY WriteOK
<1>2. (\E i \in 1..m : u[i] \in Joins(c)) /\ \A j \in 1..m : u[j] \notin Parts(c)
  OBVIOUS
<1>. HIDE DEF v, l, m
<1>3. PICK i \in 1..m : u[i] \in Joins(c)
  BY <1>2
<1>4. l + i \in 1..(l + m) /\ v[l + i] \in Joins(c)
  BY <1>1, <1>3
<1>5. \A j \in ((l + i) + 1)..(l + m) : j - l \in 1..m /\ l + (j - l) = j
  BY <1>1
<1>6. \A j \in ((l + i) + 1)..(l + m) : v[j] \notin Parts(c)
  <2>. SUFFICES ASSUME NEW j \in ((l + i) + 1)..(l + m) PROVE v[j] \notin Parts(c)
    OBVIOUS
  <2>1. j - l \in 1..m /\ l + (j - l) = j
    BY <1>5
  <2>2. v[l + (j - l)] = u[j - l]
    BY <1>1, <2>1
  <2>. QED BY <1>2, <2>1, <2>2
<1>7. StaysIn(v, N, c, l + m)
  BY <1>4, <1>6 DEF StaysIn, Holds
<1>. QED BY <1>1, <1>7 DEF v

LEMMA StaysAfter ==
  ASSUME NEW t \in Seq(Lines), NEW u \in Seq(Lines), NEW N, NEW c
  PROVE  /\ (\A j \in 1..Len(u) : u[j] \notin Parts(c)) =>
              (StaysIn(t, N, c, Len(t)) => StaysIn(t \o u, N, c, Len(t \o u)))
         /\ (\A j \in 1..Len(u) : u[j] \notin Joins(c)) =>
              (StaysIn(t \o u, N, c, Len(t \o u)) => StaysIn(t, N, c, Len(t)))
<1>1. Len(u) \in 0..Len(u) /\ Len(t \o u) = Len(t) + Len(u)
  <2>1. Len(u) \in Nat /\ Len(t \o u) = Len(t) + Len(u)
    BY WriteOK
  <2>. QED BY <2>1
<1>. QED BY <1>1, StaysWritten

LEMMA StaysParted ==
  ASSUME NEW t \in Seq(Lines), NEW l \in Lines, NEW N, NEW c, l \in Parts(c)
  PROVE  ~StaysIn(t \o <<l>>, N, c, Len(t \o <<l>>))
<1>. DEFINE v == t \o <<l>>
            n == Len(t)
<1>1. n \in Nat /\ Len(v) = n + 1 /\ v[n + 1] = l
  BY AppendProperties, AppendIsConcat, LenProperties
<1>2. l \notin Joins(c)
  BY DEF Joins, Parts
<1>. HIDE DEF v, n
<1>3. StaysIn(v, N, c, n + 1) <=>
        v[n + 1] \in Joins(c) \/ (StaysIn(v, N, c, n) /\ v[n + 1] \notin Parts(c))
  BY <1>1, StaysNext
<1>. QED BY <1>1, <1>2, <1>3 DEF v

\* The agent sends lines that say nothing of a channel, or nothing new.
LEMMA AssumedSent ==
  ASSUME Basics, NEW c \in Chans, Assumed(c), NEW u \in Seq(Up), Sent(u),
         \A j \in 1..Len(u) : u[j] \notin Parts(c) /\ u[j] \notin Joins(c),
         UNCHANGED <<confirms, link, reg, members, toClient, turns>>,
         c \in channels' <=> c \in channels
  PROVE  Assumed(c)'
<1>1. CASE link = "up"
  <2>1. toServer' = toServer \o u /\ toServer \in Seq(Lines) /\ u \in Seq(Lines)
    BY <1>1, WiresOK, WireLines DEF Sent
  <2>2. InNow' = InNow
    BY InNowSame
  <2>3. \A N : StaysIn(toServer \o u, N, c, Len(toServer \o u)) <=> StaysIn(toServer, N, c, Len(toServer))
    <3>1. (\A j \in 1..Len(u) : u[j] \notin Parts(c)) /\ \A j \in 1..Len(u) : u[j] \notin Joins(c)
      OBVIOUS
    <3>. QED BY <2>1, <3>1, StaysAfter
  <2>4. StaysIn(toServer', InNow', c, Len(toServer')) <=> StaysIn(toServer, InNow, c, Len(toServer))
    BY <2>1, <2>2, <2>3
  <2>5. ~Unwelcomed' => ~Unwelcomed
    BY UnwelcomedSame
  <2>. QED BY <1>1, <2>4, <2>5, AssumedKept
<1>2. CASE link # "up"
  BY <1>2 DEF Assumed
<1>. QED BY <1>1, <1>2

\* The server reads a line that does what it says.
LEMMA StaysServed ==
  ASSUME Basics, NEW verb \in Asks, Reads(verb), NEW c \in Chans,
         c \in InNow' <=> (verb = "JOIN" /\ Target = c)
                          \/ (c \in InNow /\ ~(verb = "PART" /\ Target = c))
  PROVE  StaysIn(toServer', InNow', c, Len(toServer')) <=> StaysIn(toServer, InNow, c, Len(toServer))
<1>1. /\ toServer \in Seq(Lines) /\ toServer # <<>> /\ toServer' = Tail(toServer)
      /\ Head(toServer) \in Lines /\ Head(toServer).verb = verb /\ Head(toServer).chan = Target
  BY JoinsRead
<1>2. c \in InNow' <=> Head(toServer) \in Joins(c) \/ (c \in InNow /\ Head(toServer) \notin Parts(c))
  BY <1>1, Words
<1>3. Len(toServer) \in 1..Len(toServer) /\ Len(toServer') = Len(toServer) - 1
  <2>1. Len(toServer) \in Nat \ {0} /\ Len(Tail(toServer)) = Len(toServer) - 1
    BY <1>1, ReadOK
  <2>. QED BY <1>1, <2>1
<1>4. \A k \in 1..Len(toServer) :
        StaysIn(toServer, InNow, c, k) <=> StaysIn(Tail(toServer), InNow', c, k - 1)
  BY <1>1, <1>2, StaysRead
<1>. QED BY <1>1, <1>3, <1>4

\* ... or a JOIN that comes to nothing.
LEMMA StaysRefused ==
  ASSUME Basics, Reads("JOIN"), NEW c \in Chans, InNow' = InNow
  PROVE  StaysIn(toServer', InNow', c, Len(toServer')) => StaysIn(toServer, InNow, c, Len(toServer))
<1>1. /\ toServer \in Seq(Lines) /\ toServer # <<>> /\ toServer' = Tail(toServer)
      /\ Head(toServer) \in Lines /\ Head(toServer).verb = "JOIN" /\ Head(toServer).chan = Target
  BY JoinsRead DEF Asks
<1>. DEFINE M == InNow \cup {Target}
<1>2. c \in M <=> Head(toServer) \in Joins(c) \/ (c \in InNow /\ Head(toServer) \notin Parts(c))
  BY <1>1, Words
<1>3. c \in InNow' => c \in M
  OBVIOUS
<1>. HIDE DEF M
<1>4. Len(toServer) \in 1..Len(toServer) /\ Len(toServer') = Len(toServer) - 1
  <2>1. Len(toServer) \in Nat \ {0} /\ Len(Tail(toServer)) = Len(toServer) - 1
    BY <1>1, ReadOK
  <2>. QED BY <1>1, <2>1
<1>5. \A k \in 1..Len(toServer) :
        StaysIn(toServer, InNow, c, k) <=> StaysIn(Tail(toServer), M, c, k - 1)
  BY <1>1, <1>2, StaysRead
<1>6. StaysIn(toServer', InNow', c, Len(toServer')) => StaysIn(toServer', M, c, Len(toServer'))
  BY <1>3, StaysMore
<1>. QED BY <1>1, <1>4, <1>5, <1>6

LEMMA OpenedAssumed ==
  ASSUME Basics, NEW c \in Chans, ConnectToServer \/ Dial PROVE Assumed(c)'
<1>1. Opened /\ UNCHANGED <<reg, confirms, channels>>
  BY DEF ConnectToServer, Dial
<1>2. toServer' = <<Bare("NICK")>> /\ toClient' = <<>> /\ reg' # "current"
  BY <1>1 DEF Opened, Basics, Handshake
<1>3. Unwelcomed' /\ InNow' = {}
  BY <1>2 DEF Unwelcomed, InNow
<1>. DEFINE l == Bare("NICK")
<1>4. l \in Lines /\ l.verb = "NICK"
  BY LineOK, LineIs DEF Up
<1>5. l \notin Joins(c)
  BY <1>4, Words
<1>. HIDE DEF l
<1>6. toServer' = <<l>> /\ Len(<<l>>) = 0 + 1 /\ <<l>>[0 + 1] = l
  <2>1. Len(<<l>>) = 1 /\ <<l>>[1] = l
    BY <1>4, OneOK
  <2>. QED BY <1>2, <2>1 DEF l
<1>7. \A N : StaysIn(<<l>>, N, c, 0 + 1) <=>
               <<l>>[0 + 1] \in Joins(c) \/ (StaysIn(<<l>>, N, c, 0) /\ <<l>>[0 + 1] \notin Parts(c))
  BY StaysNext
<1>8. \A N : StaysIn(<<l>>, N, c, 0) <=> c \in N
  BY StaysNow
<1>9. ~StaysIn(toServer', InNow', c, Len(toServer'))
  <2>1. ~StaysIn(<<l>>, {}, c, 0)
    BY <1>8
  <2>. QED BY <1>3, <1>5, <1>6, <1>7, <2>1
<1>. QED BY <1>3, <1>9 DEF Assumed, Stays

LEMMA EndsAssumed ==
  ASSUME NEW c, ReadLoopEnds \/ Disconnect \/ GotNickInUse \/ Break \/ ServerRestarts
  PROVE  Assumed(c)'
BY DEF Assumed, ReadLoopEnds, Disconnect, GotNickInUse, Break, ServerRestarts

LEMMA GotWelcomeAssumed ==
  ASSUME Basics, NEW c \in Chans, Assumed(c), GotWelcome PROVE Assumed(c)'
<1>. DEFINE u == SetToSeq({Line("JOIN", d, Own) : d \in channels})
<1>1. Got("001") /\ toServer' = toServer \o u
      /\ UNCHANGED <<confirms, reg, members, channels, turns, link>>
  BY DEF GotWelcome
<1>2. channels \subseteq Chans /\ link = "up"
  BY <1>1, GotOK DEF Basics, AgentOK
<1>3. /\ u \in Seq(Up)
      /\ \A i \in 1..Len(u) : \E d \in channels : u[i] = Line("JOIN", d, Own)
      /\ \A d \in channels : \E i \in 1..Len(u) : u[i] = Line("JOIN", d, Own)
  BY <1>2, Rejoining
<1>. HIDE DEF u
<1>4. \A d \in channels : /\ Line("JOIN", d, Own) \notin Parts(c)
                          /\ Line("JOIN", d, Own) \in Joins(c) <=> d = c
  BY <1>2, LineWords, OwnMsg DEF Asks
<1>5. toServer \in Seq(Lines) /\ u \in Seq(Lines) /\ InNow' = InNow
  BY <1>1, <1>3, WiresOK, WireLines, InNowSame
<1>6. \A j \in 1..Len(u) : u[j] \notin Parts(c)
  BY <1>3, <1>4
<1>7. CASE c \in channels
  <2>1. \E i \in 1..Len(u) : u[i] \in Joins(c)
    BY <1>3, <1>4, <1>7
  <2>2. \A N : StaysIn(toServer \o u, N, c, Len(toServer \o u))
    BY <1>5, <1>6, <2>1, StaysAdded
  <2>. QED BY <1>1, <1>7, <2>2 DEF Assumed, Stays
<1>8. CASE c \notin channels
  <2>1. \A j \in 1..Len(u) : u[j] \notin Joins(c)
    BY <1>3, <1>4, <1>8
  <2>2. \A N : StaysIn(toServer \o u, N, c, Len(toServer \o u)) => StaysIn(toServer, N, c, Len(toServer))
    BY <1>5, <2>1, StaysAfter
  <2>. QED BY <1>1, <1>2, <1>5, <1>8, <2>2 DEF Assumed, Stays
<1>. QED BY <1>7, <1>8

\* Without echoes, what the server says changes no belief.
LEMMA GotAssumed ==
  ASSUME Basics, NEW c \in Chans, Assumed(c), GotJoin \/ GotRemoval \/ GotMessage
  PROVE  Assumed(c)'
<1>1. PICK verb \in Tells : Got(verb)
  BY DEF GotJoin, GotRemoval, GotMessage, Tracking, Tells
<1>2. UNCHANGED <<confirms, reg, members, link, toServer, turns>> /\ (~confirms => channels' = channels)
  BY DEF GotJoin, GotRemoval, GotMessage, Tracking
<1>3. ~Unwelcomed /\ InNow' = InNow
  BY <1>1, <1>2, UnwelcomedRead, InNowSame DEF Tells
<1>. QED BY <1>2, <1>3 DEF Assumed, Stays

LEMMA JoinChannelAssumed ==
  ASSUME Basics, NEW c \in Chans, Assumed(c), JoinChannel PROVE Assumed(c)'
<1>1. PICK d \in Chans \ channels :
        /\ Sent(<<Line("JOIN", d, Own), Line("HISTORY", d, Own)>>)
        /\ AskedFor(channels \cup {d})
  BY DEF JoinChannel
<1>. DEFINE k == Line("JOIN", d, Own)
            l == Line("HISTORY", d, Own)
            u == <<k, l>>
<1>2. k \in Up /\ l \in Up
  BY LineOK, OwnMsg DEF Asks
<1>3. /\ k \in Joins(c) <=> d = c
      /\ l \notin Joins(c) /\ k \notin Parts(c) /\ l \notin Parts(c)
  BY LineWords, OwnMsg DEF Asks
<1>4. Sent(u) /\ UNCHANGED <<confirms, link, reg, members, toClient, turns>>
      /\ channels' = IF confirms THEN channels ELSE channels \cup {d}
  BY <1>1 DEF JoinChannel, AskedFor
<1>. HIDE DEF k, l
<1>5. u \in Seq(Up) /\ Len(u) = 2 /\ u[1] = k /\ \A i \in 1..Len(u) : u[i] \in {k, l}
  BY <1>2, TwoOK
<1>. HIDE DEF u
<1>6. CASE d # c
  <2>1. \A j \in 1..Len(u) : u[j] \notin Parts(c) /\ u[j] \notin Joins(c)
    BY <1>3, <1>5, <1>6
  <2>2. c \in channels' <=> c \in channels
    BY <1>4, <1>6
  <2>. QED BY <1>4, <1>5, <2>1, <2>2, AssumedSent
<1>7. CASE d = c /\ link = "up" /\ ~confirms
  <2>1. toServer' = toServer \o u /\ toServer \in Seq(Lines) /\ u \in Seq(Lines)
    BY <1>4, <1>5, <1>7, WiresOK, WireLines DEF Sent
  <2>2. (\A j \in 1..Len(u) : u[j] \notin Parts(c)) /\ \E i \in 1..Len(u) : u[i] \in Joins(c)
    BY <1>3, <1>5, <1>7
  <2>3. \A N : StaysIn(toServer \o u, N, c, Len(toServer \o u))
    BY <2>1, <2>2, StaysAdded
  <2>. QED BY <1>4, <1>7, <2>1, <2>3 DEF Assumed, Stays
<1>8. CASE ~(link = "up" /\ ~confirms)
  BY <1>4, <1>8 DEF Assumed
<1>. QED BY <1>6, <1>7, <1>8

LEMMA PartChannelAssumed ==
  ASSUME Basics, NEW c \in Chans, Assumed(c), PartChannel PROVE Assumed(c)'
<1>1. PICK d \in Chans : Sent(<<Line("PART", d, Own)>>) /\ AskedFor(channels \ {d})
  BY DEF PartChannel
<1>. DEFINE l == Line("PART", d, Own)
<1>2. l \in Up /\ l \in Lines /\ l \notin Joins(c) /\ (l \in Parts(c) <=> d = c)
  BY LineOK, LineWords, OwnMsg DEF Asks
<1>3. Sent(<<l>>) /\ UNCHANGED <<confirms, link, reg, members, toClient, turns>>
      /\ channels' = IF confirms THEN channels ELSE channels \ {d}
  BY <1>1 DEF PartChannel, AskedFor
<1>. HIDE DEF l
<1>4. CASE d # c
  <2>1. <<l>> \in Seq(Up) /\ \A j \in 1..Len(<<l>>) : <<l>>[j] \notin Parts(c) /\ <<l>>[j] \notin Joins(c)
    BY <1>2, <1>4, OneOK
  <2>2. c \in channels' <=> c \in channels
    BY <1>3, <1>4
  <2>. QED BY <1>3, <2>1, <2>2, AssumedSent
<1>5. CASE d = c /\ link = "up" /\ ~confirms
  <2>1. toServer' = toServer \o <<l>> /\ toServer \in Seq(Lines)
    BY <1>3, <1>5, WiresOK DEF Sent
  <2>2. \A N : ~StaysIn(toServer \o <<l>>, N, c, Len(toServer \o <<l>>))
    BY <1>2, <1>5, <2>1, StaysParted
  <2>. QED BY <1>3, <1>5, <2>1, <2>2 DEF Assumed, Stays
<1>6. CASE ~(link = "up" /\ ~confirms)
  BY <1>3, <1>6 DEF Assumed
<1>. QED BY <1>4, <1>5, <1>6

LEMMA SendPrivmsgAssumed ==
  ASSUME Basics, NEW c \in Chans, Assumed(c), SendPrivmsg PROVE Assumed(c)'
<1>1. PICK d \in Chans : Sent(<<Line("PRIVMSG", d, Own)>>)
  BY DEF SendPrivmsg, Basics, AgentOK
<1>. DEFINE l == Line("PRIVMSG", d, Own)
<1>2. l \in Up /\ l \notin Joins(c) /\ l \notin Parts(c)
  BY LineOK, LineWords, OwnMsg DEF Asks
<1>3. Sent(<<l>>) /\ UNCHANGED <<confirms, link, reg, members, toClient, turns, channels>>
  BY <1>1 DEF SendPrivmsg
<1>. HIDE DEF l
<1>4. <<l>> \in Seq(Up) /\ \A j \in 1..Len(<<l>>) : <<l>>[j] \notin Parts(c) /\ <<l>>[j] \notin Joins(c)
  BY <1>2, OneOK
<1>. QED BY <1>3, <1>4, AssumedSent

LEMMA RegisterAssumed ==
  ASSUME Basics, NEW c \in Chans, Assumed(c), Register PROVE Assumed(c)'
<1>1. toServer \in Seq(Lines) /\ toServer # <<>> /\ toServer' = Tail(toServer)
      /\ Head(toServer) \in Lines /\ Head(toServer).verb = "NICK" /\ link = "up"
  <2>1. toServer \in Seq(Up) /\ toServer # <<>> /\ Head(toServer).verb = "NICK"
    BY DEF Basics, AgentOK, Register
  <2>. QED BY <2>1, WiresOK, ReadOK DEF Up, Register
<1>2. 1 \in In({"NICK"}, toServer)
  <2>1. Head(toServer) = toServer[1] /\ Len(toServer) \in Nat \ {0}
    BY <1>1, ReadOK
  <2>. QED BY <1>1, <2>1 DEF In
<1>3. toClient = <<>> /\ reg # "current"
  BY <1>2 DEF Basics, Handshake
<1>4. InNow = {} /\ InNow' = {}
  BY <1>3 DEF InNow, Register, Basics, Session
<1>5. Head(toServer) \notin Joins(c) /\ Head(toServer) \notin Parts(c)
  BY <1>1, Words
<1>6. c \in InNow' <=> Head(toServer) \in Joins(c) \/ (c \in InNow /\ Head(toServer) \notin Parts(c))
  BY <1>4, <1>5
<1>7. Len(toServer) \in 1..Len(toServer) /\ Len(toServer') = Len(toServer) - 1
  <2>1. Len(toServer) \in Nat \ {0} /\ Len(Tail(toServer)) = Len(toServer) - 1
    BY <1>1, ReadOK
  <2>. QED BY <1>1, <2>1
<1>8. \A k \in 1..Len(toServer) :
        StaysIn(toServer, InNow, c, k) <=> StaysIn(Tail(toServer), InNow', c, k - 1)
  BY <1>1, <1>6, StaysRead
<1>9. StaysIn(toServer', InNow', c, Len(toServer')) <=> StaysIn(toServer, InNow, c, Len(toServer))
  BY <1>1, <1>7, <1>8
<1>10. Unwelcomed'
  <2>1. PICK v \in {"001", "433"} : toClient' = toClient \o <<Bare(v)>>
    BY DEF Register, Written
  <2>2. <<Bare(v)>> \in Seq(Down) /\ <<Bare(v)>>[1].verb = v /\ <<Bare(v)>> # <<>>
    BY LineOK, LineIs, OneOK
  <2>3. toClient' = <<Bare(v)>>
    BY <1>3, <2>1, <2>2, ConcatEmptySeq
  <2>. QED BY <2>2, <2>3 DEF Unwelcomed
<1>. QED BY <1>1, <1>9, <1>10, AssumedKept DEF Register

\* The server answers: Unwelcomed stays what it was.
LEMMA AnsweredWelcome ==
  ASSUME Basics, reg = "current", reg' = "current", NEW v \in Tells, NEW d \in Chans, NEW m \in Msgs,
         Written(<<Line(v, d, m)>>)
  PROVE  Unwelcomed' <=> Unwelcomed
<1>. DEFINE u == <<Line(v, d, m)>>
<1>1. u \in Seq(Down) /\ \A i \in 1..Len(u) : u[i].verb \notin {"001", "433"}
  BY OneDown DEF Tells
<1>2. Written(u)
  OBVIOUS
<1>. HIDE DEF u
<1>. QED BY <1>1, <1>2, UnwelcomedWritten

LEMMA JoinsAssumed ==
  ASSUME Basics, NEW c \in Chans, Assumed(c), JoinArchived \/ JoinDenied \/ JoinAgain \/ Join
  PROVE  Assumed(c)'
<1>1. Reads("JOIN") /\ Target \in Chans /\ reg = "current" /\ link = "up"
  <2>1. Reads("JOIN")
    BY DEF JoinArchived, JoinDenied, JoinAgain, Join
  <2>. QED BY <2>1, ReadsOK DEF Asks
<1>2. UNCHANGED <<confirms, channels, turns, reg>>
  BY DEF JoinArchived, JoinDenied, JoinAgain, Join
<1>3. ~Unwelcomed' => ~Unwelcomed
  <2>1. CASE UNCHANGED toClient
    BY <1>2, <2>1, UnwelcomedSame
  <2>2. CASE JoinDenied
    BY <1>1, <1>2, <2>2, OwnMsg, AnsweredWelcome DEF JoinDenied, Tells
  <2>3. CASE Join
    BY <1>1, <1>2, <2>3, OwnMsg, AnsweredWelcome DEF Join, Tells
  <2>. QED BY <2>1, <2>2, <2>3 DEF JoinArchived, JoinAgain
<1>4. CASE JoinArchived \/ JoinDenied
  <2>1. InNow' = InNow
    BY <1>4, InNowSame DEF JoinArchived, JoinDenied
  <2>2. StaysIn(toServer', InNow', c, Len(toServer')) => StaysIn(toServer, InNow, c, Len(toServer))
    BY <1>1, <2>1, StaysRefused
  <2>3. turns # 0
    BY <1>1, <1>4 DEF JoinArchived, JoinDenied, Basics, Session
  <2>. QED BY <1>1, <1>2, <1>3, <2>2, <2>3, AssumedKept
<1>5. CASE JoinAgain \/ Join
  <2>1. InNow = members /\ InNow' = members'
    BY <1>1, <1>2 DEF InNow
  <2>2. members' = members \cup {Target}
    BY <1>5 DEF JoinAgain, Join
  <2>3. c \in InNow' <=> ("JOIN" = "JOIN" /\ Target = c)
                         \/ (c \in InNow /\ ~("JOIN" = "PART" /\ Target = c))
    BY <2>1, <2>2
  <2>4. StaysIn(toServer', InNow', c, Len(toServer')) <=> StaysIn(toServer, InNow, c, Len(toServer))
    BY <1>1, <2>3, StaysServed DEF Asks
  <2>. QED BY <1>1, <1>2, <1>3, <2>4, AssumedKept
<1>. QED BY <1>4, <1>5

LEMMA PartAssumed ==
  ASSUME Basics, NEW c \in Chans, Assumed(c), Part PROVE Assumed(c)'
<1>1. Reads("PART") /\ Target \in Chans /\ reg = "current" /\ link = "up"
  BY ReadsOK DEF Part, Asks
<1>2. UNCHANGED <<confirms, channels, turns, reg>>
  BY DEF Part
<1>3. ~Unwelcomed' => ~Unwelcomed
  <2>1. CASE Target \in members
    BY <1>1, <1>2, <2>1, OwnMsg, AnsweredWelcome DEF Part, Tells
  <2>2. CASE Target \notin members
    BY <1>2, <2>2, UnwelcomedSame DEF Part
  <2>. QED BY <2>1, <2>2
<1>4. InNow = members /\ InNow' = members' /\ members' = members \ {Target}
  BY <1>1, <1>2 DEF InNow, Part, Left
<1>5. c \in InNow' <=> ("PART" = "JOIN" /\ Target = c)
                       \/ (c \in InNow /\ ~("PART" = "PART" /\ Target = c))
  BY <1>4
<1>6. StaysIn(toServer', InNow', c, Len(toServer')) <=> StaysIn(toServer, InNow, c, Len(toServer))
  BY <1>1, <1>5, StaysServed DEF Asks
<1>. QED BY <1>1, <1>2, <1>3, <1>6, AssumedKept

\* Lines that are answered in full.
LEMMA AnswersWelcome ==
  ASSUME Basics, Recent \/ Privmsg PROVE Unwelcomed' <=> Unwelcomed
<1>1. Target \in Chans /\ reg = "current" /\ reg' = "current"
  BY ReadsOK DEF Recent, Privmsg, Asks
<1>2. ASSUME Written(<<>>) PROVE Unwelcomed' <=> Unwelcomed
  <2>1. toClient' = toClient
    <3>1. toClient \in Seq(Lines)
      BY WiresOK
    <3>. QED BY <1>2, <3>1, ConcatEmptySeq DEF Written
  <2>. QED BY <1>1, <2>1, UnwelcomedSame
<1>3. CASE Recent
  <2>1. CASE Target \in members
    <3>. DEFINE u == [i \in DOMAIN history[Target] |-> Line("HISTORY", Target, history[Target][i])]
    <3>1. u \in Seq(Down) /\ \A i \in 1..Len(u) : u[i].verb = "HISTORY"
      BY <1>1, RecentLines DEF Basics
    <3>2. Written(u)
      BY <1>3, <2>1 DEF Recent
    <3>. HIDE DEF u
    <3>3. \A i \in 1..Len(u) : u[i].verb \notin {"001", "433"}
      BY <3>1
    <3>. QED BY <1>1, <3>1, <3>2, <3>3, UnwelcomedWritten
  <2>. QED BY <1>2, <1>3, <2>1 DEF Recent
<1>4. CASE Privmsg
  <2>1. CASE UNCHANGED toClient
    BY <1>1, <2>1, UnwelcomedSame
  <2>2. CASE Written(<<Line("404", Target, Own)>>)
    BY <1>1, <2>2, OwnMsg, AnsweredWelcome DEF Tells
  <2>. QED BY <1>2, <1>4, <2>1, <2>2 DEF Privmsg
<1>. QED BY <1>3, <1>4

LEMMA AnswersAssumed ==
  ASSUME Basics, NEW c \in Chans, Assumed(c), Recent \/ Privmsg PROVE Assumed(c)'
<1>1. PICK verb \in {"HISTORY", "PRIVMSG"} : Reads(verb)
  BY DEF Recent, Privmsg
<1>2. UNCHANGED <<confirms, channels, turns, reg, members>> /\ link = "up"
  BY <1>1, ReadsOK DEF Recent, Privmsg
<1>3. InNow' = InNow
  BY <1>2, InNowSame
<1>4. c \in InNow' <=> (verb = "JOIN" /\ Target = c)
                       \/ (c \in InNow /\ ~(verb = "PART" /\ Target = c))
  BY <1>3
<1>5. StaysIn(toServer', InNow', c, Len(toServer')) <=> StaysIn(toServer, InNow, c, Len(toServer))
  BY <1>1, <1>4, StaysServed DEF Asks
<1>. QED BY <1>2, <1>5, AnswersWelcome, AssumedKept

LEMMA RelayWelcome ==
  ASSUME Basics, Relay PROVE Unwelcomed' <=> Unwelcomed
<1>1. PICK r \in relaying : r.pending /\ Written(<<Line("PRIVMSG", r.chan, r.msg)>>)
  BY DEF Relay
<1>2. r.chan \in Chans /\ r.msg \in Msgs /\ reg = "current" /\ reg' = "current"
  BY <1>1, TransportBoundsAssumption DEF Basics, ServerOK, Session, Msgs, Relay
<1>. QED BY <1>1, <1>2, AnsweredWelcome DEF Tells

\* Expel's PART too.
LEMMA ExpelWelcome ==
  ASSUME Basics, Expel PROVE Unwelcomed' <=> Unwelcomed
<1>1. PICK d \in members :
        toClient' = IF reg = "current" THEN Append(toClient, Line("PART", d, Own)) ELSE toClient
  BY DEF Expel
<1>2. d \in Chans /\ UNCHANGED reg
  BY DEF Basics, ServerOK, Expel
<1>3. CASE reg = "current"
  <2>1. toClient' = toClient \o <<Line("PART", d, Own)>>
    <3>1. toClient \in Seq(Lines) /\ Line("PART", d, Own) \in Lines
      BY <1>2, WiresOK, LineWords, OwnMsg DEF Asks
    <3>. QED BY <1>1, <1>3, <3>1, AppendIsConcat
  <2>. QED BY <1>2, <1>3, <2>1, OwnMsg, AnsweredWelcome DEF Written, Tells
<1>4. CASE reg # "current"
  BY <1>1, <1>2, <1>4, UnwelcomedSame
<1>. QED BY <1>3, <1>4

LEMMA RoomsAssumed ==
  ASSUME Basics, NEW c \in Chans, Assumed(c),
         Say \/ Relay \/ Store \/ Expel \/ Archive \/ ChangeRights \/ ServerNotices \/ ReadChannel
  PROVE  Assumed(c)'
<1>1. UNCHANGED <<confirms, channels, toServer, link>> /\ (turns' = 0 => turns = 0 /\ ~Expel)
  BY DEF Say, Relay, Store, Expel, Archive, ChangeRights, ServerNotices, ReadChannel, Turn, Basics, ServerOK
<1>2. ~Unwelcomed' => ~Unwelcomed
  <2>1. CASE UNCHANGED <<toClient, reg>>
    BY <2>1, UnwelcomedSame
  <2>2. CASE ServerNotices
    BY <2>2 DEF ServerNotices, Unwelcomed
  <2>. QED BY <2>1, <2>2, RelayWelcome, ExpelWelcome DEF Say, Store, Archive, ChangeRights, ReadChannel
<1>3. (c \in InNow' => c \in InNow) /\ (~Expel => InNow' = InNow)
  BY DEF InNow, Say, Relay, Store, Expel, Archive, ChangeRights, ServerNotices, ReadChannel, Left
<1>4. StaysIn(toServer, InNow', c, Len(toServer)) => StaysIn(toServer, InNow, c, Len(toServer))
  BY <1>3, StaysMore
<1>5. CASE link = "up"
  <2>1. StaysIn(toServer', InNow', c, Len(toServer')) => StaysIn(toServer, InNow, c, Len(toServer))
    BY <1>1, <1>4
  <2>2. turns' = 0 =>
          /\ turns = 0
          /\ StaysIn(toServer, InNow, c, Len(toServer)) => StaysIn(toServer', InNow', c, Len(toServer'))
    BY <1>1, <1>3
  <2>. QED BY <1>1, <1>2, <1>5, <2>1, <2>2, AssumedKept
<1>6. CASE link # "up"
  BY <1>1, <1>6 DEF Assumed
<1>. QED BY <1>5, <1>6

LEMMA AssumedNext ==
  ASSUME Basics, NEW c \in Chans, Assumed(c), [TransportNext]_transportVars PROVE Assumed(c)'
<1>1. CASE Agent
  BY <1>1, OpenedAssumed, EndsAssumed, GotWelcomeAssumed, GotAssumed, JoinChannelAssumed,
     PartChannelAssumed, SendPrivmsgAssumed, RoomsAssumed DEF Agent
<1>2. CASE Server
  BY <1>2, RegisterAssumed, JoinsAssumed, PartAssumed, AnswersAssumed, RoomsAssumed DEF Server
<1>3. CASE Faults
  BY <1>3, EndsAssumed DEF Faults
<1>4. CASE UNCHANGED transportVars
  <2>1. InNow' = InNow /\ (Unwelcomed' <=> Unwelcomed)
    BY <1>4, InNowSame, UnwelcomedSame DEF transportVars
  <2>. QED BY <1>4, <2>1 DEF Assumed, Stays, transportVars
<1>. QED BY <1>1, <1>2, <1>3, <1>4 DEF TransportNext

\* Both kinds of transport, in every channel.
Believed == \A c \in Chans : Echoed(c) /\ Assumed(c)

LEMMA TrackingInit == TransportInit => Believed
<1>. SUFFICES ASSUME TransportInit, NEW c \in Chans PROVE Echoed(c) /\ Assumed(c)
  BY DEF Believed
<1>. QED BY DEF TransportInit, Echoed, Assumed

LEMMA TrackingNext == Basics /\ Believed /\ [TransportNext]_transportVars => Believed'
<1>. SUFFICES ASSUME Basics, Believed, [TransportNext]_transportVars, NEW c \in Chans
     PROVE  Echoed(c)' /\ Assumed(c)'
  BY DEF Believed
<1>. QED BY EchoedNext, AssumedNext DEF Believed

LEMMA TrackedThen == Basics /\ Believed => Tracked
<1>. SUFFICES ASSUME Basics, Believed, Quiet
     PROVE  /\ \A c \in channels : c \in members \/ MayBeOut(c)
            /\ members \subseteq channels \cup refused
  BY DEF Tracked
<1>1. /\ link = "up" /\ reg = "current" /\ toServer = <<>> /\ toClient = <<>> /\ InNow = members
      /\ channels \subseteq Chans /\ members \subseteq Chans /\ turns \in Nat /\ confirms \in BOOLEAN
  BY DEF Quiet, InNow, Basics, AgentOK, ServerOK
<1>2. ~Unwelcomed
  BY <1>1 DEF Unwelcomed
<1>3. ASSUME NEW c \in Chans
      PROVE  (c \in channels => c \in members \/ MayBeOut(c)) /\ (c \in members => c \in channels \cup refused)
  <2>1. Echoed(c) /\ Assumed(c)
    BY DEF Believed
  <2>2. CASE confirms
    <3>1. \A N : BelievesIn(<<>>, N, c) <=> c \in N
      BY BelievesNow
    <3>2. ~Has(toServer, Joins(c))
      BY <1>1, HasNone
    <3>. QED BY <1>1, <1>2, <2>1, <2>2, <3>1, <3>2 DEF Echoed, Believes, MayBeOut
  <2>3. CASE ~confirms
    <3>1. Stays(c, Len(toServer)) <=> c \in members
      <4>1. Len(<<>>) = 0
        OBVIOUS
      <4>2. \A t, N : StaysIn(t, N, c, 0) <=> c \in N
        BY StaysNow
      <4>. QED BY <1>1, <4>1, <4>2 DEF Stays
    <3>. QED BY <1>1, <1>2, <2>1, <2>3, <3>1 DEF Assumed, MayBeOut
  <2>. QED BY <2>2, <2>3
<1>. QED BY <1>1, <1>3

\* Once everything is read, the transport and the server agree on the channels the agent
\* is in, but for archived channels and JOINs that were refused while it was in, for any
\* set of channels and whatever is joined, left, refused, removed, lost and reconnected
\* (irc_transport._on_join and its fellows, join_channel, _on_welcome).
THEOREM TracksChannels == TransportSpec => []Tracked
<1>1. TransportInit => Believed
  BY TrackingInit
<1>2. Basics /\ Believed /\ [TransportNext]_transportVars => Believed'
  BY TrackingNext
<1>3. Basics /\ Believed => Tracked
  BY TrackedThen
<1>. QED BY <1>1, <1>2, <1>3, AlwaysBasics, PTL DEF TransportSpec

-----------------------------------------------------------------------------
(* What an agent that asked for the history has to hear, step by step.       *)

LEMMA FollowedRead ==
  ASSUME NEW t \in Seq(Lines), t # <<>>, NEW N, NEW M, NEW c, NEW right,
         c \in M <=> Head(t) \in Joins(c) \/ (c \in N /\ Head(t) \notin Parts(c)),
         FollowedIn(t, N, c, right)
  PROVE  FollowedIn(Tail(t), M, c, right)
<1>. DEFINE u == Tail(t)
            l == Len(t)
<1>1. l \in Nat \ {0} /\ Len(u) = l - 1 /\ \A i \in 1..Len(u) : i + 1 \in 1..l /\ u[i] = t[i + 1]
  BY ReadOK
<1>2. \A k \in 1..l : StaysIn(t, N, c, k) <=> StaysIn(u, M, c, k - 1)
  BY StaysRead
<1>3. \A i \in 1..l : t[i] \in Joins(c) =>
        \/ \E j \in (i + 1)..l : t[j] \in Recents(c)
        \/ right = "archived"
        \/ StaysIn(t, N, c, i - 1)
  BY DEF FollowedIn
<1>. HIDE DEF u, l
<1>4. ASSUME NEW i \in 1..Len(u), u[i] \in Joins(c)
      PROVE  \/ \E j \in (i + 1)..Len(u) : u[j] \in Recents(c)
             \/ right = "archived"
             \/ StaysIn(u, M, c, i - 1)
  <2>. DEFINE k == i + 1
  <2>1. k \in 1..l /\ t[k] \in Joins(c) /\ k - 1 = i
    BY <1>1, <1>4
  <2>. HIDE DEF k
  <2>2. CASE \E j \in (k + 1)..l : t[j] \in Recents(c)
    <3>1. PICK j \in (k + 1)..l : t[j] \in Recents(c)
      BY <2>2
    <3>2. j - 1 \in (i + 1)..Len(u) /\ j - 1 \in 1..Len(u) /\ (j - 1) + 1 = j
      BY <1>1, <3>1, <2>1
    <3>3. u[j - 1] = t[j]
      BY <1>1, <3>2
    <3>. QED BY <3>1, <3>2, <3>3
  <2>3. CASE StaysIn(t, N, c, k - 1)
    <3>1. i \in 1..l
      BY <1>1
    <3>2. StaysIn(t, N, c, i) <=> StaysIn(u, M, c, i - 1)
      BY <1>2, <3>1
    <3>. QED BY <2>1, <2>3, <3>2
  <2>. QED BY <1>3, <2>1, <2>2, <2>3
<1>. QED BY <1>4 DEF FollowedIn, u

\* Further lines: no JOIN among them, or it makes no difference.
LEMMA FollowedWritten ==
  ASSUME NEW t \in Seq(Lines), NEW u \in Seq(Lines), NEW N, NEW c, NEW right,
         FollowedIn(t, N, c, right),
         \/ \A j \in 1..Len(u) : u[j] \notin Joins(c)
         \/ right = "archived"
         \/ StaysIn(t, N, c, Len(t)) /\ \A j \in 1..Len(u) : u[j] \notin Parts(c)
  PROVE  FollowedIn(t \o u, N, c, right)
<1>. DEFINE v == t \o u
            l == Len(t)
            m == Len(u)
<1>1. /\ l \in Nat /\ m \in Nat /\ Len(v) = l + m
      /\ (\A i \in 1..l : v[i] = t[i])
      /\ \A i \in 1..m : v[l + i] = u[i]
  BY WriteOK
<1>2. \A i \in 1..l : t[i] \in Joins(c) =>
        \/ \E j \in (i + 1)..l : t[j] \in Recents(c)
        \/ right = "archived"
        \/ StaysIn(t, N, c, i - 1)
  BY DEF FollowedIn
<1>3. \A k \in 0..l : StaysIn(v, N, c, k) <=> StaysIn(t, N, c, k)
  BY StaysWritten
<1>4. StaysIn(t, N, c, l) /\ (\A j \in 1..m : u[j] \notin Parts(c)) =>
        \A k \in 0..m : StaysIn(v, N, c, l + k)
  BY StaysWritten
<1>5. \/ \A j \in 1..m : u[j] \notin Joins(c)
      \/ right = "archived"
      \/ StaysIn(t, N, c, l) /\ \A j \in 1..m : u[j] \notin Parts(c)
  OBVIOUS
<1>. HIDE DEF v, l, m
<1>6. ASSUME NEW i \in 1..(l + m), v[i] \in Joins(c)
      PROVE  \/ \E j \in (i + 1)..(l + m) : v[j] \in Recents(c)
             \/ right = "archived"
             \/ StaysIn(v, N, c, i - 1)
  <2>1. CASE i \in 1..l
    <3>1. t[i] \in Joins(c) /\ i - 1 \in 0..l
      BY <1>1, <1>6, <2>1
    <3>2. \A j \in (i + 1)..l : j \in 1..l /\ j \in (i + 1)..(l + m)
      BY <1>1, <2>1
    <3>. QED BY <1>1, <1>2, <1>3, <2>1, <3>1, <3>2
  <2>2. CASE i \notin 1..l
    <3>1. i - l \in 1..m /\ l + (i - l) = i /\ (i - l) - 1 \in 0..m /\ l + ((i - l) - 1) = i - 1
      BY <1>1, <2>2
    <3>2. v[i] = u[i - l]
      BY <1>1, <3>1
    <3>. QED BY <1>4, <1>5, <1>6, <3>1, <3>2
  <2>. QED BY <2>1, <2>2
<1>. QED BY <1>1, <1>6 DEF FollowedIn, v

\* join_channel: HISTORY follows everything.
LEMMA FollowedByHistory ==
  ASSUME NEW t \in Seq(Lines), NEW k \in Lines, NEW l \in Lines, NEW N, NEW c, NEW right,
         l \in Recents(c)
  PROVE  FollowedIn(t \o <<k, l>>, N, c, right)
<1>. DEFINE v == t \o <<k, l>>
            n == Len(t)
<1>1. n \in Nat /\ Len(v) = n + 2 /\ v[n + 2] = l
  <2>1. <<k, l>> \in Seq(Lines) /\ Len(<<k, l>>) = 2 /\ <<k, l>>[2] = l /\ 2 \in 1..2
    BY TwoOK
  <2>2. Len(v) = n + Len(<<k, l>>) /\ (\A i \in 1..Len(<<k, l>>) : v[n + i] = <<k, l>>[i]) /\ n \in Nat
    BY <2>1, WriteOK
  <2>. QED BY <2>1, <2>2
<1>2. l \notin Joins(c)
  BY DEF Joins, Recents
<1>. HIDE DEF v, n
<1>3. ASSUME NEW i \in 1..(n + 2), v[i] \in Joins(c)
      PROVE  \E j \in (i + 1)..(n + 2) : v[j] \in Recents(c)
  <2>1. i # n + 2
    BY <1>1, <1>2, <1>3
  <2>2. n + 2 \in (i + 1)..(n + 2)
    BY <1>1, <2>1
  <2>. QED BY <1>1, <2>2
<1>. QED BY <1>1, <1>3 DEF FollowedIn, v

\* The first JOIN, of an agent that is not in the channel.
LEMMA FollowedFirst ==
  ASSUME NEW t \in Seq(Lines), t # <<>>, NEW N, NEW c, NEW right, FollowedIn(t, N, c, right),
         Head(t) \in Joins(c), c \notin N, right # "archived"
  PROVE  Has(Tail(t), Recents(c))
<1>. DEFINE u == Tail(t)
            l == Len(t)
<1>1. /\ l \in Nat \ {0} /\ Len(u) = l - 1 /\ Head(t) = t[1]
      /\ \A i \in 1..Len(u) : i + 1 \in 1..l /\ u[i] = t[i + 1]
  BY ReadOK
<1>2. ~StaysIn(t, N, c, 0)
  BY StaysNow
<1>3. 1 \in 1..l /\ 1 - 1 = 0
  BY <1>1
<1>4. \A i \in 1..l : t[i] \in Joins(c) =>
        \/ \E j \in (i + 1)..l : t[j] \in Recents(c)
        \/ right = "archived"
        \/ StaysIn(t, N, c, i - 1)
  BY DEF FollowedIn
<1>5. PICK j \in (1 + 1)..l : t[j] \in Recents(c)
  BY <1>1, <1>2, <1>3, <1>4
<1>. HIDE DEF u, l
<1>6. j - 1 \in 1..Len(u) /\ (j - 1) + 1 = j
  BY <1>1, <1>5
<1>7. u[j - 1] = t[j]
  BY <1>1, <1>6
<1>8. Has(u, Recents(c))
  BY <1>5, <1>6, <1>7 DEF Has
<1>. QED BY <1>8 DEF u

\* What the server knows, and whether JOIN is refused for good.
LEMMA FollowedMore ==
  ASSUME NEW t, NEW N, NEW M, NEW c, NEW right, NEW now, c \in N => c \in M,
         right = "archived" => now = "archived", FollowedIn(t, N, c, right)
  PROVE  FollowedIn(t, M, c, now)
<1>1. \A k : StaysIn(t, N, c, k) => StaysIn(t, M, c, k)
  BY StaysMore
<1>. QED BY <1>1 DEF FollowedIn

LEMMA SoughtKept ==
  ASSUME NEW c, Sought(c), link' = link, confirms' = confirms, c \in asked' => c \in asked,
         link = "up" =>
           /\ FollowedIn(toServer, InNow, c, access[c]) => FollowedIn(toServer', InNow', c, access'[c])
           /\ StaysIn(toServer, InNow, c, Len(toServer)) \/ access[c] = "archived" =>
                StaysIn(toServer', InNow', c, Len(toServer')) \/ access'[c] = "archived",
         Unwelcomed' /\ c \in channels' => Unwelcomed /\ c \in channels
  PROVE  Sought(c)'
<1>. SUFFICES ASSUME link = "up", c \in asked
     PROVE  /\ FollowedIn(toServer', InNow', c, access'[c])
            /\ Unwelcomed' /\ c \in channels' =>
                 ~confirms /\ (StaysIn(toServer', InNow', c, Len(toServer')) \/ access'[c] = "archived")
  BY DEF Sought, Stays
<1>. QED BY DEF Sought, Stays

LEMMA NoneSought ==
  ASSUME Basics, NEW c, ConnectToServer \/ Dial \/ ReadLoopEnds \/ Disconnect \/ GotNickInUse \/ Break \/ ServerRestarts
  PROVE  Sought(c)'
<1>1. CASE ConnectToServer \/ Dial
  <2>1. link # "up" /\ process # "over" /\ asked' = asked
    BY <1>1 DEF ConnectToServer, Dial, Opened, Basics, Handshake
  <2>2. asked' = {}
    BY <2>1 DEF Basics, Session
  <2>. QED BY <2>2 DEF Sought
<1>2. CASE ~(ConnectToServer \/ Dial)
  BY <1>2 DEF Sought, ReadLoopEnds, Disconnect, GotNickInUse, Break, ServerRestarts
<1>. QED BY <1>1, <1>2

LEMMA GotWelcomeSought ==
  ASSUME Basics, NEW c \in Chans, Sought(c), GotWelcome PROVE Sought(c)'
<1>. DEFINE u == SetToSeq({Line("JOIN", d, Own) : d \in channels})
<1>1. Got("001") /\ toServer' = toServer \o u
      /\ UNCHANGED <<confirms, reg, members, channels, link, access, asked>>
  BY DEF GotWelcome
<1>2. channels \subseteq Chans /\ link = "up" /\ toClient # <<>> /\ toClient \in Seq(Down)
      /\ Head(toClient).verb = "001"
  BY <1>1, GotOK DEF Basics, AgentOK
<1>3. u \in Seq(Up) /\ \A i \in 1..Len(u) : \E d \in channels : u[i] = Line("JOIN", d, Own)
  BY <1>2, Rejoining
<1>. HIDE DEF u
<1>4. \A d \in channels : /\ Line("JOIN", d, Own) \notin Parts(c)
                          /\ Line("JOIN", d, Own) \in Joins(c) <=> d = c
  BY <1>2, LineWords, OwnMsg DEF Asks
<1>5. toServer \in Seq(Lines) /\ u \in Seq(Lines) /\ InNow' = InNow
  BY <1>1, <1>3, WiresOK, WireLines, InNowSame
<1>6. (\A j \in 1..Len(u) : u[j] \notin Parts(c)) /\ (c \notin channels => \A j \in 1..Len(u) : u[j] \notin Joins(c))
  BY <1>3, <1>4
<1>7. Unwelcomed /\ ~Unwelcomed'
  <2>1. ~Unwelcomed'
    BY <1>1, UnwelcomedRead
  <2>2. Head(toClient) = toClient[1]
    BY <1>2, ReadOK
  <2>. QED BY <1>2, <2>1, <2>2 DEF Unwelcomed
<1>8. ASSUME c \in asked PROVE FollowedIn(toServer \o u, InNow, c, access[c])
  <2>1. /\ FollowedIn(toServer, InNow, c, access[c])
        /\ c \in channels => StaysIn(toServer, InNow, c, Len(toServer)) \/ access[c] = "archived"
    BY <1>2, <1>7, <1>8 DEF Sought, Stays
  <2>2. \/ \A j \in 1..Len(u) : u[j] \notin Joins(c)
        \/ access[c] = "archived"
        \/ StaysIn(toServer, InNow, c, Len(toServer)) /\ \A j \in 1..Len(u) : u[j] \notin Parts(c)
    BY <1>6, <2>1
  <2>. QED BY <1>5, <2>1, <2>2, FollowedWritten
<1>. QED BY <1>1, <1>5, <1>7, <1>8 DEF Sought

LEMMA GotSought ==
  ASSUME Basics, NEW c \in Chans, Sought(c), GotJoin \/ GotRemoval \/ GotMessage
  PROVE  Sought(c)'
<1>1. PICK verb \in Tells : Got(verb)
  BY DEF GotJoin, GotRemoval, GotMessage, Tracking, Tells
<1>2. UNCHANGED <<confirms, reg, members, link, toServer, access, asked>>
  BY DEF GotJoin, GotRemoval, GotMessage, Tracking
<1>3. ~Unwelcomed' /\ InNow' = InNow
  BY <1>1, <1>2, UnwelcomedRead, InNowSame DEF Tells
<1>. QED BY <1>2, <1>3 DEF Sought

\* The agent sends lines that say nothing of a channel.
LEMMA SoughtSent ==
  ASSUME Basics, NEW c \in Chans, Sought(c), NEW u \in Seq(Up), Sent(u),
         \A j \in 1..Len(u) : u[j] \notin Parts(c) /\ u[j] \notin Joins(c),
         UNCHANGED <<confirms, link, reg, members, toClient, access>>, c \in asked' => c \in asked,
         c \in channels' => c \in channels
  PROVE  Sought(c)'
<1>1. InNow' = InNow
  BY InNowSame
<1>2. ASSUME link = "up"
      PROVE  /\ FollowedIn(toServer, InNow, c, access[c]) => FollowedIn(toServer', InNow', c, access'[c])
             /\ StaysIn(toServer, InNow, c, Len(toServer)) => StaysIn(toServer', InNow', c, Len(toServer'))
  <2>1. toServer' = toServer \o u /\ toServer \in Seq(Lines) /\ u \in Seq(Lines)
    BY <1>2, WiresOK, WireLines DEF Sent
  <2>2. (\A j \in 1..Len(u) : u[j] \notin Parts(c)) /\ \A j \in 1..Len(u) : u[j] \notin Joins(c)
    OBVIOUS
  <2>3. \A N : StaysIn(toServer, N, c, Len(toServer)) => StaysIn(toServer \o u, N, c, Len(toServer \o u))
    BY <2>1, <2>2, StaysAfter
  <2>4. \A N, right : FollowedIn(toServer, N, c, right) => FollowedIn(toServer \o u, N, c, right)
    BY <2>1, <2>2, FollowedWritten
  <2>. QED BY <1>1, <2>1, <2>3, <2>4
<1>3. Unwelcomed' => Unwelcomed
  BY UnwelcomedSame
<1>4. access' = access
  OBVIOUS
<1>. QED BY <1>2, <1>3, <1>4, SoughtKept

LEMMA JoinChannelSought ==
  ASSUME Basics, NEW c \in Chans, Sought(c), JoinChannel PROVE Sought(c)'
<1>1. PICK d \in Chans \ channels :
        /\ Sent(<<Line("JOIN", d, Own), Line("HISTORY", d, Own)>>)
        /\ asked' = (IF link = "up" THEN asked \cup {d} ELSE asked)
        /\ AskedFor(channels \cup {d})
  BY DEF JoinChannel
<1>. DEFINE k == Line("JOIN", d, Own)
            l == Line("HISTORY", d, Own)
            u == <<k, l>>
<1>2. k \in Up /\ l \in Up /\ k \in Lines /\ l \in Lines
  BY LineOK, OwnMsg DEF Asks, Up
<1>3. /\ k \in Joins(c) <=> d = c
      /\ l \in Recents(c) <=> d = c
      /\ l \notin Joins(c) /\ k \notin Parts(c) /\ l \notin Parts(c)
  BY LineWords, OwnMsg DEF Asks
<1>4. Sent(u) /\ UNCHANGED <<confirms, link, reg, members, toClient, access>>
      /\ channels' = IF confirms THEN channels ELSE channels \cup {d}
  BY <1>1 DEF JoinChannel, AskedFor
<1>. HIDE DEF k, l
<1>5. u \in Seq(Up) /\ Len(u) = 2 /\ u[1] = k /\ \A i \in 1..Len(u) : u[i] \in {k, l}
  BY <1>2, TwoOK
<1>6. CASE d # c
  <2>. HIDE DEF u
  <2>1. \A j \in 1..Len(u) : u[j] \notin Parts(c) /\ u[j] \notin Joins(c)
    BY <1>3, <1>5, <1>6
  <2>2. (c \in channels' => c \in channels) /\ (c \in asked' => c \in asked)
    BY <1>1, <1>4, <1>6
  <2>. QED BY <1>4, <1>5, <2>1, <2>2, SoughtSent
<1>7. CASE d = c /\ link = "up"
  <2>1. toServer' = toServer \o <<k, l>> /\ toServer \in Seq(Lines)
    BY <1>4, <1>7, WiresOK DEF Sent
  <2>2. \A N, right : FollowedIn(toServer \o <<k, l>>, N, c, right)
    BY <1>2, <1>3, <1>7, <2>1, FollowedByHistory
  <2>3. u \in Seq(Lines) /\ (\A j \in 1..Len(u) : u[j] \notin Parts(c)) /\ \E i \in 1..Len(u) : u[i] \in Joins(c)
    <3>. HIDE DEF u
    <3>. QED BY <1>3, <1>5, <1>7, WireLines
  <2>4. \A N : StaysIn(toServer \o u, N, c, Len(toServer \o u))
    <3>. HIDE DEF u
    <3>. QED BY <2>1, <2>3, StaysAdded
  <2>5. c \in channels' => ~confirms
    BY <1>1, <1>4, <1>7
  <2>. QED BY <1>4, <2>1, <2>2, <2>4, <2>5 DEF Sought, Stays
<1>8. CASE link # "up"
  BY <1>4, <1>8 DEF Sought
<1>. QED BY <1>6, <1>7, <1>8

LEMMA PartChannelSought ==
  ASSUME Basics, NEW c \in Chans, Sought(c), PartChannel PROVE Sought(c)'
<1>1. PICK d \in Chans : Sent(<<Line("PART", d, Own)>>) /\ AskedFor(channels \ {d})
  BY DEF PartChannel
<1>. DEFINE l == Line("PART", d, Own)
<1>2. l \in Up /\ l \in Lines /\ l \notin Joins(c) /\ (l \in Parts(c) <=> d = c)
  BY LineOK, LineWords, OwnMsg DEF Asks
<1>3. Sent(<<l>>) /\ UNCHANGED <<confirms, link, reg, members, toClient, access, asked>>
      /\ channels' = IF confirms THEN channels ELSE channels \ {d}
  BY <1>1 DEF PartChannel, AskedFor
<1>. HIDE DEF l
<1>4. <<l>> \in Seq(Up) /\ <<l>> \in Seq(Lines) /\ \A j \in 1..Len(<<l>>) : <<l>>[j] = l
  BY <1>2, OneOK
<1>5. CASE d # c
  <2>1. \A j \in 1..Len(<<l>>) : <<l>>[j] \notin Parts(c) /\ <<l>>[j] \notin Joins(c)
    BY <1>2, <1>4, <1>5
  <2>2. c \in channels' => c \in channels
    BY <1>3
  <2>. QED BY <1>3, <1>4, <2>1, <2>2, SoughtSent
<1>6. CASE d = c /\ link = "up" /\ c \in asked
  <2>1. toServer' = toServer \o <<l>> /\ toServer \in Seq(Lines) /\ InNow' = InNow
        /\ (Unwelcomed' => Unwelcomed)
    BY <1>3, <1>6, WiresOK, InNowSame, UnwelcomedSame DEF Sent
  <2>2. \A j \in 1..Len(<<l>>) : <<l>>[j] \notin Joins(c)
    BY <1>2, <1>4
  <2>3. \A N, right : FollowedIn(toServer, N, c, right) => FollowedIn(toServer \o <<l>>, N, c, right)
    BY <1>4, <2>1, <2>2, FollowedWritten
  <2>4. FollowedIn(toServer', InNow', c, access'[c])
    BY <1>3, <1>6, <2>1, <2>3 DEF Sought
  <2>5. ~(Unwelcomed' /\ c \in channels')
    <3>1. c \in channels' => confirms /\ c \in channels
      BY <1>3, <1>6
    <3>. QED BY <1>6, <2>1, <3>1 DEF Sought
  <2>. QED BY <2>4, <2>5 DEF Sought
<1>7. CASE ~(link = "up" /\ c \in asked)
  BY <1>3, <1>7 DEF Sought
<1>. QED BY <1>5, <1>6, <1>7

LEMMA SendPrivmsgSought ==
  ASSUME Basics, NEW c \in Chans, Sought(c), SendPrivmsg PROVE Sought(c)'
<1>1. PICK d \in Chans : Sent(<<Line("PRIVMSG", d, Own)>>)
  BY DEF SendPrivmsg, Basics, AgentOK
<1>. DEFINE l == Line("PRIVMSG", d, Own)
<1>2. l \in Up /\ l \notin Joins(c) /\ l \notin Parts(c)
  BY LineOK, LineWords, OwnMsg DEF Asks
<1>3. Sent(<<l>>) /\ UNCHANGED <<confirms, link, reg, members, toClient, access, asked, channels>>
  BY <1>1 DEF SendPrivmsg
<1>. HIDE DEF l
<1>4. <<l>> \in Seq(Up) /\ \A j \in 1..Len(<<l>>) : <<l>>[j] \notin Parts(c) /\ <<l>>[j] \notin Joins(c)
  BY <1>2, OneOK
<1>. QED BY <1>3, <1>4, SoughtSent

\* The server reads a line: what is behind it moves up.
LEMMA SoughtServed ==
  ASSUME Basics, NEW verb \in Asks, Reads(verb), NEW c \in Chans, Sought(c),
         c \in InNow' <=> (verb = "JOIN" /\ Target = c)
                          \/ (c \in InNow /\ ~(verb = "PART" /\ Target = c)),
         UNCHANGED <<link, confirms, channels, access>>, c \in asked' => c \in asked,
         Unwelcomed' => Unwelcomed
  PROVE  Sought(c)'
<1>1. /\ toServer \in Seq(Lines) /\ toServer # <<>> /\ toServer' = Tail(toServer)
      /\ Head(toServer) \in Lines /\ Head(toServer).verb = verb /\ Head(toServer).chan = Target
  BY JoinsRead
<1>2. c \in InNow' <=> Head(toServer) \in Joins(c) \/ (c \in InNow /\ Head(toServer) \notin Parts(c))
  BY <1>1, Words
<1>3. \A right : FollowedIn(toServer, InNow, c, right) => FollowedIn(Tail(toServer), InNow', c, right)
  BY <1>1, <1>2, FollowedRead
<1>4. StaysIn(toServer', InNow', c, Len(toServer')) <=> StaysIn(toServer, InNow, c, Len(toServer))
  BY StaysServed
<1>5. access' = access /\ channels' = channels /\ link' = link /\ confirms' = confirms
  OBVIOUS
<1>. QED BY <1>1, <1>3, <1>4, <1>5, SoughtKept

LEMMA RegisterSought ==
  ASSUME Basics, NEW c \in Chans, Sought(c), Register PROVE Sought(c)'
<1>1. toServer \in Seq(Lines) /\ toServer # <<>> /\ toServer' = Tail(toServer)
      /\ Head(toServer) \in Lines /\ Head(toServer).verb = "NICK" /\ link = "up"
  <2>1. toServer \in Seq(Up) /\ toServer # <<>> /\ Head(toServer).verb = "NICK"
    BY DEF Basics, AgentOK, Register
  <2>. QED BY <2>1, WiresOK, ReadOK DEF Up, Register
<1>2. 1 \in In({"NICK"}, toServer)
  <2>1. Head(toServer) = toServer[1] /\ Len(toServer) \in Nat \ {0}
    BY <1>1, ReadOK
  <2>. QED BY <1>1, <2>1 DEF In
<1>3. toClient = <<>> /\ reg # "current"
  BY <1>2 DEF Basics, Handshake
<1>4. InNow = {} /\ InNow' = {} /\ Unwelcomed
  BY <1>3 DEF InNow, Register, Basics, Session, Unwelcomed
<1>5. Head(toServer) \notin Joins(c) /\ Head(toServer) \notin Parts(c)
  BY <1>1, Words
<1>6. c \in InNow' <=> Head(toServer) \in Joins(c) \/ (c \in InNow /\ Head(toServer) \notin Parts(c))
  BY <1>4, <1>5
<1>7. Len(toServer) \in 1..Len(toServer) /\ Len(toServer') = Len(toServer) - 1
  <2>1. Len(toServer) \in Nat \ {0} /\ Len(Tail(toServer)) = Len(toServer) - 1
    BY <1>1, ReadOK
  <2>. QED BY <1>1, <2>1
<1>8. \A k \in 1..Len(toServer) :
        StaysIn(toServer, InNow, c, k) <=> StaysIn(Tail(toServer), InNow', c, k - 1)
  BY <1>1, <1>6, StaysRead
<1>9. StaysIn(toServer', InNow', c, Len(toServer')) <=> StaysIn(toServer, InNow, c, Len(toServer))
  BY <1>1, <1>7, <1>8
<1>10. \A right : FollowedIn(toServer, InNow, c, right) => FollowedIn(Tail(toServer), InNow', c, right)
  BY <1>1, <1>6, FollowedRead
<1>11. UNCHANGED <<link, confirms, channels, access, asked>>
  BY DEF Register
<1>. QED BY <1>1, <1>4, <1>9, <1>10, <1>11, SoughtKept

LEMMA JoinsSought ==
  ASSUME Basics, NEW c \in Chans, Sought(c), JoinArchived \/ JoinDenied \/ JoinAgain \/ Join
  PROVE  Sought(c)'
<1>1. Reads("JOIN") /\ Target \in Chans /\ reg = "current" /\ link = "up"
  <2>1. Reads("JOIN")
    BY DEF JoinArchived, JoinDenied, JoinAgain, Join
  <2>. QED BY <2>1, ReadsOK DEF Asks
<1>2. UNCHANGED <<confirms, channels, reg, link, access>> /\ (c \in asked' => c \in asked)
  BY DEF JoinArchived, JoinDenied, JoinAgain, Join
<1>3. Unwelcomed' => Unwelcomed
  <2>1. CASE UNCHANGED toClient
    BY <1>2, <2>1, UnwelcomedSame
  <2>2. CASE JoinDenied
    BY <1>1, <1>2, <2>2, OwnMsg, AnsweredWelcome DEF JoinDenied, Tells
  <2>3. CASE Join
    BY <1>1, <1>2, <2>3, OwnMsg, AnsweredWelcome DEF Join, Tells
  <2>. QED BY <2>1, <2>2, <2>3 DEF JoinArchived, JoinAgain
<1>4. CASE JoinArchived /\ Target = c
  <2>1. access'[c] = "archived" /\ access[c] = "archived"
    BY <1>4 DEF JoinArchived
  <2>2. FollowedIn(toServer', InNow', c, access'[c])
    BY <2>1 DEF FollowedIn
  <2>. QED BY <1>2, <1>3, <2>1, <2>2 DEF Sought
<1>5. CASE JoinDenied /\ Target = c
  BY <1>5 DEF JoinDenied, Sought
<1>6. CASE JoinAgain \/ Join \/ Target # c
  <2>1. InNow = members /\ InNow' = members'
    BY <1>1, <1>2 DEF InNow
  <2>2. members' \in {members, members \cup {Target}} /\ (JoinAgain \/ Join => members' = members \cup {Target})
    BY DEF JoinArchived, JoinDenied, JoinAgain, Join
  <2>3. c \in InNow' <=> ("JOIN" = "JOIN" /\ Target = c)
                         \/ (c \in InNow /\ ~("JOIN" = "PART" /\ Target = c))
    BY <1>6, <2>1, <2>2
  <2>. QED BY <1>1, <1>2, <1>3, <2>3, SoughtServed DEF Asks
<1>. QED BY <1>4, <1>5, <1>6

LEMMA PartSought ==
  ASSUME Basics, NEW c \in Chans, Sought(c), Part PROVE Sought(c)'
<1>1. Reads("PART") /\ Target \in Chans /\ reg = "current" /\ link = "up"
  BY ReadsOK DEF Part, Asks
<1>2. UNCHANGED <<confirms, channels, reg, link, access, asked>>
  BY DEF Part
<1>3. Unwelcomed' => Unwelcomed
  <2>1. CASE Target \in members
    BY <1>1, <1>2, <2>1, OwnMsg, AnsweredWelcome DEF Part, Tells
  <2>2. CASE Target \notin members
    BY <1>2, <2>2, UnwelcomedSame DEF Part
  <2>. QED BY <2>1, <2>2
<1>4. InNow = members /\ InNow' = members' /\ members' = members \ {Target}
  BY <1>1, <1>2 DEF InNow, Part, Left
<1>5. c \in InNow' <=> ("PART" = "JOIN" /\ Target = c)
                       \/ (c \in InNow /\ ~("PART" = "PART" /\ Target = c))
  BY <1>4
<1>. QED BY <1>1, <1>2, <1>3, <1>5, SoughtServed DEF Asks

LEMMA AnswersSought ==
  ASSUME Basics, NEW c \in Chans, Sought(c), Recent \/ Privmsg PROVE Sought(c)'
<1>1. PICK verb \in {"HISTORY", "PRIVMSG"} : Reads(verb)
  BY DEF Recent, Privmsg
<1>2. UNCHANGED <<confirms, channels, reg, members, link, access, asked>>
  BY DEF Recent, Privmsg
<1>3. InNow' = InNow
  BY <1>2, InNowSame
<1>4. c \in InNow' <=> (verb = "JOIN" /\ Target = c)
                       \/ (c \in InNow /\ ~(verb = "PART" /\ Target = c))
  BY <1>3
<1>. QED BY <1>1, <1>2, <1>4, AnswersWelcome, SoughtServed DEF Asks

LEMMA RoomsSought ==
  ASSUME Basics, NEW c \in Chans, Sought(c),
         Say \/ Relay \/ Store \/ Expel \/ Archive \/ ChangeRights \/ ServerNotices \/ ReadChannel
  PROVE  Sought(c)'
<1>1. UNCHANGED <<confirms, channels, toServer, link>>
      /\ (c \in asked' => c \in asked /\ (Expel => (c \in members' <=> c \in members)))
  BY DEF Say, Relay, Store, Expel, Archive, ChangeRights, ServerNotices, ReadChannel, Left
<1>2. Unwelcomed' => Unwelcomed
  <2>1. CASE UNCHANGED <<toClient, reg>>
    BY <2>1, UnwelcomedSame
  <2>2. CASE ServerNotices
    BY <2>2 DEF ServerNotices, Unwelcomed
  <2>. QED BY <2>1, <2>2, RelayWelcome, ExpelWelcome DEF Say, Store, Archive, ChangeRights, ReadChannel
<1>3. CASE c \in asked'
  <2>1. c \in InNow => c \in InNow'
    BY <1>1, <1>3 DEF InNow, Say, Relay, Store, Expel, Archive, ChangeRights, ServerNotices, ReadChannel
  <2>2. access[c] = "archived" => access'[c] = "archived"
    BY DEF Say, Relay, Store, Expel, Archive, ChangeRights, ServerNotices, ReadChannel, Basics, ServerOK
  <2>3. FollowedIn(toServer, InNow, c, access[c]) => FollowedIn(toServer, InNow', c, access'[c])
    BY <2>1, <2>2, FollowedMore
  <2>4. StaysIn(toServer, InNow, c, Len(toServer)) => StaysIn(toServer, InNow', c, Len(toServer))
    BY <2>1, StaysMore
  <2>5. /\ FollowedIn(toServer, InNow, c, access[c]) => FollowedIn(toServer', InNow', c, access'[c])
        /\ StaysIn(toServer, InNow, c, Len(toServer)) \/ access[c] = "archived" =>
             StaysIn(toServer', InNow', c, Len(toServer')) \/ access'[c] = "archived"
    BY <1>1, <2>2, <2>3, <2>4
  <2>. QED BY <1>1, <1>2, <2>5, SoughtKept
<1>4. CASE c \notin asked'
  BY <1>4 DEF Sought
<1>. QED BY <1>3, <1>4

LEMMA SoughtNext ==
  ASSUME Basics, NEW c \in Chans, Sought(c), [TransportNext]_transportVars PROVE Sought(c)'
<1>1. CASE Agent
  BY <1>1, NoneSought, GotWelcomeSought, GotSought, JoinChannelSought, PartChannelSought,
     SendPrivmsgSought, RoomsSought DEF Agent
<1>2. CASE Server
  BY <1>2, RegisterSought, JoinsSought, PartSought, AnswersSought, RoomsSought DEF Server
<1>3. CASE Faults
  BY <1>3, NoneSought DEF Faults
<1>4. CASE UNCHANGED transportVars
  <2>1. InNow' = InNow /\ (Unwelcomed' <=> Unwelcomed)
    BY <1>4, InNowSame, UnwelcomedSame DEF transportVars
  <2>. QED BY <1>4, <2>1 DEF Sought, Stays, transportVars
<1>. QED BY <1>1, <1>2, <1>3, <1>4 DEF TransportNext

\* What is on its way stays so until it is heard.
LEMMA ComingKept ==
  ASSUME NEW c, NEW m, Coming(c, m),
         m \in heard[c] => m \in heard'[c],
         Has(toClient, Carries(c, m)) => Has(toClient', Carries(c, m)) \/ m \in heard'[c],
         \A r \in relaying : r.pending /\ r.chan = c /\ r.msg = m =>
           r \in relaying' \/ Has(toClient', Carries(c, m)),
         m \in ToSet(history[c]) /\ Has(toServer, Recents(c)) =>
           m \in ToSet(history'[c]) /\ Has(toServer', Recents(c))
  PROVE  Coming(c, m)'
BY DEF Coming

LEMMA HeardMore ==
  ASSUME Basics, NEW d \in Chans, NEW n, Buffered(d, n), NEW c \in Chans
  PROVE  heard[c] \subseteq heard'[c] /\ n \in heard'[d]
<1>1. heard \in [Chans -> SUBSET Msgs]
  BY DEF Basics, BuffersOK
<1>. QED BY <1>1 DEF Buffered

LEMMA HistoryMore ==
  ASSUME StoreOK, NEW d \in Chans, NEW n, history' = [history EXCEPT ![d] = Append(@, n)], NEW c \in Chans
  PROVE  ToSet(history[c]) \subseteq ToSet(history'[c])
<1>1. history \in [Chans -> Seq(Msgs)]
  BY DEF StoreOK
<1>2. CASE c = d
  <2>1. history[c] \in Seq(Msgs) /\ history'[c] = Append(history[c], n)
    BY <1>1, <1>2
  <2>2. /\ Len(history'[c]) = Len(history[c]) + 1 /\ Len(history[c]) \in Nat
        /\ \A i \in 1..Len(history[c]) : history'[c][i] = history[c][i]
        /\ DOMAIN history'[c] = 1..Len(history'[c]) /\ DOMAIN history[c] = 1..Len(history[c])
    BY <2>1
  <2>. QED BY <2>2 DEF ToSet
<1>3. CASE c # d
  BY <1>1, <1>3
<1>. QED BY <1>2, <1>3

\* No nick, nothing due.
LEMMA NoneArriving ==
  ASSUME Basics, Basics', NEW c \in Chans,
         \/ ConnectToServer \/ Dial \/ ReadLoopEnds \/ Disconnect \/ GotNickInUse \/ ServerNotices
         \/ Break \/ ServerRestarts \/ Register
  PROVE  Arriving(c)'
<1>1. CASE Register
  <2>1. 1 \in In({"NICK"}, toServer)
    <3>1. toServer \in Seq(Up) /\ toServer # <<>> /\ Head(toServer).verb = "NICK"
      BY <1>1 DEF Basics, AgentOK, Register
    <3>2. Head(toServer) = toServer[1] /\ Len(toServer) \in Nat \ {0}
      BY <3>1, ReadOK
    <3>. QED BY <3>1, <3>2 DEF In
  <2>2. reg # "current" /\ due' = due
    BY <1>1, <2>1 DEF Basics, Handshake, Register
  <2>3. due'[c] = {}
    BY <2>2 DEF Basics, Session
  <2>. QED BY <2>3 DEF Arriving
<1>2. CASE ~Register
  <2>1. reg' # "current"
    <3>1. CASE ConnectToServer \/ Dial
      BY <3>1 DEF ConnectToServer, Dial, Opened, Basics, Handshake
    <3>2. CASE ReadLoopEnds
      BY <3>2 DEF ReadLoopEnds, Basics, Handshake
    <3>3. CASE GotNickInUse
      <4>1. reg # "current"
        BY <3>3, GotOK DEF GotNickInUse
      <4>. QED BY <3>3, <4>1 DEF GotNickInUse
    <3>. QED BY <1>2, <3>1, <3>2, <3>3 DEF Disconnect, ServerNotices, Break, ServerRestarts, Hung
  <2>2. due'[c] = {}
    BY <2>1 DEF Basics, Session
  <2>. QED BY <2>2 DEF Arriving
<1>. QED BY <1>1, <1>2

\* The agent reads: only a message is taken from what is on its way, and heard.
LEMMA GotArriving ==
  ASSUME Basics, NEW c \in Chans, Arriving(c), GotWelcome \/ GotJoin \/ GotRemoval \/ GotMessage
  PROVE  Arriving(c)'
<1>1. PICK verb \in {"001"} \cup Tells : Got(verb)
  BY DEF GotWelcome, GotJoin, GotRemoval, GotMessage, Tracking, Tells
<1>2. /\ UNCHANGED <<due, relaying, history>>
      /\ toClient \in Seq(Lines) /\ toClient # <<>> /\ toClient' = Tail(toClient)
      /\ Head(toClient) \in Lines /\ Head(toClient).verb = verb /\ Head(toClient).chan = From
      /\ Head(toClient).msg = What
  BY <1>1, WiresOK, GotOK DEF GotWelcome, GotJoin, GotRemoval, GotMessage, Tracking, Down, From, What
<1>3. Has(toServer, Recents(c)) => Has(toServer', Recents(c))
  <2>1. CASE GotWelcome
    <3>. DEFINE u == SetToSeq({Line("JOIN", d, Own) : d \in channels})
    <3>1. channels \subseteq Chans
      BY DEF Basics, AgentOK
    <3>2. u \in Seq(Up)
      BY <3>1, Rejoining
    <3>3. toServer' = toServer \o u
      BY <2>1 DEF GotWelcome
    <3>. HIDE DEF u
    <3>. QED BY <3>2, <3>3, WiresOK, WireLines, HasWritten
  <2>. QED BY <2>1 DEF GotJoin, GotRemoval, GotMessage, Tracking
<1>4. ASSUME NEW m \in due[c] PROVE Coming(c, m)'
  <2>1. m # Own
    BY <1>4 DEF Basics, ServerOK
  <2>2. m \in heard[c] => m \in heard'[c]
    <3>1. CASE GotMessage /\ Buffered(From, What)
      <4>1. From \in Chans
        <5>1. PICK v \in {"PRIVMSG", "HISTORY"} : Got(v)
          BY <3>1 DEF GotMessage
        <5>. QED BY <5>1, GotOK DEF Tells
      <4>. QED BY <3>1, <4>1, HeardMore
    <3>. QED BY <3>1 DEF GotWelcome, GotJoin, GotRemoval, GotMessage, Tracking
  <2>3. Has(toClient, Carries(c, m)) => Has(toClient', Carries(c, m)) \/ m \in heard'[c]
    <3>1. Has(toClient, Carries(c, m)) <=> Head(toClient) \in Carries(c, m) \/ Has(Tail(toClient), Carries(c, m))
      BY <1>2, HasRead
    <3>2. ASSUME Head(toClient) \in Carries(c, m) PROVE m \in heard'[c]
      <4>1. verb \in {"PRIVMSG", "HISTORY"} /\ From = c /\ What = m
        BY <1>2, <3>2, Words
      <4>2. GotMessage
        BY <1>1, <4>1 DEF GotWelcome, GotJoin, GotRemoval, Tracking, Got
      <4>3. Buffered(From, What)
        BY <2>1, <4>1, <4>2 DEF GotMessage
      <4>. QED BY <4>1, <4>3, HeardMore
    <3>. QED BY <1>2, <3>1, <3>2
  <2>4. Coming(c, m)
    BY <1>4 DEF Arriving
  <2>. QED BY <1>2, <1>3, <2>2, <2>3, <2>4, ComingKept
<1>. QED BY <1>2, <1>4 DEF Arriving

\* The agent sends, or reads its buffer.
LEMMA CommandsArriving ==
  ASSUME Basics, NEW c \in Chans, Arriving(c),
         JoinChannel \/ PartChannel \/ SendPrivmsg \/ ReadChannel
  PROVE  Arriving(c)'
<1>1. UNCHANGED <<due, relaying, history, toClient>>
  BY DEF JoinChannel, PartChannel, SendPrivmsg, ReadChannel
<1>2. \A u \in Seq(Up) : Sent(u) => (Has(toServer, Recents(c)) => Has(toServer', Recents(c)))
  <2>. SUFFICES ASSUME NEW u \in Seq(Up), Sent(u)
       PROVE  Has(toServer, Recents(c)) => Has(toServer', Recents(c))
    OBVIOUS
  <2>1. toServer \in Seq(Lines) /\ u \in Seq(Lines)
    BY WiresOK, WireLines
  <2>. QED BY <2>1, HasWritten DEF Sent
<1>3. Has(toServer, Recents(c)) => Has(toServer', Recents(c))
  <2>1. CASE JoinChannel
    <3>1. PICK d \in Chans : Sent(<<Line("JOIN", d, Own), Line("HISTORY", d, Own)>>)
      BY <2>1 DEF JoinChannel
    <3>2. <<Line("JOIN", d, Own), Line("HISTORY", d, Own)>> \in Seq(Up)
      BY LineOK, OwnMsg, TwoOK DEF Asks
    <3>. QED BY <1>2, <3>1, <3>2
  <2>2. CASE PartChannel
    <3>1. PICK d \in Chans : Sent(<<Line("PART", d, Own)>>)
      BY <2>2 DEF PartChannel
    <3>2. <<Line("PART", d, Own)>> \in Seq(Up)
      BY OneUp
    <3>. QED BY <1>2, <3>1, <3>2
  <2>3. CASE SendPrivmsg
    <3>1. PICK d \in Chans : Sent(<<Line("PRIVMSG", d, Own)>>)
      BY <2>3 DEF SendPrivmsg, Basics, AgentOK
    <3>2. <<Line("PRIVMSG", d, Own)>> \in Seq(Up)
      BY OneUp
    <3>. QED BY <1>2, <3>1, <3>2
  <2>4. CASE ReadChannel
    BY <2>4 DEF ReadChannel
  <2>. QED BY <2>1, <2>2, <2>3, <2>4
<1>4. heard[c] \subseteq heard'[c]
  <2>1. CASE SendPrivmsg
    <3>1. PICK d \in channels : Buffered(d, Own)
      BY <2>1 DEF SendPrivmsg
    <3>2. d \in Chans
      BY DEF Basics, AgentOK
    <3>. QED BY <3>1, <3>2, HeardMore
  <2>. QED BY <2>1 DEF JoinChannel, PartChannel, ReadChannel
<1>5. ASSUME NEW m \in due[c] PROVE Coming(c, m)'
  BY <1>1, <1>3, <1>4, <1>5, ComingKept DEF Arriving
<1>. QED BY <1>1, <1>5 DEF Arriving

\* What the server writes comes after what it wrote.
LEMMA WrittenMore ==
  ASSUME Basics, NEW X, toClient' = toClient \/ \E u \in Seq(Down) : Written(u)
  PROVE  Has(toClient, X) => Has(toClient', X)
<1>1. CASE toClient' = toClient
  BY <1>1
<1>2. CASE \E u \in Seq(Down) : Written(u)
  <2>1. PICK u \in Seq(Down) : Written(u)
    BY <1>2
  <2>2. toClient \in Seq(Lines) /\ u \in Seq(Lines) /\ toClient' = toClient \o u
    BY <2>1, WiresOK, WireLines DEF Written
  <2>. QED BY <2>2, HasWritten
<1>. QED BY <1>1, <1>2

LEMMA ServedArriving ==
  ASSUME Basics, NEW verb \in Asks, verb # "HISTORY", Reads(verb), NEW c \in Chans, Arriving(c),
         due'[c] \subseteq due[c], UNCHANGED <<heard, relaying>>,
         ToSet(history[c]) \subseteq ToSet(history'[c]),
         toClient' = toClient \/ \E u \in Seq(Down) : Written(u)
  PROVE  Arriving(c)'
<1>1. /\ toServer \in Seq(Lines) /\ toServer # <<>> /\ toServer' = Tail(toServer)
      /\ Head(toServer) \in Lines /\ Head(toServer).verb = verb
  BY JoinsRead
<1>2. Head(toServer) \notin Recents(c)
  BY <1>1, Words
<1>3. Has(toServer, Recents(c)) => Has(toServer', Recents(c))
  BY <1>1, <1>2, HasRead
<1>4. ASSUME NEW m \in due'[c] PROVE Coming(c, m)'
  <2>1. Has(toClient, Carries(c, m)) => Has(toClient', Carries(c, m))
    BY WrittenMore
  <2>2. Coming(c, m)
    BY <1>4 DEF Arriving
  <2>. QED BY <1>3, <2>1, <2>2, ComingKept
<1>. QED BY <1>4 DEF Arriving

LEMMA JoinsArriving ==
  ASSUME Basics, NEW c \in Chans, Arriving(c), Sought(c),
         JoinArchived \/ JoinDenied \/ JoinAgain \/ Join
  PROVE  Arriving(c)'
<1>1. Reads("JOIN") /\ Target \in Chans /\ reg = "current" /\ link = "up"
  <2>1. Reads("JOIN")
    BY DEF JoinArchived, JoinDenied, JoinAgain, Join
  <2>. QED BY <2>1, ReadsOK DEF Asks
<1>2. UNCHANGED <<heard, relaying, history>>
  BY DEF JoinArchived, JoinDenied, JoinAgain, Join
<1>3. toClient' = toClient \/ \E u \in Seq(Down) : Written(u)
  <2>1. <<Line("474", Target, Own)>> \in Seq(Down) /\ <<Line("JOIN", Target, Own)>> \in Seq(Down)
    BY <1>1, OneDown, OwnMsg
  <2>. QED BY <2>1 DEF JoinArchived, JoinDenied, JoinAgain, Join
<1>4. CASE ~(Join /\ Target = c)
  <2>1. due'[c] = due[c]
    BY <1>4 DEF JoinArchived, JoinDenied, JoinAgain, Join, Basics, ServerOK
  <2>. QED BY <1>1, <1>2, <1>3, <2>1, ServedArriving DEF Asks
<1>5. CASE Join /\ Target = c
  <2>1. due'[c] = IF c \in asked THEN OfOthers(history[c]) ELSE {}
    BY <1>5 DEF Join, Basics, ServerOK
  <2>2. ASSUME c \in asked PROVE Has(toServer', Recents(c))
    <3>1. /\ toServer \in Seq(Lines) /\ toServer # <<>> /\ toServer' = Tail(toServer)
          /\ Head(toServer) \in Lines /\ Head(toServer).verb = "JOIN" /\ Head(toServer).chan = c
      BY <1>1, <1>5, JoinsRead DEF Asks
    <3>2. Head(toServer) \in Joins(c)
      BY <3>1, Words
    <3>3. c \notin InNow /\ access[c] # "archived"
      BY <1>1, <1>5 DEF InNow, Join
    <3>4. FollowedIn(toServer, InNow, c, access[c])
      BY <1>1, <2>2 DEF Sought
    <3>. QED BY <3>1, <3>2, <3>3, <3>4, FollowedFirst
  <2>3. \A m \in due'[c] : m \in ToSet(history[c])
    BY <2>1 DEF OfOthers
  <2>. QED BY <1>2, <2>1, <2>2, <2>3 DEF Arriving, Coming
<1>. QED BY <1>4, <1>5

LEMMA PartArriving ==
  ASSUME Basics, NEW c \in Chans, Arriving(c), Part PROVE Arriving(c)'
<1>1. Reads("PART") /\ Target \in Chans
  BY ReadsOK DEF Part, Asks
<1>2. UNCHANGED <<heard, relaying, history>>
  BY DEF Part
<1>3. toClient' = toClient \/ \E u \in Seq(Down) : Written(u)
  <2>1. <<Line("PART", Target, Own)>> \in Seq(Down)
    BY <1>1, OneDown, OwnMsg
  <2>. QED BY <2>1 DEF Part
<1>4. due'[c] \subseteq due[c]
  BY <1>1 DEF Part, Left, Basics, ServerOK
<1>. QED BY <1>1, <1>2, <1>3, <1>4, ServedArriving DEF Asks

LEMMA PrivmsgArriving ==
  ASSUME Basics, NEW c \in Chans, Arriving(c), Privmsg PROVE Arriving(c)'
<1>1. Reads("PRIVMSG") /\ Target \in Chans
  BY ReadsOK DEF Privmsg, Asks
<1>2. UNCHANGED <<heard, relaying, due>>
  BY DEF Privmsg
<1>3. toClient' = toClient \/ \E u \in Seq(Down) : Written(u)
  <2>1. <<Line("404", Target, Own)>> \in Seq(Down)
    BY <1>1, OneDown, OwnMsg
  <2>2. <<>> \in Seq(Down)
    OBVIOUS
  <2>. QED BY <2>1, <2>2 DEF Privmsg
<1>4. ToSet(history[c]) \subseteq ToSet(history'[c])
  BY <1>1, HistoryMore DEF Privmsg, Basics
<1>. QED BY <1>1, <1>2, <1>3, <1>4, ServedArriving DEF Asks

\* HISTORY is answered with all that is stored.
LEMMA RecentArriving ==
  ASSUME Basics, NEW c \in Chans, Arriving(c), Recent PROVE Arriving(c)'
<1>1. Reads("HISTORY") /\ Target \in Chans
  BY ReadsOK DEF Recent, Asks
<1>2. UNCHANGED <<heard, relaying, due, history, members>>
  BY DEF Recent
<1>3. /\ toServer \in Seq(Lines) /\ toServer # <<>> /\ toServer' = Tail(toServer)
      /\ Head(toServer) \in Lines /\ Head(toServer).verb = "HISTORY" /\ Head(toServer).chan = Target
  BY <1>1, JoinsRead DEF Asks
<1>. DEFINE u == [i \in DOMAIN history[Target] |-> Line("HISTORY", Target, history[Target][i])]
<1>4. /\ u \in Seq(Down) /\ Len(u) = Len(history[Target])
      /\ \A i \in 1..Len(u) : u[i] = Line("HISTORY", Target, history[Target][i])
  BY <1>1, RecentLines DEF Basics
<1>5. Target \in members => Written(u)
  BY DEF Recent
<1>6. Target \notin members => Written(<<>>) /\ <<>> \in Seq(Down)
  BY DEF Recent
<1>. HIDE DEF u
<1>7. \A m : Has(toClient, Carries(c, m)) => Has(toClient', Carries(c, m))
  BY <1>4, <1>5, <1>6, WrittenMore
<1>8. CASE Target # c
  <2>1. Head(toServer) \notin Recents(c)
    BY <1>3, <1>8, Words
  <2>2. Has(toServer, Recents(c)) => Has(toServer', Recents(c))
    BY <1>3, <2>1, HasRead
  <2>3. ASSUME NEW m \in due[c] PROVE Coming(c, m)'
    BY <1>2, <1>7, <2>2, <2>3, ComingKept DEF Arriving
  <2>. QED BY <1>2, <2>3 DEF Arriving
<1>9. CASE Target = c
  <2>1. ASSUME NEW m \in due[c] PROVE Coming(c, m)'
    <3>1. c \in members
      BY <2>1 DEF Basics, Session
    <3>2. ASSUME m \in ToSet(history[c]) PROVE Has(toClient', Carries(c, m))
      <4>1. history[c] \in Seq(Msgs) /\ DOMAIN history[c] = 1..Len(history[c])
        BY LenProperties DEF Basics, StoreOK
      <4>2. PICK i \in 1..Len(history[c]) : history[c][i] = m
        BY <3>2, <4>1 DEF ToSet
      <4>3. m \in Msgs
        BY <2>1 DEF Basics, ServerOK
      <4>4. Line("HISTORY", c, m) \in Carries(c, m)
        BY <4>3, LineWords DEF Asks
      <4>5. u[i] \in Carries(c, m) /\ i \in 1..Len(u)
        BY <1>4, <1>9, <4>2, <4>4
      <4>6. Has(u, Carries(c, m))
        BY <4>5 DEF Has
      <4>7. toClient \in Seq(Lines) /\ u \in Seq(Lines) /\ toClient' = toClient \o u
        BY <1>4, <1>5, <1>9, <3>1, WiresOK, WireLines DEF Written
      <4>. QED BY <4>6, <4>7, HasWritten
    <3>3. Coming(c, m)
      BY <2>1 DEF Arriving
    <3>. QED BY <1>2, <1>7, <3>2, <3>3 DEF Coming
  <2>. QED BY <1>2, <2>1 DEF Arriving
<1>. QED BY <1>8, <1>9

\* Everybody else.
LEMMA SayArriving ==
  ASSUME Basics, NEW c \in Chans, Arriving(c), Say PROVE Arriving(c)'
<1>0. PICK n : n = said + 1
  OBVIOUS
<1>1. PICK d \in Chans :
        /\ relaying' = relaying \cup {[chan |-> d, msg |-> n, pending |-> d \in members /\ reg = "current"]}
        /\ due' = IF d \in members /\ reg = "current" THEN [due EXCEPT ![d] = @ \cup {n}] ELSE due
  BY <1>0 DEF Say
<1>2. UNCHANGED <<heard, history, toServer, toClient>>
  BY DEF Say
<1>3. relaying \subseteq relaying'
  BY <1>1
<1>4. ASSUME NEW m \in due[c] PROVE Coming(c, m)'
  BY <1>2, <1>3, <1>4, ComingKept DEF Arriving
<1>5. CASE c = d /\ d \in members /\ reg = "current"
  <2>1. due'[c] = due[c] \cup {n}
    BY <1>1, <1>5 DEF Basics, ServerOK
  <2>2. Coming(c, n)'
    <3>1. (d \in members /\ reg = "current") = TRUE
      BY <1>5
    <3>2. [chan |-> d, msg |-> n, pending |-> TRUE] \in relaying'
      BY <1>1, <3>1
    <3>. QED BY <1>5, <3>2 DEF Coming
  <2>3. \A m \in due'[c] : Coming(c, m)'
    <3>. SUFFICES ASSUME NEW m \in due'[c] PROVE Coming(c, m)'
      OBVIOUS
    <3>1. m \in due[c] \/ m = n
      BY <2>1
    <3>. QED BY <1>4, <2>2, <3>1
  <2>. QED BY <2>3 DEF Arriving
<1>6. CASE ~(c = d /\ d \in members /\ reg = "current")
  <2>1. due'[c] = due[c]
    BY <1>1, <1>6 DEF Basics, ServerOK
  <2>. QED BY <1>4, <2>1 DEF Arriving
<1>. QED BY <1>5, <1>6

LEMMA RelayArriving ==
  ASSUME Basics, NEW c \in Chans, Arriving(c), Relay PROVE Arriving(c)'
<1>1. PICK r \in relaying : /\ r.pending
                            /\ Written(<<Line("PRIVMSG", r.chan, r.msg)>>)
                            /\ relaying' = (relaying \ {r}) \cup {[r EXCEPT !.pending = FALSE]}
  BY DEF Relay
<1>2. r.chan \in Chans /\ r.msg \in Msgs
  BY <1>1, TransportBoundsAssumption DEF Basics, ServerOK, Msgs
<1>. DEFINE l == Line("PRIVMSG", r.chan, r.msg)
<1>3. l \in Lines /\ <<l>> \in Seq(Down) /\ <<l>> \in Seq(Lines)
      /\ \A m : l \in Carries(c, m) <=> r.chan = c /\ r.msg = m
  <2>1. l \in Lines /\ \A m : l \in Carries(c, m) <=> r.chan = c /\ r.msg = m
    <3>1. l \in Lines /\ l.verb = "PRIVMSG" /\ l.chan = r.chan /\ l.msg = r.msg
      BY <1>2, LineIs, LineOK DEF Tells, Down
    <3>. QED BY <3>1 DEF Carries
  <2>2. <<l>> \in Seq(Down)
    BY <1>2, OneDown
  <2>. QED BY <2>1, <2>2, WireLines
<1>4. UNCHANGED <<heard, history, toServer, due>> /\ Written(<<l>>)
  BY <1>1 DEF Relay
<1>. HIDE DEF l
<1>5. \A m : Has(toClient, Carries(c, m)) => Has(toClient', Carries(c, m))
  BY <1>3, <1>4, WrittenMore
<1>6. \A m : r.chan = c /\ r.msg = m => Has(toClient', Carries(c, m))
  <2>. SUFFICES ASSUME NEW m, r.chan = c, r.msg = m PROVE Has(toClient', Carries(c, m))
    OBVIOUS
  <2>1. Has(<<l>>, Carries(c, m))
    <3>1. Len(<<l>>) = 1 /\ <<l>>[1] = l /\ l \in Carries(c, m)
      BY <1>3, OneOK
    <3>. QED BY <3>1 DEF Has
  <2>2. toClient \in Seq(Lines) /\ toClient' = toClient \o <<l>>
    BY <1>4, WiresOK DEF Written
  <2>. QED BY <1>3, <2>1, <2>2, HasWritten
<1>7. ASSUME NEW m \in due[c] PROVE Coming(c, m)'
  <2>1. \A q \in relaying : q.pending /\ q.chan = c /\ q.msg = m =>
          q \in relaying' \/ Has(toClient', Carries(c, m))
    BY <1>1, <1>6
  <2>. QED BY <1>4, <1>5, <1>7, <2>1, ComingKept DEF Arriving
<1>. QED BY <1>4, <1>7 DEF Arriving

LEMMA RoomsArriving ==
  ASSUME Basics, NEW c \in Chans, Arriving(c), Store \/ Expel \/ Archive \/ ChangeRights
  PROVE  Arriving(c)'
<1>1. UNCHANGED <<heard, toServer>>
  BY DEF Store, Expel, Archive, ChangeRights
<1>2. due'[c] \subseteq due[c]
  BY DEF Store, Expel, Archive, ChangeRights, Left, Basics, ServerOK
<1>3. \A r \in relaying : r.pending => r \in relaying'
  BY DEF Store, Expel, Archive, ChangeRights
<1>4. ToSet(history[c]) \subseteq ToSet(history'[c])
  <2>1. CASE Store
    <3>1. PICK r \in relaying : history' = [history EXCEPT ![r.chan] = Append(@, r.msg)]
      BY <2>1 DEF Store
    <3>2. r.chan \in Chans
      BY DEF Basics, ServerOK
    <3>. QED BY <3>1, <3>2, HistoryMore DEF Basics
  <2>. QED BY <2>1 DEF Expel, Archive, ChangeRights
<1>5. toClient' = toClient \/ \E u \in Seq(Down) : Written(u)
  <2>1. CASE Expel
    <3>1. PICK d \in members :
            toClient' = IF reg = "current" THEN Append(toClient, Line("PART", d, Own)) ELSE toClient
      BY <2>1 DEF Expel
    <3>2. d \in Chans
      BY DEF Basics, ServerOK
    <3>3. toClient \in Seq(Lines) /\ Line("PART", d, Own) \in Lines /\ <<Line("PART", d, Own)>> \in Seq(Down)
      BY <3>2, WiresOK, LineWords, OneDown, OwnMsg DEF Asks
    <3>4. Append(toClient, Line("PART", d, Own)) = toClient \o <<Line("PART", d, Own)>>
      BY <3>3, AppendIsConcat
    <3>. QED BY <3>1, <3>3, <3>4 DEF Written
  <2>. QED BY <2>1 DEF Store, Archive, ChangeRights
<1>6. ASSUME NEW m \in due'[c] PROVE Coming(c, m)'
  <2>1. Has(toClient, Carries(c, m)) => Has(toClient', Carries(c, m))
    BY <1>5, WrittenMore
  <2>2. Coming(c, m)
    BY <1>2, <1>6 DEF Arriving
  <2>. QED BY <1>1, <1>3, <1>4, <2>1, <2>2, ComingKept
<1>. QED BY <1>6 DEF Arriving

LEMMA ArrivingNext ==
  ASSUME Basics, NEW c \in Chans, Arriving(c), Sought(c), [TransportNext]_transportVars
  PROVE  Arriving(c)'
<1>1. Basics'
  BY NextBasics
<1>2. CASE Agent
  BY <1>1, <1>2, NoneArriving, GotArriving, CommandsArriving DEF Agent
<1>3. CASE Server
  BY <1>1, <1>3, NoneArriving, JoinsArriving, PartArriving, RecentArriving, PrivmsgArriving,
     SayArriving, RelayArriving, RoomsArriving DEF Server
<1>4. CASE Faults
  BY <1>1, <1>4, NoneArriving DEF Faults
<1>5. CASE UNCHANGED transportVars
  BY <1>5 DEF Arriving, Coming, transportVars
<1>. QED BY <1>2, <1>3, <1>4, <1>5 DEF TransportNext

\* What is due comes, and what was asked for will be.
Hearing == \A c \in Chans : Arriving(c) /\ Sought(c)

LEMMA HearingInit == TransportInit => Hearing
<1>. SUFFICES ASSUME TransportInit, NEW c \in Chans PROVE Arriving(c) /\ Sought(c)
  BY DEF Hearing
<1>. QED BY DEF TransportInit, Arriving, Sought

LEMMA HearingNext == Basics /\ Hearing /\ [TransportNext]_transportVars => Hearing'
<1>. SUFFICES ASSUME Basics, Hearing, [TransportNext]_transportVars, NEW c \in Chans
     PROVE  Arriving(c)' /\ Sought(c)'
  BY DEF Hearing
<1>. QED BY ArrivingNext, SoughtNext DEF Hearing

LEMMA HeardThen == Basics /\ Hearing => Heard
<1>. SUFFICES ASSUME Basics, Hearing, Quiet, NEW c \in members PROVE due[c] \subseteq heard[c]
  BY DEF Heard
<1>1. toServer = <<>> /\ toClient = <<>> /\ (\A r \in relaying : ~r.pending) /\ c \in Chans
  BY DEF Quiet, Basics, ServerOK
<1>2. \A X : ~Has(toServer, X) /\ ~Has(toClient, X)
  BY <1>1, HasNone
<1>. QED BY <1>1, <1>2 DEF Hearing, Arriving, Coming

\* No message falls between the answer to HISTORY and the live lines: once everything is
\* read, the agent has heard all that was said in its channels since it joined on this
\* connection and, after join_channel, all that was stored before (join_channel,
\* _handle_recent, _send_to_channel).
THEOREM HearsAll == TransportSpec => []Heard
<1>1. TransportInit => Hearing
  BY HearingInit
<1>2. Basics /\ Hearing /\ [TransportNext]_transportVars => Hearing'
  BY HearingNext
<1>3. Basics /\ Hearing => Heard
  BY HeardThen
<1>. QED BY <1>1, <1>2, <1>3, AlwaysBasics, PTL DEF TransportSpec

=============================================================================
