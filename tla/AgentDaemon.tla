---------------------------- MODULE AgentDaemon ----------------------------
(***************************************************************************)
(* The life of an agent: the daemon that connects it to a server, and the  *)
(* runner that takes its prompts one at a time through the coding session  *)
(* (culture/clients/claude/daemon.py, agent_runner.py).                    *)
(*                                                                         *)
(* The daemon replaces a runner that dies, unless it died too often, and   *)
(* pauses and resumes it on request and by schedule.  All of this is one   *)
(* event loop: a step here runs from one await to the next.  A prompt is   *)
(* a place in the runner's queue; a turn of the session ends, fails, or    *)
(* ends with a callback that raises.                                       *)
(*                                                                         *)
(* Runners are numbered in the order they are created.  exit[r] follows    *)
(* what the end of runner r sets off: _on_agent_exit, then the task of     *)
(* _delayed_restart.  The agent has a boss and an SDK session; the kinds   *)
(* of stall the idle watchdog warns of are not told apart, only whether it *)
(* runs.                                                                   *)
(***************************************************************************)
EXTENDS Naturals

CONSTANTS
  MaxCrash,      \* MAX_CRASH_COUNT: crashes in the window that open the circuit
  HasStopEvent,  \* whether set_stop_event was called: culture agent start does
  MaxRunners,    \* bound: runners created; the last one does not die
  MaxQueue       \* bound: prompts that wait in a queue

ASSUME MaxCrashAssumption   == MaxCrash \in Nat \ {0}
ASSUME MaxRunnersAssumption == MaxRunners \in Nat \ {0}
ASSUME MaxQueueAssumption   == MaxQueue \in Nat

Runners == 1..MaxRunners

VARIABLES
  phase,      \* where start() or stop() is
  transport,  \* whether _transport is set
  slot,       \* _agent_runner: a runner, 0 for None
  paused,     \* _paused
  manual,     \* _manually_paused
  night,      \* whether the schedule says to sleep
  crashes,    \* _crash_times: those inside the window, and older ones
  circuit,    \* _circuit_open
  watch,      \* whether the task of the idle watchdog runs
  run,        \* run[r]: where the task of runner r is
  gate,       \* gate[r]: its event _unpaused
  stopping,   \* stopping[r]: its flag _stopping
  queue,      \* queue[r]: how many prompts, a sentinel among them, wait
  exit        \* exit[r]: where the handling of its end is

flags   == <<paused, manual>>
record  == <<crashes, circuit>>
session == <<run, gate, stopping, queue, exit>>
vars    == <<phase, transport, slot, flags, night, record, watch, session>>

\* is_running: on_exit is awaited within the task, which still runs then.
Live(r) == run[r] \notin {"none", "over"}
Running == slot # 0 /\ Live(slot)

\* The socket takes requests from start_agent_runner until it is closed.
Serving == phase \notin {"off", "connecting", "stopped"}

TypeOK ==
  /\ phase \in {"off", "connecting", "arming", "up", "ending", "joining",
                "draining", "closing", "stopped", "stuck"}
  /\ transport \in BOOLEAN
  /\ slot \in 0..MaxRunners
  /\ {paused, manual, night, circuit, watch} \subseteq BOOLEAN
  /\ crashes \in [recent : Nat, old : Nat]
  /\ run \in [Runners -> {"none", "waiting", "held", "woken", "turn",
                          "exiting", "leaving", "over"}]
  /\ gate \in [Runners -> BOOLEAN]
  /\ stopping \in [Runners -> BOOLEAN]
  /\ queue \in [Runners -> Nat]
  /\ exit \in [Runners -> {"none", "logging", "counted", "notifying",
                           "delayed", "arming", "over"}]

Init ==
  /\ phase = "off"
  /\ transport = FALSE
  /\ slot = 0
  /\ paused = FALSE /\ manual = FALSE
  /\ night \in BOOLEAN
  /\ crashes = [recent |-> 0, old |-> 0]
  /\ circuit = FALSE
  /\ watch = FALSE
  /\ run      = [r \in Runners |-> "none"]
  /\ gate     = [r \in Runners |-> TRUE]
  /\ stopping = [r \in Runners |-> FALSE]
  /\ queue    = [r \in Runners |-> 0]
  /\ exit     = [r \in Runners |-> "none"]

-----------------------------------------------------------------------------
(* The runner in the daemon's hands.                                       *)

\* _start_agent_runner, up to its first await: a new runner takes the place of
\* the one before it, which is lost with the prompts that wait in it.
\* AgentRunner.start does not suspend.
NewRunner(r) ==
  /\ run[r] = "none" /\ \A q \in Runners : q < r => run[q] # "none"
  /\ slot' = r
  /\ run'   = [run EXCEPT ![r] = "waiting"]
  /\ gate'  = [q \in Runners |-> TRUE]
  /\ queue' = [q \in Runners |-> 0]
  /\ UNCHANGED stopping

\* Seeded fault: the event is cleared and never set again.
SetPausedOnce(b) ==
  IF slot = 0 \/ ~b THEN UNCHANGED <<gate, run>>
  ELSE gate' = [gate EXCEPT ![slot] = FALSE] /\ UNCHANGED run

\* set_paused: clearing the event does not call back a task it has woken.
SetPaused(b) ==
  IF slot = 0 THEN UNCHANGED <<gate, run>>
  ELSE /\ gate' = [gate EXCEPT ![slot] = ~b]
       /\ run'  = IF ~b /\ run[slot] = "held"
                    THEN [run EXCEPT ![slot] = "woken"] ELSE run

\* _maybe_rearm_watchdog
\* Seeded fault: a resumption leaves the watchdog as it is.
RearmNot == UNCHANGED watch
Rearm == watch' = (watch \/ Running)

\* send_prompt to the runner of the moment.
Prompt(n) ==
  /\ queue[slot] + n <= MaxQueue
  /\ queue' = [queue EXCEPT ![slot] = @ + n]
  /\ UNCHANGED <<phase, transport, slot, flags, night, record, watch, run, gate, stopping, exit>>

-----------------------------------------------------------------------------
(* start()                                                                 *)

Connect ==
  /\ phase = "off"
  /\ phase' = "connecting" /\ transport' = TRUE
  /\ UNCHANGED <<slot, flags, night, record, watch, session>>

Launch ==
  /\ phase = "connecting"
  /\ phase' = "arming"
  /\ NewRunner(1)
  /\ UNCHANGED <<transport, flags, night, record, watch, exit>>

\* The rest of _start_agent_runner and of start, after the log is written.
Launched ==
  /\ phase = "arming"
  /\ phase' = "up" /\ watch' = TRUE
  /\ UNCHANGED <<transport, slot, flags, night, record, session>>

-----------------------------------------------------------------------------
(* Prompts, pauses and the watchdog.                                       *)

\* _on_mention and the poll of a channel.
Mention ==
  /\ phase # "off" /\ transport
  /\ ~paused /\ Running
  /\ Prompt(1)

\* _handle_roominvite, and the requests clear and compact; compact queues two
\* prompts more when it is given a reason.
Command ==
  /\ Serving /\ Running
  /\ \E n \in {1, 3} : Prompt(n)

Pause ==
  /\ Serving
  /\ paused' = TRUE /\ manual' = TRUE
  /\ SetPaused(TRUE)
  /\ UNCHANGED <<phase, transport, slot, night, record, watch, stopping, queue, exit>>

Resume ==
  /\ Serving
  /\ paused' = FALSE /\ manual' = FALSE
  /\ SetPaused(FALSE)
  /\ Rearm
  /\ UNCHANGED <<phase, transport, slot, night, record, stopping, queue, exit>>

\* The hours of _parse_sleep_schedule begin or end.
Clock ==
  /\ night' = ~night
  /\ UNCHANGED <<phase, transport, slot, flags, record, watch, session>>

\* A minute of _sleep_scheduler, which stop cancels.
Scheduler ==
  /\ phase \in {"up", "ending"}
  /\ \/ /\ night /\ ~paused
        /\ paused' = TRUE
        /\ SetPaused(TRUE)
        /\ UNCHANGED watch
     \/ /\ ~night /\ paused /\ ~manual
        /\ paused' = FALSE
        /\ SetPaused(FALSE)
        /\ Rearm
  /\ UNCHANGED <<phase, transport, slot, manual, night, record, stopping, queue, exit>>

\* The poll of _idle_watchdog on which it returns.
WatchdogEnds ==
  /\ watch /\ (paused \/ ~Running)
  /\ watch' = FALSE
  /\ UNCHANGED <<phase, transport, slot, flags, night, record, session>>

-----------------------------------------------------------------------------
(* AgentRunner._run_loop                                                   *)

\* Seeded fault: the queue is not waited for.
TakeEmpty(r) ==
  /\ run[r] = "waiting"
  /\ queue' = [queue EXCEPT ![r] = @ - 1]
  /\ run' = [run EXCEPT ![r] = IF gate[r] THEN "turn" ELSE "held"]
  /\ UNCHANGED <<phase, transport, slot, flags, night, record, watch, gate, stopping, exit>>

\* A prompt is taken; the gate is awaited only when it is shut.
Take(r) ==
  /\ run[r] = "waiting" /\ queue[r] > 0
  /\ queue' = [queue EXCEPT ![r] = @ - 1]
  /\ run' = [run EXCEPT ![r] = IF stopping[r] THEN "leaving"
                               ELSE IF gate[r] THEN "turn" ELSE "held"]
  /\ UNCHANGED <<phase, transport, slot, flags, night, record, watch, gate, stopping, exit>>

Wake(r) ==
  /\ run[r] = "woken"
  /\ run' = [run EXCEPT ![r] = IF stopping[r] THEN "leaving" ELSE "turn"]
  /\ UNCHANGED <<phase, transport, slot, flags, night, record, watch, gate, stopping, queue, exit>>

\* _process_turn returns True; on_usage queues a hand-off and a compact when the
\* context fills.
TurnEnds(r) ==
  /\ run[r] = "turn"
  /\ run' = [run EXCEPT ![r] = IF stopping[r] THEN "leaving" ELSE "waiting"]
  /\ \/ UNCHANGED queue
     \/ /\ Running /\ queue[slot] + 2 <= MaxQueue
        /\ queue' = [queue EXCEPT ![slot] = @ + 2]
  /\ UNCHANGED <<phase, transport, slot, flags, night, record, watch, gate, stopping, exit>>

\* The session raises, or is silent for too long: on_exit(1) is awaited in place.
TurnFails(r) ==
  /\ run[r] = "turn" /\ r < MaxRunners
  /\ IF stopping[r]
       THEN run' = [run EXCEPT ![r] = "over"] /\ UNCHANGED exit
       ELSE /\ run'  = [run EXCEPT ![r] = "exiting"]
            /\ exit' = [exit EXCEPT ![r] = "logging"]
  /\ UNCHANGED <<phase, transport, slot, flags, night, record, watch, gate, stopping, queue>>

\* Seeded fault: the task that ended with an exception calls nobody.
TurnEscapesUnseen(r) ==
  /\ run[r] = "turn" /\ r < MaxRunners
  /\ run' = [run EXCEPT ![r] = "over"]
  /\ UNCHANGED <<phase, transport, slot, flags, night, record, watch, gate, stopping, queue, exit>>

\* A callback raises after the turn: the task ends, and _on_task_done starts the
\* call of on_exit(1) that nothing awaits.
TurnEscapes(r) ==
  /\ run[r] = "turn" /\ r < MaxRunners
  /\ run'  = [run EXCEPT ![r] = "over"]
  /\ exit' = IF stopping[r] THEN exit ELSE [exit EXCEPT ![r] = "logging"]
  /\ UNCHANGED <<phase, transport, slot, flags, night, record, watch, gate, stopping, queue>>

\* on_exit(0) has written its log.
Leave(r) ==
  /\ run[r] = "leaving"
  /\ run' = [run EXCEPT ![r] = "over"]
  /\ UNCHANGED <<phase, transport, slot, flags, night, record, watch, gate, stopping, queue, exit>>

-----------------------------------------------------------------------------
(* _on_agent_exit(1) and _delayed_restart, for the end of runner r.        *)

\* A crash grows older than CRASH_WINDOW_SECONDS.
Age ==
  /\ crashes.recent > 0
  /\ crashes' = [recent |-> crashes.recent - 1, old |-> crashes.old + 1]
  /\ UNCHANGED <<phase, transport, slot, flags, night, circuit, watch, session>>

\* _record_crash_time prunes the list and adds to it before its first await.
Count(r) ==
  /\ exit[r] = "logging"
  /\ exit'    = [exit EXCEPT ![r] = "counted"]
  /\ crashes' = [recent |-> crashes.recent + 1, old |-> 0]
  /\ UNCHANGED <<phase, transport, slot, flags, night, circuit, watch, run, gate, stopping, queue>>

\* The task of a runner that awaits on_exit(1) ends with it.
\* Seeded fault: on_exit awaits the delayed restart, too.
FinishLater(r) == UNCHANGED run
Finish(r) == run' = IF run[r] = "exiting" THEN [run EXCEPT ![r] = "over"] ELSE run

\* Whether the list is as long as the circuit breaker allows.
\* Seeded fault: off by one.
SpiralingLate == crashes.recent + crashes.old > MaxCrash
Spiraling     == crashes.recent + crashes.old >= MaxCrash

\* _evaluate_circuit_breaker opens the circuit, or the restart is scheduled.
Evaluate(r) ==
  /\ exit[r] = "counted"
  /\ \/ /\ Spiraling
        /\ circuit' = TRUE
        /\ exit' = [exit EXCEPT ![r] = "notifying"]
        /\ UNCHANGED run
     \/ /\ ~Spiraling
        /\ exit' = [exit EXCEPT ![r] = "delayed"]
        /\ Finish(r)
        /\ UNCHANGED circuit
  /\ UNCHANGED <<phase, transport, slot, flags, night, crashes, watch, gate, stopping, queue>>

\* The boss has been told that the circuit is open.
Notified(r) ==
  /\ exit[r] = "notifying"
  /\ exit' = [exit EXCEPT ![r] = "over"]
  /\ Finish(r)
  /\ UNCHANGED <<phase, transport, slot, flags, night, record, watch, gate, stopping, queue>>

\* CRASH_RESTART_DELAY is over.  It is longer than the moment in which stop
\* learns that the task it waits for has ended.
Restart(r) ==
  /\ exit[r] = "delayed"
  /\ phase = "joining" => Running
  /\ IF ~circuit /\ transport
       THEN /\ \E q \in Runners : NewRunner(q)
            /\ exit' = [exit EXCEPT ![r] = "arming"]
       ELSE /\ exit' = [exit EXCEPT ![r] = "over"]
            /\ UNCHANGED <<slot, run, gate, stopping, queue>>
  /\ UNCHANGED <<phase, transport, flags, night, record, watch>>

Restarted(r) ==
  /\ exit[r] = "arming"
  /\ exit' = [exit EXCEPT ![r] = "over"]
  /\ watch' = TRUE
  /\ UNCHANGED <<phase, transport, slot, flags, night, record, run, gate, stopping, queue>>

-----------------------------------------------------------------------------
(* stop()                                                                  *)

\* A signal or the request shutdown: the idle watchdog is cancelled.
Shutdown ==
  /\ phase = "up"
  /\ phase' = "ending" /\ watch' = FALSE
  /\ UNCHANGED <<transport, slot, flags, night, record, session>>

\* The poll and the scheduler are cancelled and AgentRunner.stop queues its
\* sentinel; it returns at once when the runner is already dead.
StopRunner ==
  /\ phase = "ending"
  /\ stopping' = [stopping EXCEPT ![slot] = TRUE]
  /\ queue'    = [queue EXCEPT ![slot] = @ + 1]
  /\ IF Running THEN phase' = "joining"  /\ UNCHANGED slot
                ELSE phase' = "draining" /\ slot' = 0
  /\ UNCHANGED <<transport, flags, night, record, watch, run, gate, exit>>

RunnerStopped ==
  /\ phase = "joining" /\ ~Running
  /\ phase' = "draining" /\ slot' = 0
  /\ UNCHANGED <<transport, flags, night, record, watch, session>>

\* Seeded fault: the wait has no end.
CancelNever == phase = "joining" /\ Running /\ UNCHANGED vars

\* After five seconds the task is cancelled, with the on_exit it awaits.
CancelRunner ==
  /\ phase = "joining" /\ Running
  /\ phase' = "draining" /\ slot' = 0
  /\ run'  = [run EXCEPT ![slot] = "over"]
  /\ exit' = IF run[slot] = "exiting" THEN [exit EXCEPT ![slot] = "over"] ELSE exit
  /\ UNCHANGED <<transport, flags, night, record, watch, gate, stopping, queue>>

\* The log is written and the supervisor has finished; the background tasks are
\* cancelled.  The request shutdown is one of them when it calls stop itself:
\* then stop waits for its own end.
Sweep ==
  /\ phase = "draining"
  /\ phase' = IF HasStopEvent THEN "closing" ELSE "stuck"
  /\ exit'  = [r \in Runners |-> IF exit[r] \in {"delayed", "arming"} THEN "over" ELSE exit[r]]
  /\ UNCHANGED <<transport, slot, flags, night, record, watch, run, gate, stopping, queue>>

Close ==
  /\ phase = "closing"
  /\ phase' = "stopped" /\ transport' = FALSE
  /\ UNCHANGED <<slot, flags, night, record, watch, session>>

-----------------------------------------------------------------------------
Start == Connect \/ Launch \/ Launched
Stop  == StopRunner \/ RunnerStopped \/ CancelRunner \/ Sweep \/ Close

RunnerStep(r) == Take(r) \/ Wake(r) \/ TurnEnds(r) \/ Leave(r)
ExitStep(r)   == Count(r) \/ Evaluate(r) \/ Notified(r) \/ Restart(r) \/ Restarted(r)

Next ==
  \/ Start \/ Shutdown \/ Stop
  \/ Mention \/ Command \/ Pause \/ Resume \/ Clock \/ Scheduler \/ WatchdogEnds \/ Age
  \/ \E r \in Runners : RunnerStep(r) \/ TurnFails(r) \/ TurnEscapes(r) \/ ExitStep(r)

Spec == Init /\ [][Next]_vars

\* Every task that can go on does.  A turn ends: the session is given up when it
\* is silent, and what it sends forever is not modelled.  Nothing is assumed of
\* the requests, the clock, the failures or a shutdown.
Fairness ==
  /\ WF_vars(Start) /\ WF_vars(Stop) /\ WF_vars(Scheduler)
  /\ \A r \in Runners : WF_vars(RunnerStep(r)) /\ WF_vars(ExitStep(r))

FairSpec == Spec /\ Fairness

-----------------------------------------------------------------------------
(* Properties.                                                             *)

\* At most one runner takes prompts: a runner that has crashed is gone before
\* the daemon starts another, whichever way its end was noticed.
OneRunner == \A q, r \in Runners : Live(q) /\ Live(r) => q = r

\* No runner is started when MaxCrash crashes lie within the window, however the
\* crashes age while their handlers wait.
NoSpiral ==
  [][\A r \in Runners : run[r] = "none" /\ run'[r] # "none" => crashes.recent < MaxCrash]_vars

\* A running agent that is not paused is watched, whatever the order of pauses,
\* resumptions, crashes and polls of the watchdog.
Watched ==
  phase = "up" /\ ~paused /\ Running /\ (\A r \in Runners : exit[r] # "arming") => watch

\* A daemon whose runner has died gets a running one, opens the circuit or is
\* shut down.
Recovers == (phase = "up" /\ ~Running) ~> (circuit \/ phase # "up" \/ Running)

\* A prompt that a runner has accepted is begun, unless the agent is paused, the
\* runner dies or the daemon stops.
Served ==
  \A r \in Runners :
    (Live(r) /\ queue[r] > 0) ~> (run[r] = "turn" \/ ~Live(r) \/ paused \/ phase # "up")

\* A stop that was begun ends with the connection closed, whatever the runner is
\* doing: in a turn, held by a pause, or being replaced.
StopEnds == phase = "ending" ~> (phase = "stopped" /\ ~transport)

=============================================================================
