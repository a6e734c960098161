------------------------------ MODULE TurnRelay -----------------------------
(***************************************************************************)
(* The turns of an agent whose backend is another program, and the way its *)
(* answers find back to those who asked: the runner, which speaks JSON-RPC *)
(* with the program over pipes or calls an SDK, and the daemon, which      *)
(* keeps a queue of the targets to relay answers to beside the queue of    *)
(* the prompts (culture/clients/codex, acp and copilot, agent_runner.py    *)
(* and daemon.py).                                                         *)
(*                                                                         *)
(* A target is taken from its queue by whatever text the agent says next   *)
(* and by every error, not by the prompt it came with.  `skewed' is set by *)
(* each step after which the two queues may be out of step; the properties *)
(* say that there is no other.                                             *)
(***************************************************************************)
EXTENDS Naturals, Sequences, FiniteSets, SequencesExt

CONSTANTS
  Backends,     \* among "codex", "acp" and "copilot"
  MaxRunners,   \* bound: runners that are started
  Budget        \* bound, per backend: runners that are started and prompts, in all

ASSUME BackendsAssumption == Backends \subseteq {"codex", "acp", "copilot"}
ASSUME RelayBoundsAssumption == MaxRunners \in Nat \ {0} /\ Budget \in [Backends -> Nat]

NoTarget == 0
Runners  == 1..MaxRunners
Asks     == 0..Max({Budget[b] : b \in Backends})

VARIABLES
  backend,   \* the backend of the agent
  alive,     \* the daemon runs
  slot,      \* _agent_runner; 0 is None
  run,       \* per runner: the runner and its process
  exit,      \* per runner: what its end has set off
  tasks,     \* tasks of the daemon that will queue a prompt, in their order
  targets,   \* _mention_targets
  asked,     \* how many prompts there were
  told,      \* the last text sent to a target: about whose prompts, and to whom
  skewed     \* history variable: targets and prompts may be out of step

vars == <<backend, alive, slot, run, exit, tasks, targets, asked, told, skewed>>

\* A prompt, the one its answer is for, and whether it has a place in `targets'.
Prompt(n, to, owed) == [n |-> n, to |-> to, owed |-> owed]
NoPrompt     == Prompt(0, NoTarget, FALSE)
SystemPrompt == Prompt(0, NoTarget, TRUE)
Prompts      == [n : Asks, to : Asks, owed : BOOLEAN]

Message(kind, p, try) == [kind |-> kind, prompt |-> p, try |-> try]

\* A runner: where start() is; _running; whether there is a thread; its program, what
\* was written to it and what it has written; the reader; the prompts that wait; the
\* prompt loop with its prompt, its try and whether it took a target, a request that
\* waits for its response; _accumulated_text; _turn_done; _busy.
Idle == [boot |-> "no", running |-> FALSE, thread |-> FALSE,
         process |-> FALSE, todo |-> <<>>, pipe |-> <<>>, reader |-> "off",
         queue |-> <<>>, turn |-> "idle", at |-> NoPrompt, try |-> 1, took |-> FALSE,
         pending |-> FALSE, text |-> {}, done |-> TRUE, busy |-> FALSE]

Init ==
  /\ backend \in Backends
  /\ alive = TRUE /\ slot = 0
  /\ run = [r \in Runners |-> Idle]
  /\ exit = [r \in Runners |-> "none"]
  /\ tasks = <<>> /\ targets = <<>> /\ asked = 0
  /\ told = [about |-> {NoTarget}, to |-> NoTarget]
  /\ skewed = FALSE

Created == Cardinality({r \in Runners : run[r].boot # "no"})
NewRunner == Created + 1
Bounded == Created + asked < Budget[backend]

-----------------------------------------------------------------------------
(* Targets.                                                                 *)

\* A text about the prompts of `about' goes to whoever comes first in the queue.
Tells(about) ==
  told' = [about |-> about, to |-> IF targets = <<>> THEN NoTarget ELSE Head(targets)]
Pops == targets' = IF targets = <<>> THEN targets ELSE Tail(targets)

\* _on_agent_message and _relay_response_to_irc.
Relays(about) == Tells(about) /\ Pops

\* Seeded fault: the target of a prompt that failed stays in the queue.
ApologisesKeepingTarget(to) == Tells({to}) /\ UNCHANGED targets
\* _on_turn_error.
Apologises(to) == Tells({to}) /\ Pops

\* The prompt under way has no target to take, or took it before.
Spent(r) == ~run[r].at.owed \/ run[r].took

\* The turn ends: a prompt that was not answered leaves its target behind.
Ended(x) == [x EXCEPT !.turn = "idle", !.busy = FALSE]
EndsSilent(r) ==
  /\ run' = [run EXCEPT ![r] = Ended(@)]
  /\ skewed' = (skewed \/ (run[r].at.owed /\ ~run[r].took))
  /\ UNCHANGED <<targets, told>>
\* What acp has gathered stays, and begins the next answer.
EndsInError(r) ==
  /\ Apologises(run[r].at.to)
  /\ skewed' = (skewed \/ Spent(r) \/ (backend = "acp" /\ run[r].text # {}))
  /\ run' = [run EXCEPT ![r] = [Ended(@) EXCEPT !.pending = FALSE, !.done = TRUE]]

-----------------------------------------------------------------------------
(* Starting a runner.                                                       *)

\* _start_agent_runner, as far as the first request; acp keeps a place for the answer
\* to the system prompt.
Starting ==
  /\ NewRunner \in Runners /\ Bounded
  /\ slot' = NewRunner
  /\ run' = [run EXCEPT ![NewRunner].boot = "starting", ![NewRunner].process = TRUE,
                        ![NewRunner].reader = IF backend = "copilot" THEN "off" ELSE "reading"]
  /\ targets' = IF backend = "acp" THEN Append(targets, NoTarget) ELSE targets

Start ==
  /\ alive /\ NewRunner = 1
  /\ Starting
  /\ UNCHANGED <<backend, alive, exit, tasks, asked, told, skewed>>

\* start returns; codex may have been refused a thread and goes on without.
Booted ==
  /\ \E r \in Runners :
       /\ run[r].boot = "starting" /\ run[r].process
       /\ \E thread \in (IF backend = "codex" THEN BOOLEAN ELSE {TRUE}) :
            run' = [run EXCEPT ![r].boot = "done", ![r].running = TRUE, ![r].thread = thread,
                               ![r].queue = IF backend = "acp" THEN <<SystemPrompt>> ELSE <<>>]
  /\ UNCHANGED <<backend, alive, slot, exit, tasks, targets, asked, told, skewed>>

\* The last answer that start waits for and the end of the program are read in one go:
\* the end is handled, and the runner runs after it.
BootedLate ==
  /\ \E r \in Runners :
       /\ run[r].boot = "starting" /\ run[r].reader = "ended"
       /\ run' = [run EXCEPT ![r].boot = "done", ![r].running = TRUE, ![r].thread = TRUE,
                             ![r].turn = "idle",
                             ![r].queue = IF backend = "acp" THEN <<SystemPrompt>> ELSE <<>>]
  /\ skewed' = TRUE
  /\ UNCHANGED <<backend, alive, slot, exit, tasks, targets, asked, told>>

\* start fails: no answer in time, a refusal, a program that ended.  The first failure
\* ends a codex or copilot daemon; later the exception is lost with the task, and so is
\* a copilot agent, while a codex program stays until it ends.
StartFails ==
  /\ backend \in {"codex", "copilot"}
  /\ \E r \in Runners :
       /\ run[r].boot = "starting"
       /\ run' = [run EXCEPT ![r].boot = "failed",
                             ![r].process = @ /\ backend = "codex"]
       /\ alive' = (alive /\ r # 1)
  /\ UNCHANGED <<backend, slot, exit, tasks, targets, asked, told, skewed>>

\* Seeded fault: the reader is left to itself, and sets off a restart of its own.
AcpStartFailsLeavingReader ==
  /\ backend = "acp"
  /\ \E r \in Runners :
       /\ run[r].boot = "starting"
       /\ run' = [run EXCEPT ![r].boot = "failed", ![r].process = FALSE]
       /\ exit' = [exit EXCEPT ![r] = IF r = 1 THEN "restart" ELSE "handling"]
       /\ slot' = IF r = 1 THEN 0 ELSE slot
  /\ skewed' = TRUE
  /\ UNCHANGED <<backend, alive, tasks, targets, asked, told>>
\* acp: start calls stop, which cancels the reader and an _on_agent_exit it is in.  The
\* first failure schedules a restart in any case, a later one is a crash like others.
\* The place for the system prompt stays.
AcpStartFails ==
  /\ backend = "acp"
  /\ \E r \in Runners :
       /\ run[r].boot = "starting"
       /\ run' = [run EXCEPT ![r].boot = "failed", ![r].process = FALSE, ![r].reader = "ended",
                             ![r].pipe = <<>>]
       /\ exit' = [exit EXCEPT ![r] = IF r = 1 THEN "restart" ELSE "handling"]
       /\ slot' = IF r = 1 THEN 0 ELSE slot
  /\ skewed' = TRUE
  /\ UNCHANGED <<backend, alive, tasks, targets, asked, told>>

-----------------------------------------------------------------------------
(* The end of a runner.                                                     *)

\* The program ends; what it has written can still be read.
Die ==
  /\ \E r \in Runners :
       /\ run[r].process /\ backend # "copilot"
       /\ \E k \in 0..Len(run[r].pipe) :
            run' = [run EXCEPT ![r].process = FALSE, ![r].todo = <<>>,
                               ![r].pipe = SubSeq(@, 1, k)]
  /\ UNCHANGED <<backend, alive, slot, exit, tasks, targets, asked, told, skewed>>

\* The one prompt under way will be apologised for before the restart.
OnlyPending(r) == /\ backend = "codex" /\ run[r].pending
                  /\ Len(targets) = 1 /\ run[r].queue = <<>> /\ tasks = <<>>

\* The read loop ends: requests that wait fail, acp cancels the prompt loop, and
\* on_exit is called.
Cleanup ==
  /\ \E r \in Runners :
       /\ run[r].reader = "reading" /\ run[r].pipe = <<>> /\ ~run[r].process
       /\ run' = [run EXCEPT
                   ![r].reader = "ended", ![r].running = FALSE, ![r].pending = FALSE,
                   ![r].turn = IF backend = "acp" THEN "gone"
                               ELSE IF run[r].pending THEN "failing" ELSE @]
       /\ exit' = [exit EXCEPT ![r] = "handling"]
       /\ skewed' = (skewed \/ (targets # <<>> /\ ~OnlyPending(r)))
  /\ UNCHANGED <<backend, alive, slot, tasks, targets, asked, told>>

\* _on_agent_exit: a clean exit or one crash too many is the end.  It awaits first, so
\* that a start() that failed is handled before it goes on.
OnExit ==
  /\ \E r \in Runners :
       /\ exit[r] = "handling" /\ run[r].boot # "starting"
       /\ \E next \in {"restart", "over"} : exit' = [exit EXCEPT ![r] = next]
  /\ UNCHANGED <<backend, alive, slot, run, tasks, targets, asked, told, skewed>>

\* _delayed_restart; a prompt loop that was told of the end has run in these 5 s.
Restart ==
  /\ alive
  /\ \E r \in Runners :
       /\ exit[r] = "restart" /\ run[r].turn # "failing"
       /\ exit' = [exit EXCEPT ![r] = "over"]
  /\ Starting
  /\ UNCHANGED <<backend, alive, tasks, asked, told, skewed>>

-----------------------------------------------------------------------------
(* Prompts.                                                                 *)

Live == alive /\ slot # 0 /\ run[slot].running

Asking == /\ Bounded
          /\ asked' = asked + 1

Put(r, p) == run' = [run EXCEPT ![r].queue = Append(@, p)]

\* A prompt that is put now comes before one whose target is in the queue already.
Overtakes(waiting) == \E i \in DOMAIN waiting : waiting[i].kind = "put"

\* _on_mention and _send_channel_poll: the target at once, the prompt by a task.
Mention ==
  /\ Live /\ Asking
  /\ targets' = Append(targets, asked')
  /\ tasks' = Append(tasks, [kind |-> "put", runner |-> slot, prompt |-> Prompt(asked', asked', TRUE)])
  /\ UNCHANGED <<backend, alive, slot, run, exit, told, skewed>>

\* _on_roominvite: all of it by a task.
Invite ==
  /\ alive /\ Asking
  /\ tasks' = Append(tasks, [kind |-> "invite", runner |-> 0,
                             prompt |-> Prompt(asked', NoTarget, TRUE)])
  /\ UNCHANGED <<backend, alive, slot, run, exit, targets, told, skewed>>

\* _query_agent_status: at once.
Query ==
  /\ Live /\ Asking
  /\ targets' = Append(targets, NoTarget)
  /\ Put(slot, Prompt(asked', NoTarget, TRUE))
  /\ skewed' = (skewed \/ Overtakes(tasks))
  /\ UNCHANGED <<backend, alive, slot, exit, tasks, told>>

\* _ipc_compact and _ipc_clear: prompts without a target.
Command ==
  /\ Live /\ Asking
  /\ Put(slot, Prompt(asked', NoTarget, FALSE))
  /\ UNCHANGED <<backend, alive, slot, exit, tasks, targets, told, skewed>>

\* The first task runs: send_prompt of the runner it was made for, or
\* _handle_roominvite, which joins if nobody can be asked.
RunTask ==
  /\ tasks # <<>>
  /\ tasks' = Tail(tasks)
  /\ LET task == Head(tasks) IN
     \/ /\ task.kind = "put"
        /\ Put(task.runner, task.prompt)
        /\ UNCHANGED <<targets, skewed>>
     \/ /\ task.kind = "invite" /\ Live
        /\ Put(slot, task.prompt)
        /\ targets' = Append(targets, NoTarget)
        /\ skewed' = (skewed \/ Overtakes(Tail(tasks)))
     \/ /\ task.kind = "invite" /\ ~Live
        /\ UNCHANGED <<run, targets, skewed>>
  /\ UNCHANGED <<backend, alive, slot, exit, asked, told>>

-----------------------------------------------------------------------------
(* The program.                                                             *)

\* What it writes about a prompt: an answer, nothing, an error, a refusal.
Scripts == IF backend = "codex"
           THEN {<<"result", "started", "delta", "completed">>, <<"result", "started", "completed">>,
                 <<"result", "started", "delta", "error">>, <<"refused">>}
           ELSE {<<"delta", "stopped">>, <<"stopped">>, <<"delta", "result", "stop">>,
                 <<"delta", "refused">>}

\* It works through the requests in their order, one written text at a time.
Work ==
  /\ \E r \in Runners :
       /\ run[r].process /\ run[r].todo # <<>> /\ run[r].pipe = <<>>
       /\ \E script \in Scripts :
            LET job == Head(run[r].todo) IN
            run' = [run EXCEPT ![r].todo = Tail(@),
                               ![r].pipe = @ \o [i \in DOMAIN script |->
                                                   Message(script[i], job.prompt, job.try)]]
  /\ UNCHANGED <<backend, alive, slot, exit, tasks, targets, asked, told, skewed>>

-----------------------------------------------------------------------------
(* The prompt loop.                                                         *)

Request(x, p, try) ==
  [x EXCEPT !.turn = "asked", !.at = p, !.try = try, !.pending = TRUE, !.busy = TRUE,
            !.todo = IF x.process /\ backend # "copilot" THEN Append(@, Message("ask", p, try)) ELSE @]

Taken(x) == [x EXCEPT !.queue = Tail(@), !.at = Head(x.queue), !.try = 1, !.took = FALSE,
                      !.done = FALSE]
Takes(r) == run[r].running /\ run[r].turn = "idle" /\ run[r].queue # <<>>

\* _prompt_loop and the first half of a turn: the request is written, or nobody
\* reads it any more.
Take ==
  /\ \E r \in Runners :
       /\ Takes(r)
       /\ run[r].thread
       /\ run[r].reader # "ended"
       /\ run' = [run EXCEPT ![r] = Request(Taken(@), Head(@.queue), 1)]
  /\ UNCHANGED <<backend, alive, slot, exit, tasks, targets, asked, told, skewed>>

\* Writing to a program that has ended fails.
TakeInVain ==
  /\ backend # "copilot"
  /\ \E r \in Runners :
       /\ Takes(r)
       /\ run[r].thread
       /\ ~run[r].process
       /\ run' = [run EXCEPT ![r] = [Taken(@) EXCEPT !.done = TRUE]]
       /\ Apologises(Head(run[r].queue).to)
       /\ skewed' = (skewed \/ ~Head(run[r].queue).owed)
  /\ UNCHANGED <<backend, alive, slot, exit, tasks, asked>>

\* codex without a thread: the loop ends, and the prompt is lost.
TakeWithoutThread ==
  /\ \E r \in Runners :
       /\ Takes(r) /\ ~run[r].thread
       /\ run' = [run EXCEPT ![r].queue = Tail(@), ![r].turn = "gone"]
  /\ skewed' = TRUE
  /\ UNCHANGED <<backend, alive, slot, exit, tasks, targets, asked, told>>

\* Seeded fault: nothing limits the time between a response and the end of the turn.
TimeoutOfResponse ==
  /\ backend = "codex"
  /\ \E r \in Runners :
       /\ run[r].turn = "asked" /\ run[r].pending
       /\ EndsInError(r)
  /\ UNCHANGED <<backend, alive, slot, exit, tasks, asked>>
\* codex: 30 s for the response, 300 s for the end of the turn.
Timeout ==
  /\ backend = "codex"
  /\ \E r \in Runners :
       /\ \/ run[r].turn = "asked" /\ run[r].pending
          \/ run[r].turn = "waiting" /\ ~run[r].done
       /\ EndsInError(r)
  /\ UNCHANGED <<backend, alive, slot, exit, tasks, asked>>

\* acp: 300 s for the response, and 300 s again for a second request.
Retry ==
  /\ backend = "acp"
  /\ \E r \in Runners :
       /\ run[r].turn = "asked" /\ run[r].pending /\ run[r].try = 1
       /\ run' = [run EXCEPT ![r] = Request(@, @.at, 2)]
  /\ UNCHANGED <<backend, alive, slot, exit, tasks, targets, asked, told, skewed>>
GiveUp ==
  /\ backend = "acp"
  /\ \E r \in Runners :
       /\ run[r].turn = "asked" /\ run[r].pending /\ run[r].try = 2
       /\ EndsInError(r)
  /\ UNCHANGED <<backend, alive, slot, exit, tasks, asked>>

\* codex: the request that the end of the program has failed.
RequestFailed ==
  /\ backend = "codex"
  /\ \E r \in Runners :
       /\ run[r].turn = "failing"
       /\ EndsInError(r)
  /\ UNCHANGED <<backend, alive, slot, exit, tasks, asked>>

\* The turn is over when _turn_done is set, or acp is not busy any more.
TurnEnds ==
  /\ \E r \in Runners :
       /\ run[r].turn = "waiting"
       /\ IF backend = "codex" THEN run[r].done ELSE ~run[r].busy
       /\ EndsSilent(r)
  /\ UNCHANGED <<backend, alive, slot, exit, tasks, asked>>

\* acp: _handle_prompt_result with a stop reason: what was gathered is relayed.
FlushResult ==
  /\ backend = "acp"
  /\ \E r \in Runners :
       /\ run[r].turn = "responded"
       /\ IF run[r].text = {}
          THEN EndsSilent(r)
          ELSE /\ Relays(run[r].text)
               /\ skewed' = (skewed \/ Spent(r))
               /\ run' = [run EXCEPT ![r].turn = "relaying", ![r].took = TRUE]
  /\ UNCHANGED <<backend, alive, slot, exit, tasks, asked>>

FlushResultEnds ==
  /\ \E r \in Runners :
       /\ run[r].turn = "relaying"
       /\ run' = [run EXCEPT ![r] = [Ended(@) EXCEPT !.text = {}]]
  /\ UNCHANGED <<backend, alive, slot, exit, tasks, targets, asked, told, skewed>>

\* copilot: send_and_wait returns a text, or nothing.
CopilotAnswers ==
  /\ backend = "copilot"
  /\ \E r \in Runners :
       /\ run[r].turn = "asked"
       /\ \/ /\ Relays({run[r].at.to})
             /\ skewed' = (skewed \/ Spent(r))
             /\ run' = [run EXCEPT ![r].turn = "relaying", ![r].took = TRUE]
          \/ EndsSilent(r)
  /\ UNCHANGED <<backend, alive, slot, exit, tasks, asked>>

\* It raises, or its 120 s are over: the runner ends, after the apology.
CopilotFails ==
  /\ backend = "copilot"
  /\ \E r \in Runners :
       /\ run[r].turn = "asked"
       /\ Apologises(run[r].at.to)
       /\ skewed' = (skewed \/ Spent(r))
       /\ run' = [run EXCEPT ![r].turn = "failing"]
  /\ UNCHANGED <<backend, alive, slot, exit, tasks, asked>>

CopilotExits ==
  /\ backend = "copilot"
  /\ \E r \in Runners :
       /\ run[r].turn = "failing"
       /\ run' = [run EXCEPT ![r].turn = "gone", ![r].running = FALSE]
       /\ exit' = [exit EXCEPT ![r] = "handling"]
  /\ skewed' = (skewed \/ targets # <<>>)
  /\ UNCHANGED <<backend, alive, slot, tasks, targets, asked, told>>

-----------------------------------------------------------------------------
(* The reader.                                                              *)

Reads(r, kind) == /\ run[r].reader = "reading" /\ run[r].pipe # <<>>
                  /\ Head(run[r].pipe).kind = kind
Line(r) == Head(run[r].pipe)
Rest(r) == [run[r] EXCEPT !.pipe = Tail(@)]
Late(r) == Line(r).prompt # run[r].at \/ Line(r).try # run[r].try \/ run[r].turn = "idle"

\* _dispatch_jsonrpc_message: a response that nobody waits for is dropped.
ReadResponse ==
  /\ \E r \in Runners, kind \in {"result", "stopped", "refused"} :
       /\ Reads(r, kind)
       /\ run' = [run EXCEPT ![r] =
                    IF run[r].pending /\ ~Late(r)
                    THEN [Rest(r) EXCEPT !.pending = FALSE,
                                         !.turn = IF kind = "stopped" THEN "responded" ELSE "waiting"]
                    ELSE Rest(r)]
  /\ UNCHANGED <<backend, alive, slot, exit, tasks, targets, asked, told, skewed>>

\* _handle_notification: "started" throws away what was gathered, "delta" adds to it.
ReadText ==
  /\ \E r \in Runners :
       /\ \/ /\ Reads(r, "started")
             /\ run' = [run EXCEPT ![r] = [Rest(r) EXCEPT !.busy = TRUE, !.text = {}]]
          \/ /\ Reads(r, "delta")
             /\ run' = [run EXCEPT ![r] = [Rest(r) EXCEPT !.busy = TRUE,
                                                          !.text = @ \cup {Line(r).prompt.to}]]
       /\ skewed' = (skewed \/ Late(r))
  /\ UNCHANGED <<backend, alive, slot, exit, tasks, targets, asked, told>>

\* The end of a turn: what was gathered is relayed first.
ReadEnd ==
  /\ \E r \in Runners, kind \in {"completed", "stop"} :
       /\ Reads(r, kind)
       /\ IF run[r].text = {}
          THEN /\ run' = [run EXCEPT ![r] = [Rest(r) EXCEPT !.busy = FALSE, !.done = TRUE]]
               /\ skewed' = (skewed \/ Late(r))
               /\ UNCHANGED <<targets, told>>
          ELSE /\ run' = [run EXCEPT ![r] = [Rest(r) EXCEPT !.busy = FALSE, !.reader = "relaying",
                                                            !.took = TRUE]]
               /\ Relays(run[r].text)
               /\ skewed' = (skewed \/ Late(r) \/ Spent(r))
  /\ UNCHANGED <<backend, alive, slot, exit, tasks, asked>>

RelayEnds ==
  /\ \E r \in Runners :
       /\ run[r].reader = "relaying"
       /\ run' = [run EXCEPT ![r].reader = "reading", ![r].text = {}, ![r].done = TRUE]
  /\ UNCHANGED <<backend, alive, slot, exit, tasks, targets, asked, told, skewed>>

\* An error of codex ends the turn, with an apology.
ReadError ==
  /\ \E r \in Runners :
       /\ Reads(r, "error")
       /\ run' = [run EXCEPT ![r] = [Rest(r) EXCEPT !.busy = FALSE, !.done = TRUE, !.took = TRUE]]
       /\ Apologises(run[r].at.to)
       /\ skewed' = (skewed \/ Late(r) \/ Spent(r))
  /\ UNCHANGED <<backend, alive, slot, exit, tasks, asked>>

-----------------------------------------------------------------------------

Lifecycle  == \/ Start \/ Booted \/ BootedLate \/ StartFails \/ AcpStartFails
              \/ Die \/ Cleanup \/ OnExit \/ Restart
Requests   == Mention \/ Invite \/ Query \/ Command \/ RunTask
PromptLoop == \/ Take \/ TakeInVain \/ TakeWithoutThread \/ Timeout \/ Retry \/ GiveUp
              \/ RequestFailed \/ TurnEnds \/ FlushResult \/ FlushResultEnds
              \/ CopilotAnswers \/ CopilotFails \/ CopilotExits
Reader     == ReadResponse \/ ReadText \/ ReadEnd \/ RelayEnds \/ ReadError

Next == Lifecycle \/ Requests \/ Work \/ PromptLoop \/ Reader

Spec == Init /\ [][Next]_vars

\* asyncio runs what is ready, and its time-outs; nobody has to ask, and the program
\* need not answer nor end.
FairSpec ==
  /\ Spec
  /\ WF_vars(Start) /\ WF_vars(Booted \/ BootedLate \/ StartFails \/ AcpStartFails)
  /\ WF_vars(Cleanup) /\ WF_vars(OnExit) /\ WF_vars(Restart) /\ WF_vars(RunTask)
  /\ WF_vars(Take \/ TakeInVain \/ TakeWithoutThread)
  /\ WF_vars(Timeout) /\ WF_vars(Retry \/ GiveUp) /\ WF_vars(RequestFailed) /\ WF_vars(TurnEnds)
  /\ WF_vars(FlushResult \/ FlushResultEnds)
  /\ WF_vars(CopilotAnswers \/ CopilotFails) /\ WF_vars(CopilotExits)
  /\ WF_vars(Reader)

-----------------------------------------------------------------------------
(* Properties.                                                              *)

Boots    == {"no", "starting", "done", "failed"}
Readers  == {"off", "reading", "relaying", "ended"}
Turns    == {"idle", "asked", "waiting", "responded", "relaying", "failing", "gone"}
Kinds    == {"result", "started", "delta", "completed", "error", "refused", "stopped", "stop"}
Messages == [kind : Kinds \cup {"ask"}, prompt : Prompts, try : 1..2]
Machines == [boot : Boots, running : BOOLEAN, thread : BOOLEAN, process : BOOLEAN,
             todo : Seq(Messages), pipe : Seq(Messages), reader : Readers,
             queue : Seq(Prompts), turn : Turns, at : Prompts, try : 1..2, took : BOOLEAN,
             pending : BOOLEAN, text : SUBSET Asks, done : BOOLEAN, busy : BOOLEAN]
Jobs     == [kind : {"put", "invite"}, runner : 0..MaxRunners, prompt : Prompts]

\* The variables have values of their types.
TypeOK ==
  /\ backend \in Backends /\ alive \in BOOLEAN /\ slot \in 0..MaxRunners
  /\ run \in [Runners -> Machines]
  /\ exit \in [Runners -> {"none", "handling", "restart", "over"}]
  /\ tasks \in Seq(Jobs) /\ targets \in Seq(Asks)
  /\ asked \in Asks
  /\ told \in [about : SUBSET Asks, to : Asks]
  /\ skewed \in BOOLEAN

\* Nothing is under way.
Settled == /\ tasks = <<>>
           /\ \A r \in Runners :
                /\ run[r].boot # "starting" /\ run[r].reader # "relaying"
                /\ run[r].running => run[r].queue = <<>>
                /\ run[r].turn \in {"idle", "gone"}

\* Every text of the agent, answer or apology, goes to the one whose prompt it is about,
\* and no target is left for a later one when nothing is under way, in whatever order
\* prompts, answers, errors, time-outs and restarts come, as long as none of these has
\* happened: a turn that ended without a text, a text or an error about a command, a late
\* line of a prompt that was given up, a runner that ended with prompts waiting, a prompt
\* that overtook another, an acp start that failed or came late (daemon._mention_targets,
\* _on_mention: "FIFO matches prompt queue order").
InStep == ~skewed => /\ told.about \subseteq {told.to}
                     /\ Settled => targets = <<>>

\* At most one runner serves prompts with a program that is alive, and it is the one the
\* daemon knows (daemon._delayed_restart, agent_runner.start).
OneServing == \A r \in Runners : run[r].running /\ run[r].process => r = slot

\* No prompt waits for ever in a runner that runs, unless an acp program neither ended
\* the turn nor itself (agent_runner._prompt_loop).
Hung(r) == backend = "acp" /\ run[r].turn = "waiting"
PromptsTaken ==
  \A r \in Runners :
    <>[](run[r].running /\ run[r].thread /\ run[r].queue # <<>>) => <>[]Hung(r)

=============================================================================
