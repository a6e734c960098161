----------------------------- MODULE PermBroker -----------------------------
(***************************************************************************)
(* Permission requests of supervised agents                                *)
(* (culture/clients/_perm_broker.py, with its callers in cli/boss.py,      *)
(* dashboard/server.py and clients/bridge/daemon.py).                      *)
(*                                                                         *)
(* A worker that no rule of its policy file answers writes a request file  *)
(* and waits for a decision file.  Approvers, each a process of its own,   *)
(* write decisions; the worker removes both files and may add a rule to    *)
(* its policy, which a bridge may edit at the same time.  Nothing is       *)
(* locked: the steps here are the system calls that another process may    *)
(* come between.                                                           *)
(*                                                                         *)
(* Abstractions.  Patterns are names of tools.  A rule with an input_regex *)
(* is "narrow" and matches the narrow calls of its tool.  Every write of a *)
(* policy changes its mtime, so that the cache of _load_policy is never    *)
(* stale.  Writing a request or a policy does not fail.  A person's edit   *)
(* of a policy only takes allowances away.                                 *)
(***************************************************************************)
EXTENDS Naturals, FiniteSets

CONSTANTS
  Workers,    \* the nicks of the supervised agents
  Requests,   \* the identifiers of requests, one for each call of a tool
  Tools,      \* the names of the tools
  HighRisk,   \* the tools of _is_high_risk_tool
  SeedRules,  \* the auto_allow rules of a seeded policy
  Approvers,  \* processes that decide: boss commands, dashboard requests
  None,       \* no tool, no worker
  MaxActs,    \* bound: decisions attempted
  MaxEdits,   \* bound: grants and edits of a policy, and clean-ups
  MaxCrashes  \* bound: workers that die

ASSUME HighRiskAssumption == HighRisk \subseteq Tools
ASSUME NoneAssumption     == None \notin Tools \cup Workers

Rules == [tool : Tools, narrow : BOOLEAN]
Calls == [tool : Tools, narrow : BOOLEAN]

ASSUME SeedAssumption == /\ SeedRules \subseteq Rules
                         /\ \A rule \in SeedRules : rule.tool \in HighRisk => rule.narrow

Policies  == [auto_allow : SUBSET Rules, auto_deny : SUBSET Rules]
\* Both approvers deny for once only, and only an allowance for good has a use
\* for a pattern.
Decisions == [verdict : {"allow", "deny"}, scope : {"once"}, narrow : {FALSE}, pattern : {None}]
        \cup [verdict : {"allow"}, scope : {"always"}, narrow : BOOLEAN, pattern : Tools \cup {None}]

\* What may be at the path of a decision: nothing, an empty file or a decision.
Absent == [verdict |-> "absent", scope |-> "once", narrow |-> FALSE, pattern |-> None]
Empty  == [verdict |-> "empty", scope |-> "once", narrow |-> FALSE, pattern |-> None]

VARIABLES
  alive,     \* the workers whose daemon runs
  queue,     \* the requests that have a file in perm-queue
  decision,  \* decision[r]: the file in perm-decisions
  policy,    \* policy[w]: the file in perm-policy
  gate,      \* gate[r]: where PermissionBroker.gate is
  by,        \* by[r]: the worker that asked
  call,      \* call[r]: the tool call in question
  local,     \* local[r]: the decision that gate has read, and the policy
  approver,  \* approver[a]: what process a is doing
  editor,    \* the bridge's grant: the worker, the rule and the policy read
  cleaner,   \* the boss's clean-up: the workers it saw running, its phase and list
  acts, edits, crashes,
  told,      \* told[r]: the approvers that were told their decision stands
  result,    \* result[r]: what the caller of gate got
  dead,      \* the requests on which an approver died halfway
  given      \* given[w]: the rules that somebody meant w to have

files   == <<queue, decision, policy>>
workers == <<alive, gate, by, call, local, result>>
bounds  == <<acts, edits, crashes>>
vars    == <<files, workers, approver, editor, cleaner, bounds, told, dead, given>>

-----------------------------------------------------------------------------
(* Policies. *)

\* _rule_matches: only the input of a high-risk tool is looked at.
Matches(c, rule) == rule.tool = c.tool /\ (rule.narrow => c.narrow /\ c.tool \in HighRisk)

\* match_policy: denials before allowances.
Verdict(c, P) ==
  IF \E rule \in P.auto_deny : Matches(c, rule) THEN "deny"
  ELSE IF \E rule \in P.auto_allow : Matches(c, rule) THEN "allow" ELSE "ask"

\* The rule that an allowance of a call of tool t makes.
\* Seeded fault: it takes the pattern, even when there is none.
RuleByPattern(d, t) == [tool |-> d.pattern, narrow |-> d.narrow]
RuleOf(d, t) == [tool |-> IF d.pattern = None THEN t ELSE d.pattern, narrow |-> d.narrow]

\* An allowance that is refused for good because it is bare.
\* Seeded fault: the tool's own risk decides, whatever the pattern names.
BareToolOnly(d, t) == ~d.narrow /\ t \in HighRisk
Bare(d, t) == ~d.narrow /\ (t \in HighRisk \/ d.pattern \in HighRisk)

With(P, rule) == [P EXCEPT !.auto_allow = @ \cup {rule}]

\* The decision that a worker makes up when none came in time.
\* Seeded fault: it allows.
TimeoutAllowed == [verdict |-> "allow", scope |-> "once", narrow |-> FALSE, pattern |-> None]
TimeoutDecision == [verdict |-> "deny", scope |-> "once", narrow |-> FALSE, pattern |-> None]

NoCall     == [tool |-> None, narrow |-> FALSE]
NoPolicy   == [auto_allow |-> {}, auto_deny |-> {}]
Idle       == [at |-> "idle", req |-> None, decision |-> TimeoutDecision]
NoLocal    == [decision |-> TimeoutDecision, policy |-> NoPolicy]
NoGrant    == [worker |-> None, rule |-> NoCall, seen |-> NoPolicy]
NotCleaning == [phase |-> "idle", running |-> {}, todo |-> {}]

\* seed_helper_policy, before a worker is spawned.
Seeded == [auto_allow |-> SeedRules, auto_deny |-> {}]

Init ==
  /\ alive    = Workers
  /\ queue    = {}
  /\ decision = [r \in Requests |-> Absent]
  /\ policy   = [w \in Workers |-> Seeded]
  /\ gate     = [r \in Requests |-> "new"]
  /\ by       = [r \in Requests |-> None]
  /\ call     = [r \in Requests |-> NoCall]
  /\ local    = [r \in Requests |-> NoLocal]
  /\ approver = [a \in Approvers |-> Idle]
  /\ editor   = NoGrant
  /\ cleaner  = NotCleaning
  /\ acts = 0 /\ edits = 0 /\ crashes = 0
  /\ told     = [r \in Requests |-> {}]
  /\ result   = [r \in Requests |-> "none"]
  /\ dead     = {}
  /\ given    = [w \in Workers |-> SeedRules]

-----------------------------------------------------------------------------
(* The worker.  Its event loop runs one gate at a time from the decision on. *)

Busy(w) == \E r \in Requests : by[r] = w /\ gate[r] \notin {"new", "waiting", "done"}

MoveTo(r, at) == gate' = [gate EXCEPT ![r] = at]

Return(r, v) == /\ MoveTo(r, "done")
                /\ result' = [result EXCEPT ![r] = v]
                /\ local'  = [local EXCEPT ![r] = NoLocal]

\* PermissionBroker.gate: a rule answers, or the request is queued.
Ask(w, r, c) ==
  LET verdict == Verdict(c, policy[w]) IN
  /\ w \in alive /\ ~Busy(w) /\ gate[r] = "new"
  /\ by'   = [by EXCEPT ![r] = w]
  /\ call' = [call EXCEPT ![r] = c]
  /\ IF verdict = "ask"
     THEN queue' = queue \cup {r} /\ MoveTo(r, "waiting") /\ UNCHANGED <<local, result>>
     ELSE UNCHANGED queue /\ Return(r, verdict)
  /\ UNCHANGED <<alive, decision, policy, approver, editor, cleaner, bounds, told, dead, given>>

Take(r, d) ==
  /\ gate[r] = "waiting" /\ ~Busy(by[r])
  /\ local' = [local EXCEPT ![r].decision = d]
  /\ MoveTo(r, "took")
  /\ UNCHANGED <<files, alive, by, call, result, approver, editor, cleaner, bounds, told, dead, given>>

\* _try_read_decision succeeds, for the watchdog or the polling loop.
Read(r) == decision[r] \notin {Absent, Empty} /\ Take(r, decision[r])

\* The time runs out; a decision may have come since the last look.
TimeOut(r) == Take(r, TimeoutDecision)

\* The task is cancelled while it waits.
Cancel(r) ==
  /\ gate[r] = "waiting" /\ ~Busy(by[r])
  /\ queue' = queue \ {r}
  /\ Return(r, "gone")
  /\ UNCHANGED <<decision, policy, alive, by, call, approver, editor, cleaner, bounds, told, dead,
                 given>>

Unqueue(r) ==
  /\ gate[r] = "took"
  /\ queue' = queue \ {r}
  /\ MoveTo(r, "unqueued")
  /\ UNCHANGED <<decision, policy, alive, by, call, local, result, approver, editor,
                 cleaner, bounds, told, dead, given>>

\* An allowance for good adds a rule, unless it is bare and so holds only once.
\* Seeded fault: the scope is not looked at.
SticksAny(r) == /\ local[r].decision.verdict = "allow"
                /\ ~Bare(local[r].decision, call[r].tool)
Sticks(r) == /\ local[r].decision.scope = "always"
             /\ ~Bare(local[r].decision, call[r].tool)

\* The decision file is removed, whoever wrote it.
Unlink(r) ==
  /\ gate[r] = "unqueued"
  /\ decision' = [decision EXCEPT ![r] = Absent]
  /\ IF Sticks(r) THEN MoveTo(r, "sticky") /\ UNCHANGED <<local, result>>
     ELSE Return(r, local[r].decision.verdict)
  /\ UNCHANGED <<queue, policy, alive, by, call, approver, editor, cleaner, bounds,
                 told, dead, given>>

\* _append_sticky_rule reads the policy file ...
ReadPolicy(r) ==
  /\ gate[r] = "sticky"
  /\ local' = [local EXCEPT ![r].policy = policy[by[r]]]
  /\ MoveTo(r, "appending")
  /\ UNCHANGED <<files, alive, by, call, result, approver, editor, cleaner, bounds, told,
                 dead, given>>

\* ... and writes it back with one more rule.
WritePolicy(r) ==
  LET w    == by[r]
      rule == RuleOf(local[r].decision, call[r].tool)
  IN /\ gate[r] = "appending"
     /\ policy' = [policy EXCEPT ![w] = With(local[r].policy, rule)]
     /\ Return(r, local[r].decision.verdict)
     /\ UNCHANGED <<queue, decision, alive, by, call, approver, editor, cleaner,
                    bounds, told, dead, given>>

\* The daemon of w dies, and is started again later.
Crash(w) ==
  LET lost == {r \in Requests : by[r] = w /\ gate[r] # "done"} IN
  /\ crashes < MaxCrashes
  /\ crashes' = crashes + 1
  /\ w \in alive
  /\ alive'  = alive \ {w}
  /\ gate'   = [r \in Requests |-> IF r \in lost THEN "done" ELSE gate[r]]
  /\ result' = [r \in Requests |-> IF r \in lost THEN "gone" ELSE result[r]]
  /\ local'  = [r \in Requests |-> IF r \in lost THEN NoLocal ELSE local[r]]
  /\ UNCHANGED <<files, by, call, approver, editor, cleaner, acts, edits, told, dead,
                 given>>

Start(w) ==
  /\ w \notin alive
  /\ alive' = alive \cup {w}
  /\ UNCHANGED <<files, gate, by, call, local, result, approver, editor, cleaner, bounds,
                 told, dead, given>>

-----------------------------------------------------------------------------
(* Approvers: _cmd_approve and _cmd_deny of culture boss, which look for the  *)
(* request first, and the dashboard, which acts on what it has listed.        *)

\* read_request finds r, and write_decision does not refuse d when told that the
\* call is one of tool t; the dashboard may leave t out.
Look(a, r, d, t) ==
  /\ acts < MaxActs
  /\ acts' = acts + 1
  /\ approver[a].at = "idle" /\ r \in queue
  /\ ~(d.scope = "always" /\ Bare(d, t))
  /\ approver' = [approver EXCEPT ![a] = [at |-> "looked", req |-> r, decision |-> d]]
  /\ UNCHANGED <<files, workers, editor, cleaner, edits, crashes, told, dead, given>>

\* os.open with O_CREAT and O_EXCL makes an empty file, or fails.
Create(a) ==
  LET r == approver[a].req IN
  /\ approver[a].at = "looked"
  /\ IF decision[r] = Absent
     THEN /\ decision' = [decision EXCEPT ![r] = Empty]
          /\ approver' = [approver EXCEPT ![a].at = "created"]
     ELSE UNCHANGED decision /\ approver' = [approver EXCEPT ![a] = Idle]
  /\ UNCHANGED <<queue, policy, workers, editor, cleaner, bounds, told, dead, given>>

\* os.replace puts the decision there, and the approver is told so.
Install(a) ==
  LET r == approver[a].req
      d == approver[a].decision
  IN
  /\ approver[a].at = "created"
  /\ decision' = [decision EXCEPT ![r] = d]
  /\ approver' = [approver EXCEPT ![a] = Idle]
  /\ told'     = [told EXCEPT ![r] = @ \cup {<<a, d.verdict>>}]
  /\ given'    = IF d.scope = "always"
                 THEN [given EXCEPT ![by[r]] = @ \cup {RuleOf(d, call[r].tool)}] ELSE given
  /\ UNCHANGED <<queue, policy, workers, editor, cleaner, bounds, dead>>

\* Seeded fault: the empty file stays.
FailKeeping(a) ==
  /\ approver[a].at = "created"
  /\ approver' = [approver EXCEPT ![a] = Idle]
  /\ UNCHANGED <<files, workers, editor, cleaner, bounds, told, dead, given>>

\* It cannot be written: the file is removed, whosever it is now.
Fail(a) ==
  LET r == approver[a].req IN
  /\ approver[a].at = "created"
  /\ decision' = [decision EXCEPT ![r] = Absent]
  /\ approver' = [approver EXCEPT ![a] = Idle]
  /\ UNCHANGED <<queue, policy, workers, editor, cleaner, bounds, told, dead, given>>

\* The approver's process is killed halfway.
Die(a) ==
  /\ crashes < MaxCrashes
  /\ crashes' = crashes + 1
  /\ approver[a].at = "created"
  /\ dead'     = dead \cup {approver[a].req}
  /\ approver' = [approver EXCEPT ![a] = Idle]
  /\ UNCHANGED <<files, workers, editor, cleaner, acts, edits, told, given>>

-----------------------------------------------------------------------------
(* The bridge, the dashboard's policy page and the boss's clean-up. *)

Edit == edits < MaxEdits /\ edits' = edits + 1

\* BridgeDaemon._append_sticky_rule_for_worker reads the policy ...
Grant(w, rule) ==
  /\ Edit
  /\ editor = NoGrant
  /\ rule.tool \in HighRisk => rule.narrow
  /\ editor' = [worker |-> w, rule |-> rule, seen |-> policy[w]]
  /\ given'  = [given EXCEPT ![w] = @ \cup {rule}]
  /\ UNCHANGED <<files, workers, approver, cleaner, acts, crashes, told, dead>>

\* ... and writes it back, unless the rule was there.
WriteGrant ==
  /\ editor # NoGrant
  /\ policy' = IF editor.rule \in editor.seen.auto_allow THEN policy
               ELSE [policy EXCEPT ![editor.worker] = With(editor.seen, editor.rule)]
  /\ editor' = NoGrant
  /\ UNCHANGED <<queue, decision, workers, approver, cleaner, bounds, told, dead, given>>

\* _handle_policy_put: a person forbids what rule says.
PutPolicy(w, rule) ==
  /\ Edit
  /\ policy' = [policy EXCEPT ![w] = [auto_allow |-> @.auto_allow \ {rule},
                                      auto_deny  |-> @.auto_deny \cup {rule}]]
  /\ UNCHANGED <<queue, decision, workers, approver, editor, cleaner, acts, crashes, told, dead,
                 given>>

\* _cmd_cleanup looks which workers run, ...
CleanBegin ==
  /\ Edit
  /\ cleaner.phase = "idle"
  /\ cleaner' = [phase |-> "begun", running |-> alive, todo |-> {}]
  /\ UNCHANGED <<files, workers, approver, editor, acts, crashes, told, dead, given>>

\* ... cleanup_stale lists the requests ...
CleanList ==
  /\ cleaner.phase = "begun"
  /\ cleaner' = [cleaner EXCEPT !.phase = "requests", !.todo = queue]
  /\ UNCHANGED <<files, workers, approver, editor, bounds, told, dead, given>>

\* ... removes those of other workers one by one ...
CleanRequest(r) ==
  /\ cleaner.phase = "requests" /\ r \in cleaner.todo
  /\ cleaner' = [cleaner EXCEPT !.todo = @ \ {r}]
  /\ queue'   = IF by[r] \in cleaner.running THEN queue ELSE queue \ {r}
  /\ UNCHANGED <<decision, policy, workers, approver, editor, bounds, told, dead, given>>

\* ... lists the decisions ...
CleanListDecisions ==
  /\ cleaner.phase = "requests" /\ cleaner.todo = {}
  /\ cleaner' = [cleaner EXCEPT !.phase = "decisions",
                                !.todo = {r \in Requests : decision[r] # Absent}]
  /\ UNCHANGED <<files, workers, approver, editor, bounds, told, dead, given>>

\* ... and removes those that have no request.
CleanDecision(r) ==
  /\ cleaner.phase = "decisions" /\ r \in cleaner.todo
  /\ cleaner'  = [cleaner EXCEPT !.todo = @ \ {r}]
  /\ decision' = IF r \in queue THEN decision ELSE [decision EXCEPT ![r] = Absent]
  /\ UNCHANGED <<queue, policy, workers, approver, editor, bounds, told, dead, given>>

CleanEnd ==
  /\ cleaner.phase = "decisions" /\ cleaner.todo = {}
  /\ cleaner' = NotCleaning
  /\ UNCHANGED <<files, workers, approver, editor, bounds, told, dead, given>>

-----------------------------------------------------------------------------
\* Seeded fault: it waits for ever.
ResumeOnRead(r) == Read(r)
Resume(r) == Read(r) \/ TimeOut(r)
Finish(r) == Unqueue(r) \/ Unlink(r) \/ ReadPolicy(r) \/ WritePolicy(r)

Worker == \/ \E r \in Requests : Resume(r) \/ Finish(r) \/ Cancel(r)
          \/ \E w \in Workers : \/ Crash(w) \/ Start(w)
                                \/ \E r \in Requests, c \in Calls : Ask(w, r, c)

Approve == \E a \in Approvers :
             \/ Create(a) \/ Install(a) \/ Fail(a) \/ Die(a)
             \/ \E r \in Requests, d \in Decisions, t \in Tools \cup {None} : Look(a, r, d, t)

Manage == \/ \E w \in Workers, rule \in Rules : Grant(w, rule) \/ PutPolicy(w, rule)
          \/ WriteGrant \/ CleanBegin \/ CleanList \/ CleanListDecisions \/ CleanEnd
          \/ \E r \in Requests : CleanRequest(r) \/ CleanDecision(r)

Next == Worker \/ Approve \/ Manage

Spec == Init /\ [][Next]_vars

\* A worker that waits looks again and its time runs out, and what it has begun
\* it ends.
FairSpec == Spec /\ \A r \in Requests : WF_vars(Resume(r)) /\ WF_vars(Finish(r))

-----------------------------------------------------------------------------
(* Properties. *)

\* Every variable has the type its code gives it.
TypeOK ==
  /\ alive    \in SUBSET Workers
  /\ queue    \in SUBSET Requests
  /\ decision \in [Requests -> Decisions \cup {Absent, Empty}]
  /\ policy   \in [Workers -> Policies]
  /\ gate     \in [Requests -> {"new", "waiting", "took", "unqueued", "sticky", "appending",
                                "done"}]
  /\ by       \in [Requests -> Workers \cup {None}]
  /\ call     \in [Requests -> Calls \cup {NoCall}]
  /\ local    \in [Requests -> [decision : Decisions, policy : Policies]]
  /\ approver \in [Approvers -> [at : {"idle", "looked", "created"},
                                 req : Requests \cup {None}, decision : Decisions]]
  /\ editor   \in [worker : Workers, rule : Rules, seen : Policies] \cup {NoGrant}
  /\ cleaner  \in [phase : {"idle", "begun", "requests", "decisions"},
                   running : SUBSET Workers, todo : SUBSET Requests]
  /\ acts \in Nat /\ edits \in Nat /\ crashes \in Nat
  /\ told     \in [Requests -> SUBSET (Approvers \X {"allow", "deny"})]
  /\ result   \in [Requests -> {"none", "allow", "deny", "gone"}]
  /\ dead     \in SUBSET Requests
  /\ given    \in [Workers -> SUBSET Rules]

\* No policy ever allows a high-risk tool without an input_regex: not by a worker's
\* rule nor by the bridge's, and however a decision names the tool.
NoBareHighRisk ==
  \A w \in Workers : \A rule \in policy[w].auto_allow : rule.tool \in HighRisk => rule.narrow

\* What a policy allows somebody meant it to: no time-out and no lost file turns
\* into a rule.
RulesGiven == \A w \in Workers : policy[w].auto_allow \subseteq given[w]

\* An empty decision file hides its request from every approver and refuses them
\* all.  There is none, but while an approver is about to fill it or where one was
\* killed.
PlaceholderHeld ==
  \A r \in Requests : decision[r] = Empty =>
    r \in dead \/ \E a \in Approvers : approver[a].at = "created" /\ approver[a].req = r

\* A worker that is asked about a call gets an answer, whatever approvers do.
Answered == \A r \in Requests : gate[r] # "new" ~> gate[r] = "done"

\* Each call is answered at most once and allowed only by a verdict on this call
\* or by a rule.
Verdicts(r) == {v \in {"allow", "deny"} : \E a \in Approvers : <<a, v>> \in told[r]}
Register == INSTANCE PermRegister WITH
  verdicts <- [r \in Requests |-> Verdicts(r)],
  granted  <- {r \in Requests : result[r] = "allow" /\ told[r] = {}},
  outcome  <- [r \in Requests |-> IF gate[r] = "new" THEN "unasked"
                                  ELSE IF gate[r] = "done" THEN result[r] ELSE "asked"]
RegisterSpec == Register!Spec

=============================================================================
