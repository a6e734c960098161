---------------------------- MODULE PermRegister ----------------------------
(***************************************************************************)
(* What the permission broker promises of each tool call that it gates: a  *)
(* call is asked about once, is answered at most once, and is allowed only *)
(* if somebody allowed it.  Who did may be an approver that decided about  *)
(* this very call, or a rule that was granted for calls of its kind.       *)
(***************************************************************************)
CONSTANTS Requests

VARIABLES
  verdicts,  \* verdicts[r]: the verdicts that approvers have given on r
  granted,   \* the requests whose call a granted rule allows at some time
  outcome    \* outcome[r]: what the caller of r was told

vars == <<verdicts, granted, outcome>>

Outcomes == {"unasked", "asked", "allow", "deny", "gone"}

Init == /\ verdicts = [r \in Requests |-> {}]
        /\ granted  = {}
        /\ outcome  = [r \in Requests |-> "unasked"]

\* The gate is called.  A rule may answer at once.
Ask(r) ==
  /\ outcome[r] = "unasked"
  /\ \/ granted' = granted \cup {r} /\ outcome' = [outcome EXCEPT ![r] = "allow"]
     \/ granted' = granted /\ outcome' = [outcome EXCEPT ![r] = "deny"]
     \/ granted' = granted /\ outcome' = [outcome EXCEPT ![r] = "asked"]
  /\ UNCHANGED verdicts

\* Verdicts are given only on what was asked, but perhaps too late.
Decide(r, v) ==
  /\ outcome[r] # "unasked"
  /\ verdicts' = [verdicts EXCEPT ![r] = @ \cup {v}]
  /\ UNCHANGED <<granted, outcome>>

\* Allowed by a verdict, denied by one or because none came in time.
Answer(r, v) ==
  /\ outcome[r] = "asked"
  /\ v = "allow" => "allow" \in verdicts[r]
  /\ outcome' = [outcome EXCEPT ![r] = v]
  /\ UNCHANGED <<verdicts, granted>>

\* The callers of R are cancelled, or die.
Abandon(R) ==
  /\ \A r \in R : outcome[r] = "asked"
  /\ outcome' = [r \in Requests |-> IF r \in R THEN "gone" ELSE outcome[r]]
  /\ UNCHANGED <<verdicts, granted>>

Next == \/ \E r \in Requests : Ask(r)
        \/ \E r \in Requests, v \in {"allow", "deny"} : Decide(r, v) \/ Answer(r, v)
        \/ \E R \in SUBSET Requests : Abandon(R)

Spec == Init /\ [][Next]_vars

=============================================================================
