------------------------------ MODULE Governor ------------------------------
(***************************************************************************)
(* The Governor, the read-only view operators get of the kernel's tables:  *)
(* the state it derives for an action from its decision and its result     *)
(* row, and the lists it selects.  It keeps no state: each of its queries   *)
(* is one statement over the tables of Kernel, at any moment of any call.  *)
(*                                                                         *)
(* The lists of deferred, skipped and timed-out actions are left out: no   *)
(* decision the kernel can write is in them, and two of the queries name   *)
(* statuses that decision_status_enum does not have.                       *)
(***************************************************************************)
EXTENDS Kernel

ActionState ==
  {"pending", "pending_approval", "executing", "success", "failed", "denied", "timeout"}

Denials ==
  {"BLOCKED_SCHEMA", "BLOCKED_EMERGENCY", "BLOCKED_CAPABILITY",
   "BLOCKED_POLICY", "RATE_LIMITED", "REJECTED_APPROVAL"}

\* The action has a decision, with one of these values of decisions.status.
DecidedAs(a, statuses) == decision[a] # NONE /\ StatusOf[decision[a]] \in statuses

\* execution_results.success is what the executor returned.
Succeeded(a) == a \in results /\ rule[a] = "execution_complete"
Failed(a) == a \in results /\ rule[a] # "execution_complete"

\* What became of an action that was let through.
Outcome(a) ==
  IF Succeeded(a) THEN "success" ELSE IF Failed(a) THEN "failed" ELSE "executing"

\* Mutant: an EXECUTED decision is shown as a success, whatever the result row.
Shown_DecisionIsResult(a) ==
  IF DecidedAs(a, {"PENDING_APPROVAL"}) THEN "pending_approval"
  ELSE IF DecidedAs(a, Denials) THEN "denied"
  ELSE IF DecidedAs(a, {"FAILED_EXECUTION"}) THEN "failed"
  ELSE IF DecidedAs(a, {"EXECUTED"}) THEN "success"
  ELSE "pending"

\* _derive_state
Shown(a) ==
  IF DecidedAs(a, {"PENDING_APPROVAL"}) THEN "pending_approval"
  ELSE IF DecidedAs(a, Denials) THEN "denied"
  ELSE IF DecidedAs(a, {"EXPIRED_APPROVAL"}) THEN "timeout"
  ELSE IF DecidedAs(a, {"FAILED_EXECUTION"}) THEN "failed"
  ELSE IF DecidedAs(a, {"ALLOWED", "EXECUTED"}) THEN Outcome(a)
  ELSE "pending"

\* Mutant: the successes are selected by the decision, not by the result row.
Listed_ByDecision(state) ==
  {a \in actions :
     \/ state = "pending" /\ decision[a] = NONE
     \/ state = "pending_approval" /\ DecidedAs(a, {"PENDING_APPROVAL"})
     \/ state = "success" /\ DecidedAs(a, {"EXECUTED"})
     \/ state = "failed" /\ DecidedAs(a, {"FAILED_EXECUTION"})
     \/ state = "denied" /\ DecidedAs(a, Denials)}

\* list_by_state and list_failed
Listed(state) ==
  {a \in actions :
     \/ state = "pending" /\ decision[a] = NONE
     \/ state = "pending_approval" /\ DecidedAs(a, {"PENDING_APPROVAL"})
     \/ state = "executing" /\ DecidedAs(a, {"ALLOWED"}) /\ a \notin results
     \/ state = "success" /\ Succeeded(a)
     \/ state = "failed" /\ (DecidedAs(a, {"FAILED_EXECUTION"}) \/ Failed(a))
     \/ state = "denied" /\ DecidedAs(a, Denials)}

\* list_pending: an action with a pending row in approvals
AwaitingReview == {a \in actions : approval[a] = "pending"}

----------------------------------------------------------------------------
(* Properties. *)

(* What an operator is shown happened, at every moment of every call and     *)
(* after any crash: a success ran and has its result, a failure ran, a       *)
(* denied action or one that waits for approval never ran, `executing' is   *)
(* only ever shown of a function that has already been invoked, and nothing *)
(* on the reviewers' list has run (governor.py:481-516, 247-288).            *)
GovernorIsFaithful ==
  /\ \A a \in actions :
       /\ Shown(a) = "success" => a \in ran \cap results
       /\ Shown(a) \in {"failed", "executing"} => a \in ran
       /\ Shown(a) \in {"denied", "pending_approval"} => a \notin ran
       /\ Shown(a) = "pending_approval" => approval[a] # NONE
  /\ \A a \in AwaitingReview :
       a \notin ran /\ Shown(a) \in {"pending", "pending_approval"}

(* An action is listed under the state it is shown with and under no other, *)
(* with one exception that a crash can make permanent: an EXECUTED action    *)
(* without a result row is shown as executing and is in no list            *)
(* (governor.py:191-239 against 481-516).                                   *)
ListsMatchStates ==
  \A a \in actions :
    /\ \A s \in ActionState : a \in Listed(s) => Shown(a) = s
    /\ Shown(a) = "executing" <=> \A s \in ActionState : a \notin Listed(s)

=============================================================================
