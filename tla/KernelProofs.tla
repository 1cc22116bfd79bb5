---------------------------- MODULE KernelProofs ----------------------------
(***************************************************************************)
(* What the inductive invariant of Kernel gives: each safety property the  *)
(* runs check on small instances, for every value of the constants.        *)
(***************************************************************************)
EXTENDS KernelInvariant, Governor

(* Every column, table and local of handle() keeps its type                 *)
(* (schema.sql:172-324, kernel.py:64-260).                                  *)
THEOREM TypeCorrect == Spec => []TypeOK
BY Invariance, PTL DEF IInv

(* However many duplicates of one (actor_id, idempotency_key) race, crash    *)
(* and poll, the governed function is invoked for at most one of them       *)
(* (kernel.py:76-117 over uq_actions_actor_idempotency): what ran has an    *)
(* action row, and action rows have distinct keys.                          *)
THEOREM OneExecution == Spec => []AtMostOneExecution
<1>1. IInv => AtMostOneExecution
  BY DEF IInv, TypeOK, Ownership, UniqueKeys, AtMostOneExecution
<1> QED BY Invariance, <1>1, PTL

(* An idempotent answer repeats a recorded decision of the caller's own key *)
(* and tenant, and the call that got it did nothing (repository.py:123-142).*)
THEOREM ReplaySafe == Spec => []ReplayIsFaithful
<1>1. IInv => ReplayIsFaithful
  BY DEF IInv, Ownership, Replays, ReplayIsFaithful
<1> QED BY Invariance, <1>1, PTL

(* For any number of requests after the same capabilities, uses counts the  *)
(* requests that passed on the token, stays within max_uses, and nothing    *)
(* that presented an old-style token ran without a use of its own           *)
(* (precedence.py:207-233, schema.sql:805-855).                             *)
THEOREM CapabilitiesAccounted == Spec => []CapabilityAccounting
<1>1. IInv => CapabilityAccounting
  BY DEF IInv, TypeOK, Stages, Spenders, Counted, SpentWith, CapabilityAccounting
<1> QED BY Invariance, <1>1, PTL

(* A kill-switch row enabled before a request entered and never disabled    *)
(* stops it before any later stage acts for it (precedence.py:84-93).       *)
THEOREM KillSwitchObeyed == Spec => []KillSwitchFirst
<1>1. IInv => KillSwitchFirst
  BY DEF IInv, Switches, Held, EarlyRules, KillSwitchFirst
<1> QED BY Invariance, <1>1, PTL

(* What ran passed every stage on its own snapshot and waits for no         *)
(* reviewer (kernel.py:192-223).                                            *)
THEOREM StagesObeyed == Spec => []NoStageBypassed
<1>1. IInv => NoStageBypassed
  BY DEF IInv, TypeOK, Ownership, Stages, NoStageBypassed
<1> QED BY Invariance, <1>1, PTL

(* No audit row reports what no table holds, at any point of any crash      *)
(* (kernel.py:244-252, 292-326).                                            *)
THEOREM AuditBacked == Spec => []AuditIsBacked
BY Invariance, PTL DEF IInv

(* What a caller is told is what the tables hold (kernel.py:236-260).       *)
THEOREM AnswersDurable == Spec => []AnswerIsDurable
<1>1. IInv => AnswerIsDurable
  BY NullAssumption DEF IInv, TypeOK, Ownership, Decisions, Answers, AnswerIsDurable
<1> QED BY Invariance, <1>1, PTL

(* What the Governor reads is settled by the steps that write it: the       *)
(* decision of an action is the rule its own call chose, and never DRY_RUN, *)
(* which is not in decision_status_enum; a result row                       *)
(* follows an EXECUTED or failed decision, and an approval row and a        *)
(* PENDING_APPROVAL decision belong together (kernel.py:192-260).           *)
Settled == \A q \in Requests :
  /\ decision[q] # NONE => decision[q] = rule[q] /\ decision[q] # "dry_run"
  /\ q \in results => decision[q] \in Executed
  /\ approval[q] # NONE =>
       /\ decision[q] \in {NONE, "approval_required"}
       /\ pc[q] = "decide" => rule[q] = "approval_required"
  /\ decision[q] = "approval_required" => approval[q] # NONE
  /\ pc[q] = "decide" /\ rule[q] = "approval_required" => approval[q] # NONE

LEMMA SettledStep == IInv /\ Settled /\ [Next]_vars => Settled'
<1> SUFFICES ASSUME IInv, Settled, [Next]_vars PROVE Settled'
  OBVIOUS
<1> USE NullAssumption, RuleNames DEF Settled, Decisions, IInv, TypeOK, Ownership,
        locals, tables, world, BeforeInsert, Deciding, Decided, Goto, At,
        Decide, Audit, Terminal, Executed, KillLabels
<1>1. ASSUME NEW r \in Requests, Enter(r) PROVE Settled'
  BY <1>1 DEF Enter
<1>2. ASSUME NEW r \in Requests, Lookup(r) PROVE Settled'
  BY <1>2 DEF Lookup, CachedActions
<1>3. ASSUME NEW r \in Requests, IdempotentReturn(r) PROVE Settled'
  BY <1>3 DEF IdempotentReturn, AuditEventTypes
<1>4. ASSUME NEW r \in Requests, SaveAction(r) PROVE Settled'
  BY <1>4 DEF SaveAction, KeyTaken
<1>5. ASSUME NEW r \in Requests, Poll(r) PROVE Settled'
  BY <1>5 DEF Poll, PollsLeft, CachedActions
<1>6. ASSUME NEW r \in Requests, ActionReceived(r) PROVE Settled'
  BY <1>6 DEF ActionReceived, AuditEventTypes
<1>7. ASSUME NEW r \in Requests, Scan(r) PROVE Settled'
  BY <1>7 DEF Scan
<1>8. ASSUME NEW r \in Requests, Resolve(r) PROVE Settled'
  BY <1>8 DEF Resolve
<1>9. ASSUME NEW r \in Requests, PolicyEvaluated(r) PROVE Settled'
  BY <1>9, KillStagesType DEF PolicyEvaluated, AuditEventTypes
<1>10. ASSUME NEW r \in Requests, PolicyFails(r) PROVE Settled'
  BY <1>10 DEF PolicyFails
<1>11. ASSUME NEW r \in Requests, PolicyFailureAudited(r) PROVE Settled'
  BY <1>11 DEF PolicyFailureAudited
<1>12. ASSUME NEW r \in Requests, KillCheck(r) PROVE Settled'
  BY <1>12, KillStagesType DEF KillCheck, AfterKill, Tokens, ParamType
<1>13. ASSUME NEW r \in Requests, CapabilityLookup(r) PROVE Settled'
  BY <1>13 DEF CapabilityLookup
<1>14. ASSUME NEW r \in Requests, CapabilityConsume(r) PROVE Settled'
  BY <1>14 DEF CapabilityConsume
<1>15. ASSUME NEW r \in Requests, TokenVerify(r) PROVE Settled'
  BY <1>15 DEF TokenVerify
<1>16. ASSUME NEW r \in Requests, EvaluatePolicy(r) PROVE Settled'
  BY <1>16 DEF EvaluatePolicy
<1>17. ASSUME NEW r \in Requests, BudgetCheck(r) PROVE Settled'
  BY <1>17 DEF BudgetCheck
<1>18. ASSUME NEW r \in Requests, SpendLimitExceeded(r) PROVE Settled'
  BY <1>18 DEF SpendLimitExceeded, AuditEventTypes
<1>19. ASSUME NEW r \in Requests, ApprovalCheck(r) PROVE Settled'
  BY <1>19 DEF ApprovalCheck, NeedsApproval, ApprovalStatuses
<1>20. ASSUME NEW r \in Requests, ApprovalRequested(r) PROVE Settled'
  BY <1>20 DEF ApprovalRequested
<1>21. ASSUME NEW r \in Requests, Execute(r) PROVE Settled'
  BY <1>21 DEF Execute
<1>22. ASSUME NEW r \in Requests, SaveDecision(r) PROVE Settled'
  BY <1>22 DEF SaveDecision, Storable, StatusOf, DecisionStatuses
<1>23. ASSUME NEW r \in Requests, DecisionMade(r) PROVE Settled'
  BY <1>23 DEF DecisionMade, AfterDecision, AuditEventTypes
<1>24. ASSUME NEW r \in Requests, SaveResult(r) PROVE Settled'
  BY <1>24 DEF SaveResult
<1>25. ASSUME NEW r \in Requests, ResultAudited(r) PROVE Settled'
  BY <1>25 DEF ResultAudited, AuditEventTypes
<1>26. ASSUME NEW r \in Requests, Abort(r) PROVE Settled'
  BY <1>26 DEF Abort
<1>27. ASSUME NEW a \in Requests, NEW v \in {"approved", "rejected"}, Review(a, v)
       PROVE  Settled'
  BY <1>27 DEF Review, ApprovalStatuses
<1>28. ASSUME Untouched PROVE Settled'
  BY <1>28 DEF Untouched
<1> QED BY NextCases, <1>1, <1>2, <1>3, <1>4, <1>5, <1>6, <1>7, <1>8, <1>9,
          <1>10, <1>11, <1>12, <1>13, <1>14, <1>15, <1>16, <1>17, <1>18,
          <1>19, <1>20, <1>21, <1>22, <1>23, <1>24, <1>25, <1>26, <1>27, <1>28

LEMMA AlwaysSettled == Spec => []Settled
<1>1. Init => Settled
  BY NullAssumption, RuleNames DEF Init, Settled, Executed
<1> QED BY <1>1, SettledStep, Invariance, PTL DEF Spec

(* Whatever the Governor shows of an action happened: a success or a failure *)
(* ran, a denied or waiting action never did (governor.py:481-516).         *)
THEOREM GovernorFaithful == Spec => []GovernorIsFaithful
<1>1. IInv /\ Settled => GovernorIsFaithful
  <2> SUFFICES ASSUME IInv, Settled, NEW a \in actions
               PROVE  /\ Shown(a) = "success" => a \in ran \cap results
                      /\ Shown(a) \in {"failed", "executing"} => a \in ran
                      /\ Shown(a) \in {"denied", "pending_approval"} => a \notin ran
                      /\ Shown(a) = "pending_approval" => approval[a] # NONE
                      /\ approval[a] = "pending" =>
                           a \notin ran /\ Shown(a) \in {"pending", "pending_approval"}
    BY DEF GovernorIsFaithful, AwaitingReview
  <2>1. a \in Requests /\ decision[a] \in Rules \cup {NONE}
    BY DEF IInv, TypeOK
  <2>2. "pending" # NONE
    BY NullAssumption DEF ApprovalStatuses
  <2>3. a \in ran => decision[a] \in Executed \cup {NONE} /\ approval[a] = NONE
    BY <2>1 DEF IInv, Stages
  <2>4. decision[a] \in Executed => a \in ran
    BY <2>1 DEF IInv, Decisions
  <2> QED BY <2>1, <2>2, <2>3, <2>4, RuleNames
          DEF Settled, Shown, DecidedAs, Denials, Outcome, Succeeded, Failed,
              StatusOf, Executed
<1> QED BY AlwaysSettled, Invariance, <1>1, PTL

(* The lists and the derived state agree on every action but an EXECUTED    *)
(* one without a result row (governor.py:191-239, 481-516).                 *)
THEOREM ListsMatch == Spec => []ListsMatchStates
<1>1. IInv /\ Settled => ListsMatchStates
  <2> SUFFICES ASSUME IInv, Settled, NEW a \in actions
               PROVE  /\ \A s \in ActionState : a \in Listed(s) => Shown(a) = s
                      /\ Shown(a) = "executing" <=>
                           \A s \in ActionState : a \notin Listed(s)
    BY DEF ListsMatchStates
  <2>1. a \in Requests /\ decision[a] \in Rules \cup {NONE}
    BY DEF IInv, TypeOK
  <2>2. a \in results => decision[a] \in Executed /\ decision[a] = rule[a]
    BY <2>1, NullAssumption, RuleNames DEF Settled, Executed
  <2>3. CASE decision[a] = NONE
    <3>1. Shown(a) = "pending" /\ a \notin results
      BY <2>2, <2>3, NullAssumption, RuleNames DEF Shown, DecidedAs, Executed
    <3>2. \A s \in ActionState : a \in Listed(s) <=> s = "pending"
      BY <2>3, <3>1 DEF Listed, DecidedAs, Succeeded, Failed
    <3> QED BY <3>1, <3>2 DEF ActionState
  <2>4. CASE decision[a] \in Rules
    <3>1. decision[a] # NONE
      BY <2>4, NullAssumption
    <3>2. CASE decision[a] = "execution_complete"
      <4>1. Shown(a) = IF a \in results THEN "success" ELSE "executing"
        BY <2>2, <3>1, <3>2 DEF Shown, DecidedAs, Denials, Outcome, Succeeded,
                                Failed, StatusOf
      <4>2. \A s \in ActionState : a \in Listed(s) <=> s = "success" /\ a \in results
        BY <2>2, <3>1, <3>2 DEF Listed, DecidedAs, Denials, Succeeded, Failed, StatusOf
      <4> QED BY <4>1, <4>2 DEF ActionState
    <3>3. CASE decision[a] # "execution_complete"
      <4>1. ~Succeeded(a) /\ (Failed(a) => decision[a] = "execution_failed")
        BY <2>2, <3>3 DEF Succeeded, Failed, Executed
      <4>2. Shown(a) # "executing" /\ Shown(a) \in ActionState
        BY <2>4, <3>1, <3>3, RuleNames
        DEF Shown, DecidedAs, Denials, StatusOf, ActionState
      <4>3. decision[a] # "dry_run"
        BY <2>1, <3>1 DEF Settled
      <4>4. \A s \in ActionState : a \in Listed(s) <=> Shown(a) = s
        BY <2>4, <3>1, <3>3, <4>1, <4>3, RuleNames
        DEF Shown, Listed, DecidedAs, Denials, StatusOf, ActionState
      <4> QED BY <4>2, <4>4
    <3> QED BY <3>2, <3>3
  <2> QED BY <2>1, <2>3, <2>4
<1> QED BY AlwaysSettled, Invariance, <1>1, PTL

----------------------------------------------------------------------------
(* Calls end.                                                               *)

(* How many statements a call still has before it at the most, the polls    *)
(* for the winner's decision not counted.                                   *)
Ahead(label) ==
  CASE label \in Terminal -> 0
    [] label \in {"replay", "result_audit"} -> 1
    [] label \in {"poll", "result"} -> 2
    [] label = "decide_audit" -> 3
    [] label = "decide" -> 4
    [] label \in {"execute", "approval_audit", "budget_audit", "policy_failed"} -> 5
    [] label = "approval" -> 6
    [] label = "budget" -> 7
    [] label = "policy" -> 8
    [] label \in {"cap_consume", "cap_verify"} -> 9
    [] label = "cap_lookup" -> 10
    [] label = "any_4" -> 11
    [] label = "actor" -> 12
    [] label = "any_3" -> 13
    [] label = "resource" -> 14
    [] label = "any_2" -> 15
    [] label = "action" -> 16
    [] label = "any_1" -> 17
    [] label = "global" -> 18
    [] label = "policy_audit" -> 19
    [] label = "resolve" -> 20
    [] label = "scan" -> 21
    [] label = "receive" -> 22
    [] label = "insert" -> 23
    [] label = "lookup" -> 24
    [] OTHER -> 25

Left(r) == Ahead(pc[r]) + (MaxPolls - polls[r])

\* A step of r brings r closer to its end, and nobody else anywhere.
Moves(r) ==
  /\ Left(r)' < Left(r)
  /\ \A q \in Requests \ {r} : pc'[q] = pc[q] /\ polls'[q] = polls[q]

\* Nobody is ever sent back, and whoever moves gets closer to the end.
CallsDescend ==
  \A r \in Requests :
    /\ Left(r) \in 0 .. 25 + MaxPolls
    /\ Left(r)' <= Left(r)
    /\ Enter(r) \/ Step(r) \/ Abort(r) => Left(r)' < Left(r)

LEMMA AheadType == \A label : Ahead(label) \in 0 .. 25
BY DEF Ahead

LEMMA KillStagesDescend == \A i \in 1..8 : Ahead(KillStages[i]) = 19 - i
<1> SUFFICES ASSUME NEW i \in 1..8 PROVE Ahead(KillStages[i]) = 19 - i
  OBVIOUS
<1>1. CASE i \in 1..4
  BY <1>1 DEF KillStages, Ahead, Terminal
<1>2. CASE i \in 5..8
  BY <1>2 DEF KillStages, Ahead, Terminal
<1> QED BY <1>1, <1>2

LEMMA EveryStepMoves ==
  ASSUME TypeOK, NEW r \in Requests, Enter(r) \/ Step(r) \/ Abort(r)
  PROVE  Moves(r)
<1> USE BoundAssumption DEF TypeOK, Goto, At, Decide, Audit, Terminal, Moves
<1>1. CASE Enter(r)
  BY <1>1 DEF Enter, Moves, Left, Ahead
<1>2. CASE Lookup(r)
  BY <1>2 DEF Lookup, Moves, Left, Ahead
<1>3. CASE IdempotentReturn(r)
  BY <1>3 DEF IdempotentReturn, Moves, Left, Ahead
<1>4. CASE SaveAction(r)
  BY <1>4 DEF SaveAction, Moves, Left, Ahead
<1>5. CASE Poll(r)
  BY <1>5 DEF Poll, PollsLeft, Moves, Left, Ahead
<1>6. CASE ActionReceived(r)
  BY <1>6 DEF ActionReceived, Moves, Left, Ahead
<1>7. CASE Scan(r)
  BY <1>7 DEF Scan, Moves, Left, Ahead
<1>8. CASE Resolve(r)
  BY <1>8 DEF Resolve, Moves, Left, Ahead
<1>9. CASE PolicyEvaluated(r)
  BY <1>9, KillStagesType DEF PolicyEvaluated, Moves, Left, Ahead
<1>10. CASE PolicyFails(r)
  BY <1>10 DEF PolicyFails, Moves, Left, Ahead
<1>11. CASE PolicyFailureAudited(r)
  BY <1>11 DEF PolicyFailureAudited, Moves, Left, Ahead
<1>12. CASE KillCheck(r)
  <2>1. PICK i \in 1..8 :
          /\ pc[r] = KillStages[i]
          /\ \/ pc' = [pc EXCEPT ![r] = "decide"]
             \/ i < 8 /\ pc' = [pc EXCEPT ![r] = KillStages[i + 1]]
             \/ i = 8 /\ pc' = [pc EXCEPT ![r] = AfterKill(r)]
    BY <1>12, KillStagesType DEF KillCheck
  <2>2. UNCHANGED polls
    BY <1>12 DEF KillCheck
  <2>3. Ahead(pc[r]) = 19 - i /\ (i < 8 => Ahead(KillStages[i + 1]) = 19 - (i + 1))
    BY <2>1, KillStagesDescend
  <2>4. Ahead(AfterKill(r)) < 11 /\ Ahead(AfterKill(r)) \in Nat /\ Ahead("decide") = 4
    BY DEF AfterKill, Ahead
  <2>5. Ahead(pc'[r]) < Ahead(pc[r]) /\ Ahead(pc'[r]) \in Nat /\ Ahead(pc[r]) \in Nat
    <3> HIDE DEF Ahead
    <3> QED BY <2>1, <2>3, <2>4
  <2> HIDE DEF Ahead
  <2> QED BY <2>1, <2>2, <2>5 DEF Left
<1>13. CASE CapabilityLookup(r)
  BY <1>13 DEF CapabilityLookup, Moves, Left, Ahead
<1>14. CASE CapabilityConsume(r)
  BY <1>14 DEF CapabilityConsume, Moves, Left, Ahead
<1>15. CASE TokenVerify(r)
  BY <1>15 DEF TokenVerify, Moves, Left, Ahead
<1>16. CASE EvaluatePolicy(r)
  BY <1>16 DEF EvaluatePolicy, Moves, Left, Ahead
<1>17. CASE BudgetCheck(r)
  BY <1>17 DEF BudgetCheck, Moves, Left, Ahead
<1>18. CASE SpendLimitExceeded(r)
  BY <1>18 DEF SpendLimitExceeded, Moves, Left, Ahead
<1>19. CASE ApprovalCheck(r)
  BY <1>19 DEF ApprovalCheck, Moves, Left, Ahead
<1>20. CASE ApprovalRequested(r)
  BY <1>20 DEF ApprovalRequested, Moves, Left, Ahead
<1>21. CASE Execute(r)
  BY <1>21 DEF Execute, Moves, Left, Ahead
<1>22. CASE SaveDecision(r)
  BY <1>22 DEF SaveDecision, Moves, Left, Ahead
<1>23. CASE DecisionMade(r)
  BY <1>23 DEF DecisionMade, AfterDecision, Moves, Left, Ahead
<1>24. CASE SaveResult(r)
  BY <1>24 DEF SaveResult, Moves, Left, Ahead
<1>25. CASE ResultAudited(r)
  BY <1>25 DEF ResultAudited, Moves, Left, Ahead
<1>26. CASE Abort(r)
  BY <1>26 DEF Abort, Moves, Left, Ahead
<1> QED BY <1>1, <1>2, <1>3, <1>4, <1>5, <1>6, <1>7, <1>8, <1>9, <1>10, <1>11,
           <1>12, <1>13, <1>14, <1>15, <1>16, <1>17, <1>18, <1>19, <1>20,
           <1>21, <1>22, <1>23, <1>24, <1>25, <1>26 DEF Step

(* Every call of handle is over after at most 25 + MaxPolls statements of   *)
(* its own, the duplicate that waits for another's decision included,       *)
(* whatever everyone else does and wherever it fails: EveryCallReturns then *)
(* asks only that the event loop goes on (kernel.py:98-117).                *)
THEOREM NoCallGoesOn == Spec => [][CallsDescend]_vars
<1>1. IInv /\ [Next]_vars => CallsDescend
  <2> SUFFICES ASSUME IInv, [Next]_vars, NEW r \in Requests
               PROVE  /\ Left(r) \in 0 .. 25 + MaxPolls
                      /\ Left(r)' <= Left(r)
                      /\ Enter(r) \/ Step(r) \/ Abort(r) => Left(r)' < Left(r)
    BY DEF CallsDescend
  <2>1. TypeOK /\ polls[r] \in 0 .. MaxPolls /\ MaxPolls \in Nat
    BY BoundAssumption DEF IInv, TypeOK
  <2>2. Ahead(pc[r]) \in 0 .. 25
    BY AheadType
  <2>3. Left(r) \in 0 .. 25 + MaxPolls
    BY <2>1, <2>2 DEF Left
  <2>4. Enter(r) \/ Step(r) \/ Abort(r) => Left(r)' < Left(r)
    BY <2>1, EveryStepMoves DEF Moves
  <2>5. Left(r)' \in Int
    <3>1. TypeOK'
      BY NextType
    <3>2. Ahead(pc'[r]) \in 0 .. 25
      BY AheadType
    <3> QED BY <3>1, <3>2, <2>1 DEF Left, TypeOK
  <2>6. CASE \E q \in Requests : Enter(q) \/ Step(q) \/ Abort(q)
    <3>1. PICK q \in Requests : Moves(q)
      BY <2>6, <2>1, EveryStepMoves
    <3>2. CASE q = r
      BY <3>1, <3>2, <2>3, <2>4, <2>5 DEF Moves
    <3>3. CASE q # r
      <4>1. pc'[r] = pc[r] /\ polls'[r] = polls[r]
        BY <3>1, <3>3 DEF Moves
      <4>2. Left(r)' = Left(r)
        BY <4>1 DEF Left
      <4>3. Left(r)' <= Left(r)
        BY <4>2, <2>3, <2>5
      <4> QED BY <4>3, <2>3, <2>4
    <3> QED BY <3>2, <3>3
  <2>7. CASE UNCHANGED locals
    <3>1. Left(r)' = Left(r)
      BY <2>7 DEF locals, Left
    <3>2. Left(r)' <= Left(r)
      BY <3>1, <2>3, <2>5
    <3> QED BY <3>2, <2>3, <2>4
  <2>8. Environment \/ AllDone \/ UNCHANGED vars => UNCHANGED locals
    BY DEF Environment, Review, LoseCapability, ActivatePolicy, EnableKill, DisableKill,
           AllDone, vars, locals
  <2> QED BY <2>3, <2>4, <2>6, <2>7, <2>8 DEF Next
<1> QED BY <1>1, Invariance, PTL DEF Spec

----------------------------------------------------------------------------
(* Who is left undecided.                                                   *)

(* The event of an exceeded budget, the status of a dry run, and a token no  *)
(* capability has: what the schema refuses on the way to a decision.        *)
Refused(r) ==
  \/ rule[r] \in {"spend_limit_exceeded", "dry_run"}
  \/ req[r].token = Unknown /\ rule[r] \in Rules \ Tokenless

NeverDecided ==
  \A r \in Requests :
    /\ Refused(r) => decision[r] = NONE
    /\ rule[r] = "spend_limit_exceeded" => pc[r] = "aborted"

LEMMA RefusedStep == IInv /\ NeverDecided /\ [Next]_vars => NeverDecided'
<1> SUFFICES ASSUME IInv, NeverDecided, [Next]_vars PROVE NeverDecided'
  OBVIOUS
<1> USE NullAssumption, RuleNames DEF NeverDecided, Refused, Decisions, IInv, TypeOK,
        Ownership, locals, tables, world, BeforeInsert, Deciding, Decided, Goto, At,
        Decide, Audit, Terminal, KillLabels, Tokenless
<1>1. ASSUME NEW r \in Requests, Enter(r) PROVE NeverDecided'
  BY <1>1 DEF Enter
<1>2. ASSUME NEW r \in Requests, Lookup(r) PROVE NeverDecided'
  BY <1>2 DEF Lookup, CachedActions
<1>3. ASSUME NEW r \in Requests, IdempotentReturn(r) PROVE NeverDecided'
  BY <1>3 DEF IdempotentReturn, AuditEventTypes
<1>4. ASSUME NEW r \in Requests, SaveAction(r) PROVE NeverDecided'
  BY <1>4 DEF SaveAction, KeyTaken
<1>5. ASSUME NEW r \in Requests, Poll(r) PROVE NeverDecided'
  BY <1>5 DEF Poll, PollsLeft, CachedActions
<1>6. ASSUME NEW r \in Requests, ActionReceived(r) PROVE NeverDecided'
  BY <1>6 DEF ActionReceived, AuditEventTypes
<1>7. ASSUME NEW r \in Requests, Scan(r) PROVE NeverDecided'
  BY <1>7 DEF Scan
<1>8. ASSUME NEW r \in Requests, Resolve(r) PROVE NeverDecided'
  BY <1>8 DEF Resolve
<1>9. ASSUME NEW r \in Requests, PolicyEvaluated(r) PROVE NeverDecided'
  BY <1>9, KillStagesType DEF PolicyEvaluated, AuditEventTypes
<1>10. ASSUME NEW r \in Requests, PolicyFails(r) PROVE NeverDecided'
  BY <1>10 DEF PolicyFails
<1>11. ASSUME NEW r \in Requests, PolicyFailureAudited(r) PROVE NeverDecided'
  BY <1>11 DEF PolicyFailureAudited
<1>12. ASSUME NEW r \in Requests, KillCheck(r) PROVE NeverDecided'
  BY <1>12, KillStagesType DEF KillCheck, AfterKill
<1>13. ASSUME NEW r \in Requests, CapabilityLookup(r) PROVE NeverDecided'
  BY <1>13 DEF CapabilityLookup
<1>14. ASSUME NEW r \in Requests, CapabilityConsume(r) PROVE NeverDecided'
  BY <1>14 DEF CapabilityConsume
<1>15. ASSUME NEW r \in Requests, TokenVerify(r) PROVE NeverDecided'
  BY <1>15 DEF TokenVerify
<1>16. ASSUME NEW r \in Requests, EvaluatePolicy(r) PROVE NeverDecided'
  BY <1>16 DEF EvaluatePolicy
<1>17. ASSUME NEW r \in Requests, BudgetCheck(r) PROVE NeverDecided'
  BY <1>17 DEF BudgetCheck
<1>18. ASSUME NEW r \in Requests, SpendLimitExceeded(r) PROVE NeverDecided'
  <2>1. rule'[r] = "spend_limit_exceeded" /\ pc'[r] = "aborted" /\ decision[r] = NONE
    BY <1>18 DEF SpendLimitExceeded, AuditEventTypes
  <2>2. QED
    BY <1>18, <2>1 DEF SpendLimitExceeded
<1>19. ASSUME NEW r \in Requests, ApprovalCheck(r) PROVE NeverDecided'
  BY <1>19 DEF ApprovalCheck, NeedsApproval
<1>20. ASSUME NEW r \in Requests, ApprovalRequested(r) PROVE NeverDecided'
  BY <1>20 DEF ApprovalRequested
<1>21. ASSUME NEW r \in Requests, Execute(r) PROVE NeverDecided'
  <2>1. Executed \cap {"spend_limit_exceeded", "dry_run"} = {} /\ decision[r] = NONE
    BY <1>21 DEF Execute, Executed
  <2>2. rule'[r] # "spend_limit_exceeded" \/ rule' = rule
    BY <1>21, <2>1 DEF Execute
  <2>3. QED
    BY <1>21, <2>1, <2>2 DEF Execute
<1>22. ASSUME NEW r \in Requests, SaveDecision(r) PROVE NeverDecided'
  BY <1>22 DEF SaveDecision, Storable, StoredToken, StatusOf, DecisionStatuses
<1>23. ASSUME NEW r \in Requests, DecisionMade(r) PROVE NeverDecided'
  BY <1>23 DEF DecisionMade, AfterDecision, AuditEventTypes
<1>24. ASSUME NEW r \in Requests, SaveResult(r) PROVE NeverDecided'
  BY <1>24 DEF SaveResult
<1>25. ASSUME NEW r \in Requests, ResultAudited(r) PROVE NeverDecided'
  BY <1>25 DEF ResultAudited, AuditEventTypes
<1>26. ASSUME NEW r \in Requests, Abort(r) PROVE NeverDecided'
  BY <1>26 DEF Abort
<1>27. ASSUME NEW a \in Requests, NEW v \in {"approved", "rejected"}, Review(a, v)
       PROVE  NeverDecided'
  BY <1>27 DEF Review
<1>28. ASSUME Untouched PROVE NeverDecided'
  BY <1>28 DEF Untouched
<1> QED BY NextCases, <1>1, <1>2, <1>3, <1>4, <1>5, <1>6, <1>7, <1>8, <1>9,
           <1>10, <1>11, <1>12, <1>13, <1>14, <1>15, <1>16, <1>17, <1>18,
           <1>19, <1>20, <1>21, <1>22, <1>23, <1>24, <1>25, <1>26, <1>27,
           <1>28

(* The call is over, and its action has no decision.                        *)
EndsUndecided(r) ==
  /\ pc[r] \notin Terminal /\ pc'[r] \in Terminal
  /\ r \in actions' /\ decision'[r] = NONE

(* An exception that nothing in handle() catches: of a failing statement, a *)
(* lost connection, a dying process, or of the governed function.           *)
Raises(r) == Abort(r) \/ (Execute(r) /\ pc'[r] = "aborted")

LEMMA EndStep ==
  ASSUME IInv, [Next]_vars, NEW q \in Requests, EndsUndecided(q), ~Raises(q)
  PROVE  Refused(q)'
<1> USE NullAssumption, RuleNames DEF EndsUndecided, Raises, Refused, Decisions, IInv,
        TypeOK, Ownership, locals, tables, world, BeforeInsert, Deciding, Decided, Goto,
        At, Decide, Audit, Terminal, KillLabels, Tokenless
<1>1. ASSUME NEW r \in Requests, Enter(r) PROVE Refused(q)'
  BY <1>1 DEF Enter
<1>2. ASSUME NEW r \in Requests, Lookup(r) PROVE Refused(q)'
  BY <1>2 DEF Lookup, CachedActions
<1>3. ASSUME NEW r \in Requests, IdempotentReturn(r) PROVE Refused(q)'
  BY <1>3 DEF IdempotentReturn, AuditEventTypes
<1>4. ASSUME NEW r \in Requests, SaveAction(r) PROVE Refused(q)'
  BY <1>4 DEF SaveAction, KeyTaken
<1>5. ASSUME NEW r \in Requests, Poll(r) PROVE Refused(q)'
  BY <1>5 DEF Poll, PollsLeft, CachedActions
<1>6. ASSUME NEW r \in Requests, ActionReceived(r) PROVE Refused(q)'
  BY <1>6 DEF ActionReceived, AuditEventTypes
<1>7. ASSUME NEW r \in Requests, Scan(r) PROVE Refused(q)'
  BY <1>7 DEF Scan
<1>8. ASSUME NEW r \in Requests, Resolve(r) PROVE Refused(q)'
  BY <1>8 DEF Resolve
<1>9. ASSUME NEW r \in Requests, PolicyEvaluated(r) PROVE Refused(q)'
  BY <1>9, KillStagesType DEF PolicyEvaluated, AuditEventTypes
<1>10. ASSUME NEW r \in Requests, PolicyFails(r) PROVE Refused(q)'
  BY <1>10 DEF PolicyFails
<1>11. ASSUME NEW r \in Requests, PolicyFailureAudited(r) PROVE Refused(q)'
  BY <1>11 DEF PolicyFailureAudited
<1>12. ASSUME NEW r \in Requests, KillCheck(r) PROVE Refused(q)'
  BY <1>12, KillStagesType DEF KillCheck, AfterKill
<1>13. ASSUME NEW r \in Requests, CapabilityLookup(r) PROVE Refused(q)'
  BY <1>13 DEF CapabilityLookup
<1>14. ASSUME NEW r \in Requests, CapabilityConsume(r) PROVE Refused(q)'
  BY <1>14 DEF CapabilityConsume
<1>15. ASSUME NEW r \in Requests, TokenVerify(r) PROVE Refused(q)'
  BY <1>15 DEF TokenVerify
<1>16. ASSUME NEW r \in Requests, EvaluatePolicy(r) PROVE Refused(q)'
  BY <1>16 DEF EvaluatePolicy
<1>17. ASSUME NEW r \in Requests, BudgetCheck(r) PROVE Refused(q)'
  BY <1>17 DEF BudgetCheck
<1>18. ASSUME NEW r \in Requests, SpendLimitExceeded(r) PROVE Refused(q)'
  BY <1>18 DEF SpendLimitExceeded
<1>19. ASSUME NEW r \in Requests, ApprovalCheck(r) PROVE Refused(q)'
  BY <1>19 DEF ApprovalCheck, NeedsApproval
<1>20. ASSUME NEW r \in Requests, ApprovalRequested(r) PROVE Refused(q)'
  BY <1>20 DEF ApprovalRequested
<1>21. ASSUME NEW r \in Requests, Execute(r) PROVE Refused(q)'
  BY <1>21 DEF Execute
<1>22. ASSUME NEW r \in Requests, SaveDecision(r) PROVE Refused(q)'
  BY <1>22 DEF SaveDecision, Storable, StoredToken, StatusOf, DecisionStatuses
<1>23. ASSUME NEW r \in Requests, DecisionMade(r) PROVE Refused(q)'
  BY <1>23 DEF DecisionMade, AfterDecision, AuditEventTypes
<1>24. ASSUME NEW r \in Requests, SaveResult(r) PROVE Refused(q)'
  BY <1>24 DEF SaveResult
<1>25. ASSUME NEW r \in Requests, ResultAudited(r) PROVE Refused(q)'
  BY <1>25 DEF ResultAudited, AuditEventTypes
<1>26. ASSUME NEW r \in Requests, Abort(r) PROVE Refused(q)'
  BY <1>26 DEF Abort
<1>27. ASSUME NEW a \in Requests, NEW v \in {"approved", "rejected"}, Review(a, v)
       PROVE  Refused(q)'
  BY <1>27 DEF Review
<1>28. ASSUME Untouched PROVE Refused(q)'
  BY <1>28 DEF Untouched
<1> QED BY NextCases, <1>1, <1>2, <1>3, <1>4, <1>5, <1>6, <1>7, <1>8, <1>9,
           <1>10, <1>11, <1>12, <1>13, <1>14, <1>15, <1>16, <1>17, <1>18,
           <1>19, <1>20, <1>21, <1>22, <1>23, <1>24, <1>25, <1>26, <1>27,
           <1>28

(* TerminalDecision fails, as the run kernel_budget shows.  An action whose  *)
(* call exceeded a budget, came to the end of a dry run or presented an     *)
(* old-style token that no capability has (kernel.py:172-183, 210-218,      *)
(* 292-326) never gets a decision, in any behaviour.                        *)
THEOREM RefusedUndecided == Spec => [](\A r \in Requests : Refused(r) => decision[r] = NONE)
<1>1. Init => NeverDecided
  BY NullAssumption, RuleNames DEF Init, NeverDecided, Refused
<1>2. NeverDecided => \A r \in Requests : Refused(r) => decision[r] = NONE
  BY DEF NeverDecided
<1> QED BY <1>1, <1>2, RefusedStep, Invariance, PTL DEF Spec

(* And of the calls that are not ended by an uncaught exception, a failing  *)
(* statement or a crash - any of which may leave an action undecided, at    *)
(* any statement - only those do.                                           *)
THEOREM UndecidedRefusedOrRaised ==
  Spec => [][\A r \in Requests : EndsUndecided(r) => Raises(r) \/ Refused(r)']_vars
<1>1. IInv /\ [Next]_vars =>
        [\A r \in Requests : EndsUndecided(r) => Raises(r) \/ Refused(r)']_vars
  BY EndStep
<1> QED BY <1>1, Invariance, PTL DEF Spec

=============================================================================
