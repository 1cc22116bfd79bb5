-------------------------- MODULE KernelInvariant --------------------------
(***************************************************************************)
(* The inductive invariant of Kernel and the proof that every step keeps   *)
(* it, for every value of the constants: any number of concurrent          *)
(* requests, keys, tenants, capabilities and kill-switch rows.             *)
(*                                                                         *)
(* None of the properties of Kernel is inductive alone: that at most one   *)
(* action of a key runs rests on who owns an action row, that a use is     *)
(* counted once on where a call that spent it can be.  IInv states this as *)
(* eleven named parts; one lemma per part has one step per action.            *)
(***************************************************************************)
EXTENDS Kernel, TLAPS, FiniteSetTheorems

(***************************************************************************)
(* The inductive invariant.  A call is before its INSERT, deciding, or past *)
(* the INSERT of its decision; what the tables hold of it follows.         *)
(***************************************************************************)
BeforeInsert == {"idle", "lookup", "insert", "poll"}
Deciding == {"receive", "scan", "resolve", "policy_audit", "policy_failed",
             "cap_lookup", "cap_consume", "cap_verify", "policy", "budget",
             "budget_audit", "approval", "approval_audit", "execute", "decide"}
            \cup KillLabels
Decided == {"decide_audit", "result", "result_audit"}

(* Who owns an action row, and what a request without one has not done.     *)
Ownership == \A r \in Requests :
  /\ pc[r] \in BeforeInsert \cup {"replay", "conflict"} => r \notin actions
  /\ pc[r] \in Deciding \cup Decided => r \in actions
  /\ pc[r] \in BeforeInsert \cup Deciding \cup {"decide_audit"} => answer[r] = NONE
  /\ pc[r] \in {"lookup", "poll"} => req[r].key # NONE
  /\ r \notin actions => /\ decision[r] = NONE /\ approval[r] = NONE
                         /\ r \notin ran /\ r \notin spent /\ r \notin results

(* The unique index on (actor_id, idempotency_key).                         *)
UniqueKeys == \A r, q \in actions : SameKey(r, q) => r = q

(* What an undecided and a decided action have in the tables.               *)
Decisions == \A r \in Requests :
  /\ pc[r] \in Deciding => decision[r] = NONE
  /\ pc[r] \in Deciding \ {"decide"} => r \notin ran
  /\ pc[r] \in Deciding \ {"approval_audit", "decide"} => approval[r] = NONE
  /\ pc[r] = "approval_audit" => approval[r] # NONE
  /\ pc[r] = "decide" =>
       /\ rule[r] # NONE
       /\ r \in ran <=> rule[r] \in Executed
  /\ pc[r] \in Decided => rule[r] # NONE /\ decision[r] = rule[r]
  /\ pc[r] = "result" => rule[r] \in Executed
  /\ pc[r] = "result_audit" /\ rule[r] \in Executed => r \in results
  /\ decision[r] \in Executed => r \in ran

(* What the stages behind a call have established about it.                 *)
Stages == \A r \in Requests :
  /\ pc[r] = "cap_consume" => req[r].token \in Capabilities
  /\ pc[r] = "cap_verify" => req[r].token = Gov
  /\ pc[r] \in {"policy", "budget", "budget_audit", "approval",
                "approval_audit", "execute"} => req[r].token # Unknown
  /\ pc[r] \in {"budget", "budget_audit", "approval", "approval_audit",
                "execute"} => snap[r] # "block"
  /\ pc[r] \in Deciding \ {"receive", "scan", "resolve", "policy_failed",
                           "decide"} => snap[r] # NONE
  /\ pc[r] = "execute" => snap[r] = "allow" /\ ~req[r].dry
  /\ r \in ran => /\ snap[r] = "allow" /\ ~req[r].dry
                  /\ req[r].token # Unknown
                  /\ approval[r] = NONE
                  /\ decision[r] \in Executed \cup {NONE}

(* What the tables hold for a call answered from its own decision.          *)
Answers == \A r \in Requests :
  /\ answer[r] = r => /\ rule[r] # NONE /\ decision[r] = rule[r]
                      /\ pc[r] \notin {"replay", "conflict"}
  /\ pc[r] = "answered" /\ answer[r] = r /\ r \in ran => r \in results

(* And for one answered from the decision of another request.               *)
Replays == \A r \in Requests :
  /\ pc[r] = "replay" => answer[r] # NONE
  /\ answer[r] \notin {NONE, r} =>
       /\ SameKey(r, answer[r])
       /\ req[r].tenant \in {NONE, req[answer[r]].tenant}
       /\ decision[answer[r]] # NONE
       /\ r \notin actions

(* Who has spent a capability use: nobody before the consuming statement,   *)
(* everybody past it who presented a capability.                            *)
Spenders == \A r \in Requests :
  /\ pc[r] \in {"receive", "scan", "resolve", "policy_audit", "cap_lookup",
                "cap_consume", "cap_verify"} \cup KillLabels => r \notin spent
  /\ /\ req[r].token \in Capabilities
     /\ r \in ran \/ pc[r] \in {"policy", "budget", "budget_audit", "approval",
                              "approval_audit", "execute"}
     => r \in spent

(* The uses column counts them.                                             *)
SpentWith(c) == {r \in spent : req[r].token = c}
Counted ==
  /\ IsFiniteSet(spent)
  /\ \A c \in Capabilities :
       /\ uses[c] = Cardinality(SpentWith(c))
       /\ uses[c] <= MaxUses[c]

(* The kill stages beyond the one where a standing row of a scope stops a   *)
(* request, and the stages after all of them.                               *)
Beyond(scope) ==
  CASE scope = "global"   -> KillLabels \ {"global", "any_1"}
    [] scope = "action"   -> KillLabels \ {"global", "any_1", "action"}
    [] scope = "resource" -> {"any_3", "actor", "any_4"}
    [] OTHER              -> {"any_4"}
Later == {"cap_lookup", "cap_consume", "cap_verify", "policy", "budget",
          "budget_audit", "approval", "approval_audit", "execute"}
EarlyRules == {"kill_switch_active", "prompt_injection_detected",
               "policy_resolution_failed"}

Held(r, row) ==
  /\ pc[r] \notin Beyond(row.scope) \cup Later
  /\ pc[r] = "decide" => rule[r] \in EarlyRules
  /\ decision[r] \in EarlyRules \cup {NONE}
  /\ r \notin ran /\ r \notin spent
  /\ approval[r] = NONE

(* A request under a standing row is held at the row's own stage.           *)
Switches == \A r \in Requests :
  /\ standing[r] \subseteq kill
  /\ \A row \in InForce(r) : Held(r, row)

IInv == /\ TypeOK /\ Ownership /\ UniqueKeys /\ Decisions /\ Stages /\ Answers
        /\ Replays /\ AuditIsBacked /\ Spenders /\ Counted /\ Switches

----------------------------------------------------------------------------
(* The kill stages and the rules as sets of names.                          *)
LEMMA KillStagesType ==
  /\ DOMAIN KillStages = 1..8
  /\ \A i \in DOMAIN KillStages : KillStages[i] \in KillLabels
  /\ \A i \in DOMAIN KillStages : i < 8 => KillStages[i + 1] \in KillLabels
  /\ KillStages[1] = "global"
<1>1. DOMAIN KillStages = 1..8 /\ KillStages[1] = "global"
  BY DEF KillStages
<1>2. \A i \in 1..8 : KillStages[i] \in KillLabels
  BY DEF KillStages, KillLabels
<1> QED BY <1>1, <1>2

LEMMA RuleNames ==
  Rules = {"prompt_injection_detected", "policy_resolution_failed",
           "kill_switch_active", "capability_invalid", "policy_block",
           "spend_limit_exceeded", "approval_required", "dry_run",
           "execution_complete", "execution_failed"}
BY DEF Rules, StatusOf

(* What the three control helpers leave well typed.                         *)
LEMMA GotoType ==
  ASSUME TypeOK, NEW r \in Requests, NEW label \in Labels, Goto(r, label)
  PROVE  pc' \in [Requests -> Labels]
BY DEF TypeOK, Goto

LEMMA DecideType ==
  ASSUME TypeOK, NEW r \in Requests, NEW w \in Rules, Decide(r, w)
  PROVE  pc' \in [Requests -> Labels] /\ rule' \in [Requests -> Rules \cup {NONE}]
BY DEF TypeOK, Decide, Goto, Labels

LEMMA AuditType ==
  ASSUME TypeOK, NEW r \in Requests, NEW a \in Requests, NEW type,
         NEW next \in Labels, Audit(r, a, type, next)
  PROVE  /\ pc' \in [Requests -> Labels]
         /\ audit' \subseteq [by : Requests, action : Requests, type : AuditEventTypes]
<1>1. "aborted" \in Labels
  BY DEF Labels, Terminal
<1> QED BY <1>1, GotoType DEF TypeOK, Audit

LEMMA LabelNames ==
  /\ {"idle", "lookup", "replay", "insert", "poll", "receive", "scan",
      "resolve", "policy_audit", "policy_failed", "cap_lookup",
      "cap_consume", "cap_verify", "policy", "budget", "budget_audit",
      "approval", "approval_audit", "execute", "decide", "decide_audit",
      "result", "result_audit", "answered", "conflict", "aborted"} \subseteq Labels
  /\ KillLabels \subseteq Labels
BY DEF Labels, Terminal

(* Every value a step writes has its column's type.                         *)
LEMMA NextType == IInv /\ [Next]_vars => TypeOK'
<1> SUFFICES ASSUME IInv, [Next]_vars PROVE TypeOK'
  OBVIOUS
<1> USE LabelNames DEF IInv, TypeOK, locals, tables, world
<1>1. ASSUME NEW r \in Requests, Enter(r) PROVE TypeOK'
  BY <1>1, GotoType DEF At, Enter
<1>2. ASSUME NEW r \in Requests, Lookup(r) PROVE TypeOK'
  BY <1>2, GotoType DEF At, Lookup, CachedActions
<1>3. ASSUME NEW r \in Requests, IdempotentReturn(r) PROVE TypeOK'
  BY <1>3, AuditType DEF At, IdempotentReturn, Replays
<1>4. ASSUME NEW r \in Requests, SaveAction(r) PROVE TypeOK'
  BY <1>4, GotoType DEF At, SaveAction
<1>5. ASSUME NEW r \in Requests, Poll(r) PROVE TypeOK'
  BY <1>5, GotoType, BoundAssumption DEF At, Poll, PollsLeft, CachedActions
<1>6. ASSUME NEW r \in Requests, ActionReceived(r) PROVE TypeOK'
  BY <1>6, AuditType DEF At, ActionReceived
<1>7. ASSUME NEW r \in Requests, Scan(r) PROVE TypeOK'
  BY <1>7, GotoType, DecideType, RuleNames DEF At, Scan
<1>8. ASSUME NEW r \in Requests, Resolve(r) PROVE TypeOK'
  BY <1>8, GotoType DEF At, Resolve
<1>9. ASSUME NEW r \in Requests, PolicyEvaluated(r) PROVE TypeOK'
  BY <1>9, AuditType, KillStagesType, LabelNames DEF At, PolicyEvaluated
<1>10. ASSUME NEW r \in Requests, PolicyFails(r) PROVE TypeOK'
  BY <1>10, GotoType DEF At, PolicyFails
<1>11. ASSUME NEW r \in Requests, PolicyFailureAudited(r) PROVE TypeOK'
  BY <1>11, DecideType, RuleNames DEF At, PolicyFailureAudited, AuditEventTypes
<1>12. ASSUME NEW r \in Requests, KillCheck(r) PROVE TypeOK'
  BY <1>12, GotoType, DecideType, RuleNames, KillStagesType DEF At, KillCheck, AfterKill
<1>13. ASSUME NEW r \in Requests, CapabilityLookup(r) PROVE TypeOK'
  BY <1>13, GotoType, DecideType, RuleNames DEF At, CapabilityLookup
<1>14. ASSUME NEW r \in Requests, CapabilityConsume(r) PROVE TypeOK'
  BY <1>14, GotoType, DecideType, RuleNames DEF At, CapabilityConsume
<1>15. ASSUME NEW r \in Requests, TokenVerify(r) PROVE TypeOK'
  BY <1>15, GotoType, DecideType, RuleNames DEF At, TokenVerify
<1>16. ASSUME NEW r \in Requests, EvaluatePolicy(r) PROVE TypeOK'
  BY <1>16, GotoType, DecideType, RuleNames DEF At, EvaluatePolicy
<1>17. ASSUME NEW r \in Requests, BudgetCheck(r) PROVE TypeOK'
  BY <1>17, GotoType DEF At, BudgetCheck
<1>18. ASSUME NEW r \in Requests, SpendLimitExceeded(r) PROVE TypeOK'
  BY <1>18, DecideType, RuleNames, AuditType DEF At, SpendLimitExceeded
<1>19. ASSUME NEW r \in Requests, ApprovalCheck(r) PROVE TypeOK'
  BY <1>19, GotoType, DecideType, RuleNames DEF At, ApprovalCheck, ApprovalStatuses
<1>20. ASSUME NEW r \in Requests, ApprovalRequested(r) PROVE TypeOK'
  BY <1>20, DecideType, RuleNames DEF At, ApprovalRequested, AuditEventTypes
<1>21. ASSUME NEW r \in Requests, Execute(r) PROVE TypeOK'
  BY <1>21, GotoType, DecideType, RuleNames DEF At, Execute, Executed
<1>22. ASSUME NEW r \in Requests, SaveDecision(r) PROVE TypeOK'
  BY <1>22, GotoType, DecideType, RuleNames DEF At, SaveDecision
<1>23. ASSUME NEW r \in Requests, DecisionMade(r) PROVE TypeOK'
  BY <1>23, AuditType DEF At, DecisionMade, AfterDecision
<1>24. ASSUME NEW r \in Requests, SaveResult(r) PROVE TypeOK'
  BY <1>24, GotoType DEF At, SaveResult
<1>25. ASSUME NEW r \in Requests, ResultAudited(r) PROVE TypeOK'
  BY <1>25, DecideType, RuleNames, AuditType DEF At, ResultAudited
<1>26. ASSUME NEW r \in Requests, Abort(r) PROVE TypeOK'
  BY <1>26, GotoType DEF At, Abort
<1>27. ASSUME Environment PROVE TypeOK'
  BY <1>27, ParamsAssumption DEF Environment, Review, LoseCapability, ActivatePolicy,
     EnableKill, DisableKill, ApprovalStatuses
<1>28. ASSUME UNCHANGED vars PROVE TypeOK'
  BY <1>28 DEF vars
<1> QED BY <1>1, <1>2, <1>3, <1>4, <1>5, <1>6, <1>7, <1>8, <1>9, <1>10, <1>11,
          <1>12, <1>13, <1>14, <1>15, <1>16, <1>17, <1>18, <1>19, <1>20,
          <1>21, <1>22, <1>23, <1>24, <1>25, <1>26, <1>27, <1>28 DEF Next,
          Step, AllDone

----------------------------------------------------------------------------
(* What the steps that are no action of a request leave alone.              *)
Untouched ==
  UNCHANGED <<locals, req, actions, decision, approval, audit, results, ran, spent>>

LEMMA NextCases ==
  ASSUME [Next]_vars
  PROVE  \/ \E r \in Requests :
              \/ Enter(r) \/ Lookup(r) \/ IdempotentReturn(r) \/ SaveAction(r)
              \/ Poll(r) \/ ActionReceived(r) \/ Scan(r) \/ Resolve(r)
              \/ PolicyEvaluated(r) \/ PolicyFails(r) \/ PolicyFailureAudited(r)
              \/ KillCheck(r) \/ CapabilityLookup(r) \/ CapabilityConsume(r)
              \/ TokenVerify(r) \/ EvaluatePolicy(r) \/ BudgetCheck(r)
              \/ SpendLimitExceeded(r) \/ ApprovalCheck(r) \/ ApprovalRequested(r)
              \/ Execute(r) \/ SaveDecision(r) \/ DecisionMade(r)
              \/ SaveResult(r) \/ ResultAudited(r) \/ Abort(r)
         \/ \E a \in Requests, v \in {"approved", "rejected"} : Review(a, v)
         \/ Untouched
<1>1. CASE \E r \in Requests : Enter(r) \/ Step(r) \/ Abort(r)
  BY <1>1, Zenon DEF Step
<1>2. CASE Environment
  BY <1>2 DEF Environment, LoseCapability, ActivatePolicy, EnableKill, DisableKill,
     Untouched, tables, world
<1>3. CASE UNCHANGED vars
  BY <1>3 DEF vars, Untouched, tables, world
<1> QED BY <1>1, <1>2, <1>3 DEF Next, AllDone

(* An action row is inserted by its own call, which then decides it; until  *)
(* then, and in a call without one, nothing else is recorded.               *)
LEMMA OwnershipStep == IInv /\ [Next]_vars => Ownership'
<1> SUFFICES ASSUME IInv, [Next]_vars PROVE Ownership'
  OBVIOUS
<1> USE NullAssumption, RuleNames DEF Ownership, IInv, TypeOK, Decisions,
        Answers, Replays, locals, tables, world, BeforeInsert, Deciding,
        Decided, Goto, At, Decide, Audit, Terminal, Executed, SameKey,
        KillLabels, PolicyKinds
<1>1. ASSUME NEW r \in Requests, Enter(r) PROVE Ownership'
  BY <1>1 DEF Enter
<1>2. ASSUME NEW r \in Requests, Lookup(r) PROVE Ownership'
  BY <1>2 DEF Lookup, CachedActions
<1>3. ASSUME NEW r \in Requests, IdempotentReturn(r) PROVE Ownership'
  BY <1>3 DEF IdempotentReturn, AuditEventTypes
<1>4. ASSUME NEW r \in Requests, SaveAction(r) PROVE Ownership'
  BY <1>4 DEF SaveAction, KeyTaken
<1>5. ASSUME NEW r \in Requests, Poll(r) PROVE Ownership'
  BY <1>5 DEF Poll, PollsLeft, CachedActions
<1>6. ASSUME NEW r \in Requests, ActionReceived(r) PROVE Ownership'
  BY <1>6 DEF ActionReceived, AuditEventTypes
<1>7. ASSUME NEW r \in Requests, Scan(r) PROVE Ownership'
  BY <1>7 DEF Scan
<1>8. ASSUME NEW r \in Requests, Resolve(r) PROVE Ownership'
  BY <1>8 DEF Resolve
<1>9. ASSUME NEW r \in Requests, PolicyEvaluated(r) PROVE Ownership'
  BY <1>9, KillStagesType DEF PolicyEvaluated, AuditEventTypes
<1>10. ASSUME NEW r \in Requests, PolicyFails(r) PROVE Ownership'
  BY <1>10 DEF PolicyFails
<1>11. ASSUME NEW r \in Requests, PolicyFailureAudited(r) PROVE Ownership'
  BY <1>11 DEF PolicyFailureAudited
<1>12. ASSUME NEW r \in Requests, KillCheck(r) PROVE Ownership'
  BY <1>12, KillStagesType DEF KillCheck, AfterKill, Tokens, ParamType
<1>13. ASSUME NEW r \in Requests, CapabilityLookup(r) PROVE Ownership'
  BY <1>13 DEF CapabilityLookup
<1>14. ASSUME NEW r \in Requests, CapabilityConsume(r) PROVE Ownership'
  BY <1>14 DEF CapabilityConsume
<1>15. ASSUME NEW r \in Requests, TokenVerify(r) PROVE Ownership'
  BY <1>15 DEF TokenVerify
<1>16. ASSUME NEW r \in Requests, EvaluatePolicy(r) PROVE Ownership'
  BY <1>16 DEF EvaluatePolicy
<1>17. ASSUME NEW r \in Requests, BudgetCheck(r) PROVE Ownership'
  BY <1>17 DEF BudgetCheck
<1>18. ASSUME NEW r \in Requests, SpendLimitExceeded(r) PROVE Ownership'
  BY <1>18 DEF SpendLimitExceeded, AuditEventTypes
<1>19. ASSUME NEW r \in Requests, ApprovalCheck(r) PROVE Ownership'
  BY <1>19 DEF ApprovalCheck, NeedsApproval, ApprovalStatuses
<1>20. ASSUME NEW r \in Requests, ApprovalRequested(r) PROVE Ownership'
  BY <1>20 DEF ApprovalRequested
<1>21. ASSUME NEW r \in Requests, Execute(r) PROVE Ownership'
  BY <1>21 DEF Execute
<1>22. ASSUME NEW r \in Requests, SaveDecision(r) PROVE Ownership'
  BY <1>22 DEF SaveDecision, Storable
<1>23. ASSUME NEW r \in Requests, DecisionMade(r) PROVE Ownership'
  BY <1>23 DEF DecisionMade, AfterDecision, AuditEventTypes
<1>24. ASSUME NEW r \in Requests, SaveResult(r) PROVE Ownership'
  BY <1>24 DEF SaveResult
<1>25. ASSUME NEW r \in Requests, ResultAudited(r) PROVE Ownership'
  BY <1>25 DEF ResultAudited, AuditEventTypes
<1>26. ASSUME NEW r \in Requests, Abort(r) PROVE Ownership'
  BY <1>26 DEF Abort
<1>27. ASSUME NEW a \in Requests, NEW v \in {"approved", "rejected"}, Review(a, v)
       PROVE  Ownership'
  BY <1>27 DEF Review, ApprovalStatuses
<1>28. ASSUME Untouched PROVE Ownership'
  BY <1>28 DEF Untouched
<1> QED BY NextCases, <1>1, <1>2, <1>3, <1>4, <1>5, <1>6, <1>7, <1>8, <1>9,
          <1>10, <1>11, <1>12, <1>13, <1>14, <1>15, <1>16, <1>17, <1>18,
          <1>19, <1>20, <1>21, <1>22, <1>23, <1>24, <1>25, <1>26, <1>27, <1>28

(* The INSERT refuses a key that an action row already holds.               *)
LEMMA UniqueKeysStep == IInv /\ [Next]_vars => UniqueKeys'
<1> SUFFICES ASSUME IInv, [Next]_vars PROVE UniqueKeys'
  OBVIOUS
<1> USE RuleNames DEF UniqueKeys, IInv, tables, SameKey
<1>1. ASSUME NEW r \in Requests, Enter(r) PROVE UniqueKeys'
  BY <1>1 DEF Enter
<1>2. ASSUME NEW r \in Requests, Lookup(r) PROVE UniqueKeys'
  BY <1>2 DEF Lookup
<1>3. ASSUME NEW r \in Requests, IdempotentReturn(r) PROVE UniqueKeys'
  BY <1>3 DEF IdempotentReturn
<1>4. ASSUME NEW r \in Requests, SaveAction(r) PROVE UniqueKeys'
  BY <1>4 DEF SaveAction, KeyTaken
<1>5. ASSUME NEW r \in Requests, Poll(r) PROVE UniqueKeys'
  BY <1>5 DEF Poll
<1>6. ASSUME NEW r \in Requests, ActionReceived(r) PROVE UniqueKeys'
  BY <1>6 DEF ActionReceived
<1>7. ASSUME NEW r \in Requests, Scan(r) PROVE UniqueKeys'
  BY <1>7 DEF Scan
<1>8. ASSUME NEW r \in Requests, Resolve(r) PROVE UniqueKeys'
  BY <1>8 DEF Resolve
<1>9. ASSUME NEW r \in Requests, PolicyEvaluated(r) PROVE UniqueKeys'
  BY <1>9, KillStagesType DEF PolicyEvaluated
<1>10. ASSUME NEW r \in Requests, PolicyFails(r) PROVE UniqueKeys'
  BY <1>10 DEF PolicyFails
<1>11. ASSUME NEW r \in Requests, PolicyFailureAudited(r) PROVE UniqueKeys'
  BY <1>11 DEF PolicyFailureAudited
<1>12. ASSUME NEW r \in Requests, KillCheck(r) PROVE UniqueKeys'
  BY <1>12, KillStagesType DEF KillCheck
<1>13. ASSUME NEW r \in Requests, CapabilityLookup(r) PROVE UniqueKeys'
  BY <1>13 DEF CapabilityLookup
<1>14. ASSUME NEW r \in Requests, CapabilityConsume(r) PROVE UniqueKeys'
  BY <1>14 DEF CapabilityConsume
<1>15. ASSUME NEW r \in Requests, TokenVerify(r) PROVE UniqueKeys'
  BY <1>15 DEF TokenVerify
<1>16. ASSUME NEW r \in Requests, EvaluatePolicy(r) PROVE UniqueKeys'
  BY <1>16 DEF EvaluatePolicy
<1>17. ASSUME NEW r \in Requests, BudgetCheck(r) PROVE UniqueKeys'
  BY <1>17 DEF BudgetCheck
<1>18. ASSUME NEW r \in Requests, SpendLimitExceeded(r) PROVE UniqueKeys'
  BY <1>18 DEF SpendLimitExceeded
<1>19. ASSUME NEW r \in Requests, ApprovalCheck(r) PROVE UniqueKeys'
  BY <1>19 DEF ApprovalCheck
<1>20. ASSUME NEW r \in Requests, ApprovalRequested(r) PROVE UniqueKeys'
  BY <1>20 DEF ApprovalRequested
<1>21. ASSUME NEW r \in Requests, Execute(r) PROVE UniqueKeys'
  BY <1>21 DEF Execute
<1>22. ASSUME NEW r \in Requests, SaveDecision(r) PROVE UniqueKeys'
  BY <1>22 DEF SaveDecision
<1>23. ASSUME NEW r \in Requests, DecisionMade(r) PROVE UniqueKeys'
  BY <1>23 DEF DecisionMade
<1>24. ASSUME NEW r \in Requests, SaveResult(r) PROVE UniqueKeys'
  BY <1>24 DEF SaveResult
<1>25. ASSUME NEW r \in Requests, ResultAudited(r) PROVE UniqueKeys'
  BY <1>25 DEF ResultAudited
<1>26. ASSUME NEW r \in Requests, Abort(r) PROVE UniqueKeys'
  BY <1>26 DEF Abort
<1>27. ASSUME NEW a \in Requests, NEW v \in {"approved", "rejected"}, Review(a, v)
       PROVE  UniqueKeys'
  BY <1>27 DEF Review
<1>28. ASSUME Untouched PROVE UniqueKeys'
  BY <1>28 DEF Untouched
<1> QED BY NextCases, <1>1, <1>2, <1>3, <1>4, <1>5, <1>6, <1>7, <1>8, <1>9,
          <1>10, <1>11, <1>12, <1>13, <1>14, <1>15, <1>16, <1>17, <1>18,
          <1>19, <1>20, <1>21, <1>22, <1>23, <1>24, <1>25, <1>26, <1>27, <1>28

(* A decision is written once, at the end of deciding, with the rule that   *)
(* says whether the function ran.                                           *)
LEMMA DecisionsStep == IInv /\ [Next]_vars => Decisions'
<1> SUFFICES ASSUME IInv, [Next]_vars PROVE Decisions'
  OBVIOUS
<1> USE NullAssumption, RuleNames DEF Decisions, IInv, TypeOK, Ownership,
        Stages, Answers, Replays, locals, tables, world, BeforeInsert,
        Deciding, Decided, Goto, At, Decide, Audit, Terminal, Executed,
        SameKey, KillLabels, PolicyKinds
<1>1. ASSUME NEW r \in Requests, Enter(r) PROVE Decisions'
  BY <1>1 DEF Enter
<1>2. ASSUME NEW r \in Requests, Lookup(r) PROVE Decisions'
  BY <1>2 DEF Lookup, CachedActions
<1>3. ASSUME NEW r \in Requests, IdempotentReturn(r) PROVE Decisions'
  BY <1>3 DEF IdempotentReturn, AuditEventTypes
<1>4. ASSUME NEW r \in Requests, SaveAction(r) PROVE Decisions'
  BY <1>4 DEF SaveAction, KeyTaken
<1>5. ASSUME NEW r \in Requests, Poll(r) PROVE Decisions'
  BY <1>5 DEF Poll, PollsLeft, CachedActions
<1>6. ASSUME NEW r \in Requests, ActionReceived(r) PROVE Decisions'
  BY <1>6 DEF ActionReceived, AuditEventTypes
<1>7. ASSUME NEW r \in Requests, Scan(r) PROVE Decisions'
  BY <1>7 DEF Scan
<1>8. ASSUME NEW r \in Requests, Resolve(r) PROVE Decisions'
  BY <1>8 DEF Resolve
<1>9. ASSUME NEW r \in Requests, PolicyEvaluated(r) PROVE Decisions'
  BY <1>9, KillStagesType DEF PolicyEvaluated, AuditEventTypes
<1>10. ASSUME NEW r \in Requests, PolicyFails(r) PROVE Decisions'
  BY <1>10 DEF PolicyFails
<1>11. ASSUME NEW r \in Requests, PolicyFailureAudited(r) PROVE Decisions'
  BY <1>11 DEF PolicyFailureAudited
<1>12. ASSUME NEW r \in Requests, KillCheck(r) PROVE Decisions'
  BY <1>12, KillStagesType DEF KillCheck, AfterKill, Tokens, ParamType
<1>13. ASSUME NEW r \in Requests, CapabilityLookup(r) PROVE Decisions'
  BY <1>13 DEF CapabilityLookup
<1>14. ASSUME NEW r \in Requests, CapabilityConsume(r) PROVE Decisions'
  BY <1>14 DEF CapabilityConsume
<1>15. ASSUME NEW r \in Requests, TokenVerify(r) PROVE Decisions'
  BY <1>15 DEF TokenVerify
<1>16. ASSUME NEW r \in Requests, EvaluatePolicy(r) PROVE Decisions'
  BY <1>16 DEF EvaluatePolicy
<1>17. ASSUME NEW r \in Requests, BudgetCheck(r) PROVE Decisions'
  BY <1>17 DEF BudgetCheck
<1>18. ASSUME NEW r \in Requests, SpendLimitExceeded(r) PROVE Decisions'
  BY <1>18 DEF SpendLimitExceeded, AuditEventTypes
<1>19. ASSUME NEW r \in Requests, ApprovalCheck(r) PROVE Decisions'
  BY <1>19 DEF ApprovalCheck, NeedsApproval, ApprovalStatuses
<1>20. ASSUME NEW r \in Requests, ApprovalRequested(r) PROVE Decisions'
  BY <1>20 DEF ApprovalRequested
<1>21. ASSUME NEW r \in Requests, Execute(r) PROVE Decisions'
  BY <1>21 DEF Execute
<1>22. ASSUME NEW r \in Requests, SaveDecision(r) PROVE Decisions'
  BY <1>22 DEF SaveDecision, Storable
<1>23. ASSUME NEW r \in Requests, DecisionMade(r) PROVE Decisions'
  BY <1>23 DEF DecisionMade, AfterDecision, AuditEventTypes
<1>24. ASSUME NEW r \in Requests, SaveResult(r) PROVE Decisions'
  BY <1>24 DEF SaveResult
<1>25. ASSUME NEW r \in Requests, ResultAudited(r) PROVE Decisions'
  BY <1>25 DEF ResultAudited, AuditEventTypes
<1>26. ASSUME NEW r \in Requests, Abort(r) PROVE Decisions'
  BY <1>26 DEF Abort
<1>27. ASSUME NEW a \in Requests, NEW v \in {"approved", "rejected"}, Review(a, v)
       PROVE  Decisions'
  BY <1>27 DEF Review, ApprovalStatuses
<1>28. ASSUME Untouched PROVE Decisions'
  BY <1>28 DEF Untouched
<1> QED BY NextCases, <1>1, <1>2, <1>3, <1>4, <1>5, <1>6, <1>7, <1>8, <1>9,
          <1>10, <1>11, <1>12, <1>13, <1>14, <1>15, <1>16, <1>17, <1>18,
          <1>19, <1>20, <1>21, <1>22, <1>23, <1>24, <1>25, <1>26, <1>27, <1>28

(* What a stage lets pass has the snapshot, token and flag it checked, and  *)
(* keeps them.                                                              *)
LEMMA StagesStep == IInv /\ [Next]_vars => Stages'
<1> SUFFICES ASSUME IInv, [Next]_vars PROVE Stages'
  OBVIOUS
<1> USE NullAssumption, RuleNames DEF Stages, IInv, TypeOK, Ownership,
        Decisions, Answers, Replays, locals, tables, world, BeforeInsert,
        Deciding, Decided, Goto, At, Decide, Audit, Terminal, Executed,
        SameKey, KillLabels, PolicyKinds
<1>1. ASSUME NEW r \in Requests, Enter(r) PROVE Stages'
  BY <1>1 DEF Enter
<1>2. ASSUME NEW r \in Requests, Lookup(r) PROVE Stages'
  BY <1>2 DEF Lookup, CachedActions
<1>3. ASSUME NEW r \in Requests, IdempotentReturn(r) PROVE Stages'
  BY <1>3 DEF IdempotentReturn, AuditEventTypes
<1>4. ASSUME NEW r \in Requests, SaveAction(r) PROVE Stages'
  BY <1>4 DEF SaveAction, KeyTaken
<1>5. ASSUME NEW r \in Requests, Poll(r) PROVE Stages'
  BY <1>5 DEF Poll, PollsLeft, CachedActions
<1>6. ASSUME NEW r \in Requests, ActionReceived(r) PROVE Stages'
  BY <1>6 DEF ActionReceived, AuditEventTypes
<1>7. ASSUME NEW r \in Requests, Scan(r) PROVE Stages'
  BY <1>7 DEF Scan
<1>8. ASSUME NEW r \in Requests, Resolve(r) PROVE Stages'
  BY <1>8 DEF Resolve
<1>9. ASSUME NEW r \in Requests, PolicyEvaluated(r) PROVE Stages'
  BY <1>9, KillStagesType DEF PolicyEvaluated, AuditEventTypes
<1>10. ASSUME NEW r \in Requests, PolicyFails(r) PROVE Stages'
  BY <1>10 DEF PolicyFails
<1>11. ASSUME NEW r \in Requests, PolicyFailureAudited(r) PROVE Stages'
  BY <1>11 DEF PolicyFailureAudited
<1>12. ASSUME NEW r \in Requests, KillCheck(r) PROVE Stages'
  BY <1>12, KillStagesType DEF KillCheck, AfterKill, Tokens, ParamType
<1>13. ASSUME NEW r \in Requests, CapabilityLookup(r) PROVE Stages'
  BY <1>13 DEF CapabilityLookup
<1>14. ASSUME NEW r \in Requests, CapabilityConsume(r) PROVE Stages'
  BY <1>14 DEF CapabilityConsume
<1>15. ASSUME NEW r \in Requests, TokenVerify(r) PROVE Stages'
  BY <1>15 DEF TokenVerify
<1>16. ASSUME NEW r \in Requests, EvaluatePolicy(r) PROVE Stages'
  BY <1>16 DEF EvaluatePolicy
<1>17. ASSUME NEW r \in Requests, BudgetCheck(r) PROVE Stages'
  BY <1>17 DEF BudgetCheck
<1>18. ASSUME NEW r \in Requests, SpendLimitExceeded(r) PROVE Stages'
  BY <1>18 DEF SpendLimitExceeded, AuditEventTypes
<1>19. ASSUME NEW r \in Requests, ApprovalCheck(r) PROVE Stages'
  BY <1>19 DEF ApprovalCheck, NeedsApproval, ApprovalStatuses
<1>20. ASSUME NEW r \in Requests, ApprovalRequested(r) PROVE Stages'
  BY <1>20 DEF ApprovalRequested
<1>21. ASSUME NEW r \in Requests, Execute(r) PROVE Stages'
  BY <1>21 DEF Execute
<1>22. ASSUME NEW r \in Requests, SaveDecision(r) PROVE Stages'
  BY <1>22 DEF SaveDecision, Storable
<1>23. ASSUME NEW r \in Requests, DecisionMade(r) PROVE Stages'
  BY <1>23 DEF DecisionMade, AfterDecision, AuditEventTypes
<1>24. ASSUME NEW r \in Requests, SaveResult(r) PROVE Stages'
  BY <1>24 DEF SaveResult
<1>25. ASSUME NEW r \in Requests, ResultAudited(r) PROVE Stages'
  BY <1>25 DEF ResultAudited, AuditEventTypes
<1>26. ASSUME NEW r \in Requests, Abort(r) PROVE Stages'
  BY <1>26 DEF Abort
<1>27. ASSUME NEW a \in Requests, NEW v \in {"approved", "rejected"}, Review(a, v)
       PROVE  Stages'
  BY <1>27 DEF Review, ApprovalStatuses
<1>28. ASSUME Untouched PROVE Stages'
  BY <1>28 DEF Untouched
<1> QED BY NextCases, <1>1, <1>2, <1>3, <1>4, <1>5, <1>6, <1>7, <1>8, <1>9,
          <1>10, <1>11, <1>12, <1>13, <1>14, <1>15, <1>16, <1>17, <1>18,
          <1>19, <1>20, <1>21, <1>22, <1>23, <1>24, <1>25, <1>26, <1>27, <1>28

(* A call is answered after its decision, and ends after its result.        *)
LEMMA AnswersStep == IInv /\ [Next]_vars => Answers'
<1> SUFFICES ASSUME IInv, [Next]_vars PROVE Answers'
  OBVIOUS
<1> USE RuleNames DEF Answers, IInv, TypeOK, Ownership, Decisions, Stages,
        locals, tables, world, BeforeInsert, Deciding, Decided, Goto, At,
        Decide, Audit
<1>1. ASSUME NEW r \in Requests, Enter(r) PROVE Answers'
  BY <1>1 DEF Enter
<1>2. ASSUME NEW r \in Requests, Lookup(r) PROVE Answers'
  BY <1>2 DEF Lookup, CachedActions
<1>3. ASSUME NEW r \in Requests, IdempotentReturn(r) PROVE Answers'
  BY <1>3 DEF IdempotentReturn
<1>4. ASSUME NEW r \in Requests, SaveAction(r) PROVE Answers'
  BY <1>4 DEF SaveAction
<1>5. ASSUME NEW r \in Requests, Poll(r) PROVE Answers'
  BY <1>5 DEF Poll, CachedActions
<1>6. ASSUME NEW r \in Requests, ActionReceived(r) PROVE Answers'
  BY <1>6 DEF ActionReceived
<1>7. ASSUME NEW r \in Requests, Scan(r) PROVE Answers'
  BY <1>7 DEF Scan
<1>8. ASSUME NEW r \in Requests, Resolve(r) PROVE Answers'
  BY <1>8 DEF Resolve
<1>9. ASSUME NEW r \in Requests, PolicyEvaluated(r) PROVE Answers'
  BY <1>9, KillStagesType DEF PolicyEvaluated
<1>10. ASSUME NEW r \in Requests, PolicyFails(r) PROVE Answers'
  BY <1>10 DEF PolicyFails
<1>11. ASSUME NEW r \in Requests, PolicyFailureAudited(r) PROVE Answers'
  BY <1>11 DEF PolicyFailureAudited
<1>12. ASSUME NEW r \in Requests, KillCheck(r) PROVE Answers'
  BY <1>12, KillStagesType DEF KillCheck
<1>13. ASSUME NEW r \in Requests, CapabilityLookup(r) PROVE Answers'
  BY <1>13 DEF CapabilityLookup
<1>14. ASSUME NEW r \in Requests, CapabilityConsume(r) PROVE Answers'
  BY <1>14 DEF CapabilityConsume
<1>15. ASSUME NEW r \in Requests, TokenVerify(r) PROVE Answers'
  BY <1>15 DEF TokenVerify
<1>16. ASSUME NEW r \in Requests, EvaluatePolicy(r) PROVE Answers'
  BY <1>16 DEF EvaluatePolicy
<1>17. ASSUME NEW r \in Requests, BudgetCheck(r) PROVE Answers'
  BY <1>17 DEF BudgetCheck
<1>18. ASSUME NEW r \in Requests, SpendLimitExceeded(r) PROVE Answers'
  BY <1>18 DEF SpendLimitExceeded
<1>19. ASSUME NEW r \in Requests, ApprovalCheck(r) PROVE Answers'
  BY <1>19 DEF ApprovalCheck
<1>20. ASSUME NEW r \in Requests, ApprovalRequested(r) PROVE Answers'
  BY <1>20 DEF ApprovalRequested
<1>21. ASSUME NEW r \in Requests, Execute(r) PROVE Answers'
  BY <1>21 DEF Execute
<1>22. ASSUME NEW r \in Requests, SaveDecision(r) PROVE Answers'
  BY <1>22 DEF SaveDecision
<1>23. ASSUME NEW r \in Requests, DecisionMade(r) PROVE Answers'
  BY <1>23 DEF DecisionMade, AfterDecision
<1>24. ASSUME NEW r \in Requests, SaveResult(r) PROVE Answers'
  BY <1>24 DEF SaveResult
<1>25. ASSUME NEW r \in Requests, ResultAudited(r) PROVE Answers'
  BY <1>25 DEF ResultAudited
<1>26. ASSUME NEW r \in Requests, Abort(r) PROVE Answers'
  BY <1>26 DEF Abort
<1>27. ASSUME NEW a \in Requests, NEW v \in {"approved", "rejected"}, Review(a, v)
       PROVE  Answers'
  BY <1>27 DEF Review
<1>28. ASSUME Untouched PROVE Answers'
  BY <1>28 DEF Untouched
<1> QED BY NextCases, <1>1, <1>2, <1>3, <1>4, <1>5, <1>6, <1>7, <1>8, <1>9,
          <1>10, <1>11, <1>12, <1>13, <1>14, <1>15, <1>16, <1>17, <1>18,
          <1>19, <1>20, <1>21, <1>22, <1>23, <1>24, <1>25, <1>26, <1>27, <1>28

(* A call is answered from another request before it has an action row, or  *)
(* never.                                                                   *)
LEMMA ReplaysStep == IInv /\ [Next]_vars => Replays'
<1> SUFFICES ASSUME IInv, [Next]_vars PROVE Replays'
  OBVIOUS
<1> USE NullAssumption, RuleNames DEF Replays, IInv, TypeOK, Ownership,
        Decisions, Answers, locals, tables, world, BeforeInsert, Deciding,
        Decided, Goto, At, Decide, Audit, Terminal, Executed, SameKey,
        KillLabels, PolicyKinds
<1>1. ASSUME NEW r \in Requests, Enter(r) PROVE Replays'
  BY <1>1 DEF Enter
<1>2. ASSUME NEW r \in Requests, Lookup(r) PROVE Replays'
  BY <1>2 DEF Lookup, CachedActions
<1>3. ASSUME NEW r \in Requests, IdempotentReturn(r) PROVE Replays'
  BY <1>3 DEF IdempotentReturn, AuditEventTypes
<1>4. ASSUME NEW r \in Requests, SaveAction(r) PROVE Replays'
  BY <1>4 DEF SaveAction, KeyTaken
<1>5. ASSUME NEW r \in Requests, Poll(r) PROVE Replays'
  BY <1>5 DEF Poll, PollsLeft, CachedActions
<1>6. ASSUME NEW r \in Requests, ActionReceived(r) PROVE Replays'
  BY <1>6 DEF ActionReceived, AuditEventTypes
<1>7. ASSUME NEW r \in Requests, Scan(r) PROVE Replays'
  BY <1>7 DEF Scan
<1>8. ASSUME NEW r \in Requests, Resolve(r) PROVE Replays'
  BY <1>8 DEF Resolve
<1>9. ASSUME NEW r \in Requests, PolicyEvaluated(r) PROVE Replays'
  BY <1>9, KillStagesType DEF PolicyEvaluated, AuditEventTypes
<1>10. ASSUME NEW r \in Requests, PolicyFails(r) PROVE Replays'
  BY <1>10 DEF PolicyFails
<1>11. ASSUME NEW r \in Requests, PolicyFailureAudited(r) PROVE Replays'
  BY <1>11 DEF PolicyFailureAudited
<1>12. ASSUME NEW r \in Requests, KillCheck(r) PROVE Replays'
  BY <1>12, KillStagesType DEF KillCheck, AfterKill, Tokens, ParamType
<1>13. ASSUME NEW r \in Requests, CapabilityLookup(r) PROVE Replays'
  BY <1>13 DEF CapabilityLookup
<1>14. ASSUME NEW r \in Requests, CapabilityConsume(r) PROVE Replays'
  BY <1>14 DEF CapabilityConsume
<1>15. ASSUME NEW r \in Requests, TokenVerify(r) PROVE Replays'
  BY <1>15 DEF TokenVerify
<1>16. ASSUME NEW r \in Requests, EvaluatePolicy(r) PROVE Replays'
  BY <1>16 DEF EvaluatePolicy
<1>17. ASSUME NEW r \in Requests, BudgetCheck(r) PROVE Replays'
  BY <1>17 DEF BudgetCheck
<1>18. ASSUME NEW r \in Requests, SpendLimitExceeded(r) PROVE Replays'
  BY <1>18 DEF SpendLimitExceeded, AuditEventTypes
<1>19. ASSUME NEW r \in Requests, ApprovalCheck(r) PROVE Replays'
  BY <1>19 DEF ApprovalCheck, NeedsApproval, ApprovalStatuses
<1>20. ASSUME NEW r \in Requests, ApprovalRequested(r) PROVE Replays'
  BY <1>20 DEF ApprovalRequested
<1>21. ASSUME NEW r \in Requests, Execute(r) PROVE Replays'
  BY <1>21 DEF Execute
<1>22. ASSUME NEW r \in Requests, SaveDecision(r) PROVE Replays'
  BY <1>22 DEF SaveDecision, Storable
<1>23. ASSUME NEW r \in Requests, DecisionMade(r) PROVE Replays'
  BY <1>23 DEF DecisionMade, AfterDecision, AuditEventTypes
<1>24. ASSUME NEW r \in Requests, SaveResult(r) PROVE Replays'
  BY <1>24 DEF SaveResult
<1>25. ASSUME NEW r \in Requests, ResultAudited(r) PROVE Replays'
  BY <1>25 DEF ResultAudited, AuditEventTypes
<1>26. ASSUME NEW r \in Requests, Abort(r) PROVE Replays'
  BY <1>26 DEF Abort
<1>27. ASSUME NEW a \in Requests, NEW v \in {"approved", "rejected"}, Review(a, v)
       PROVE  Replays'
  BY <1>27 DEF Review, ApprovalStatuses
<1>28. ASSUME Untouched PROVE Replays'
  BY <1>28 DEF Untouched
<1> QED BY NextCases, <1>1, <1>2, <1>3, <1>4, <1>5, <1>6, <1>7, <1>8, <1>9,
          <1>10, <1>11, <1>12, <1>13, <1>14, <1>15, <1>16, <1>17, <1>18,
          <1>19, <1>20, <1>21, <1>22, <1>23, <1>24, <1>25, <1>26, <1>27, <1>28

(* An event is appended after the row it reports, and rows stay.            *)
LEMMA AuditIsBackedStep == IInv /\ [Next]_vars => AuditIsBacked'
<1> SUFFICES ASSUME IInv, [Next]_vars PROVE AuditIsBacked'
  OBVIOUS
<1> USE NullAssumption, RuleNames DEF AuditIsBacked, IInv, TypeOK, Ownership,
        Decisions, Answers, Replays, locals, tables, world, BeforeInsert,
        Deciding, Decided, Goto, At, Decide, Audit, Terminal, Executed,
        SameKey, KillLabels, PolicyKinds
<1>1. ASSUME NEW r \in Requests, Enter(r) PROVE AuditIsBacked'
  BY <1>1 DEF Enter
<1>2. ASSUME NEW r \in Requests, Lookup(r) PROVE AuditIsBacked'
  BY <1>2 DEF Lookup, CachedActions
<1>3. ASSUME NEW r \in Requests, IdempotentReturn(r) PROVE AuditIsBacked'
  BY <1>3 DEF IdempotentReturn, AuditEventTypes
<1>4. ASSUME NEW r \in Requests, SaveAction(r) PROVE AuditIsBacked'
  BY <1>4 DEF SaveAction, KeyTaken
<1>5. ASSUME NEW r \in Requests, Poll(r) PROVE AuditIsBacked'
  BY <1>5 DEF Poll, PollsLeft, CachedActions
<1>6. ASSUME NEW r \in Requests, ActionReceived(r) PROVE AuditIsBacked'
  BY <1>6 DEF ActionReceived, AuditEventTypes
<1>7. ASSUME NEW r \in Requests, Scan(r) PROVE AuditIsBacked'
  BY <1>7 DEF Scan
<1>8. ASSUME NEW r \in Requests, Resolve(r) PROVE AuditIsBacked'
  BY <1>8 DEF Resolve
<1>9. ASSUME NEW r \in Requests, PolicyEvaluated(r) PROVE AuditIsBacked'
  BY <1>9, KillStagesType DEF PolicyEvaluated, AuditEventTypes
<1>10. ASSUME NEW r \in Requests, PolicyFails(r) PROVE AuditIsBacked'
  BY <1>10 DEF PolicyFails
<1>11. ASSUME NEW r \in Requests, PolicyFailureAudited(r) PROVE AuditIsBacked'
  BY <1>11 DEF PolicyFailureAudited
<1>12. ASSUME NEW r \in Requests, KillCheck(r) PROVE AuditIsBacked'
  BY <1>12, KillStagesType DEF KillCheck, AfterKill, Tokens, ParamType
<1>13. ASSUME NEW r \in Requests, CapabilityLookup(r) PROVE AuditIsBacked'
  BY <1>13 DEF CapabilityLookup
<1>14. ASSUME NEW r \in Requests, CapabilityConsume(r) PROVE AuditIsBacked'
  BY <1>14 DEF CapabilityConsume
<1>15. ASSUME NEW r \in Requests, TokenVerify(r) PROVE AuditIsBacked'
  BY <1>15 DEF TokenVerify
<1>16. ASSUME NEW r \in Requests, EvaluatePolicy(r) PROVE AuditIsBacked'
  BY <1>16 DEF EvaluatePolicy
<1>17. ASSUME NEW r \in Requests, BudgetCheck(r) PROVE AuditIsBacked'
  BY <1>17 DEF BudgetCheck
<1>18. ASSUME NEW r \in Requests, SpendLimitExceeded(r) PROVE AuditIsBacked'
  BY <1>18 DEF SpendLimitExceeded, AuditEventTypes
<1>19. ASSUME NEW r \in Requests, ApprovalCheck(r) PROVE AuditIsBacked'
  BY <1>19 DEF ApprovalCheck, NeedsApproval, ApprovalStatuses
<1>20. ASSUME NEW r \in Requests, ApprovalRequested(r) PROVE AuditIsBacked'
  BY <1>20 DEF ApprovalRequested
<1>21. ASSUME NEW r \in Requests, Execute(r) PROVE AuditIsBacked'
  BY <1>21 DEF Execute
<1>22. ASSUME NEW r \in Requests, SaveDecision(r) PROVE AuditIsBacked'
  BY <1>22 DEF SaveDecision, Storable
<1>23. ASSUME NEW r \in Requests, DecisionMade(r) PROVE AuditIsBacked'
  BY <1>23 DEF DecisionMade, AfterDecision, AuditEventTypes
<1>24. ASSUME NEW r \in Requests, SaveResult(r) PROVE AuditIsBacked'
  BY <1>24 DEF SaveResult
<1>25. ASSUME NEW r \in Requests, ResultAudited(r) PROVE AuditIsBacked'
  BY <1>25 DEF ResultAudited, AuditEventTypes
<1>26. ASSUME NEW r \in Requests, Abort(r) PROVE AuditIsBacked'
  BY <1>26 DEF Abort
<1>27. ASSUME NEW a \in Requests, NEW v \in {"approved", "rejected"}, Review(a, v)
       PROVE  AuditIsBacked'
  BY <1>27 DEF Review, ApprovalStatuses
<1>28. ASSUME Untouched PROVE AuditIsBacked'
  BY <1>28 DEF Untouched
<1> QED BY NextCases, <1>1, <1>2, <1>3, <1>4, <1>5, <1>6, <1>7, <1>8, <1>9,
          <1>10, <1>11, <1>12, <1>13, <1>14, <1>15, <1>16, <1>17, <1>18,
          <1>19, <1>20, <1>21, <1>22, <1>23, <1>24, <1>25, <1>26, <1>27, <1>28

(* A use is spent by the consuming statement, before anything runs.         *)
LEMMA SpendersStep == IInv /\ [Next]_vars => Spenders'
<1> SUFFICES ASSUME IInv, [Next]_vars PROVE Spenders'
  OBVIOUS
<1> USE NullAssumption, RuleNames DEF Spenders, IInv, TypeOK, Ownership,
        Decisions, Stages, Answers, Replays, locals, tables, world,
        BeforeInsert, Deciding, Decided, Goto, At, Decide, Audit, Terminal,
        Executed, SameKey, KillLabels, PolicyKinds
<1>1. ASSUME NEW r \in Requests, Enter(r) PROVE Spenders'
  BY <1>1 DEF Enter
<1>2. ASSUME NEW r \in Requests, Lookup(r) PROVE Spenders'
  BY <1>2 DEF Lookup, CachedActions
<1>3. ASSUME NEW r \in Requests, IdempotentReturn(r) PROVE Spenders'
  BY <1>3 DEF IdempotentReturn, AuditEventTypes
<1>4. ASSUME NEW r \in Requests, SaveAction(r) PROVE Spenders'
  BY <1>4 DEF SaveAction, KeyTaken
<1>5. ASSUME NEW r \in Requests, Poll(r) PROVE Spenders'
  BY <1>5 DEF Poll, PollsLeft, CachedActions
<1>6. ASSUME NEW r \in Requests, ActionReceived(r) PROVE Spenders'
  BY <1>6 DEF ActionReceived, AuditEventTypes
<1>7. ASSUME NEW r \in Requests, Scan(r) PROVE Spenders'
  BY <1>7 DEF Scan
<1>8. ASSUME NEW r \in Requests, Resolve(r) PROVE Spenders'
  BY <1>8 DEF Resolve
<1>9. ASSUME NEW r \in Requests, PolicyEvaluated(r) PROVE Spenders'
  BY <1>9, KillStagesType DEF PolicyEvaluated, AuditEventTypes
<1>10. ASSUME NEW r \in Requests, PolicyFails(r) PROVE Spenders'
  BY <1>10 DEF PolicyFails
<1>11. ASSUME NEW r \in Requests, PolicyFailureAudited(r) PROVE Spenders'
  BY <1>11 DEF PolicyFailureAudited
<1>12. ASSUME NEW r \in Requests, KillCheck(r) PROVE Spenders'
  BY <1>12, KillStagesType DEF KillCheck, AfterKill, Tokens, ParamType
<1>13. ASSUME NEW r \in Requests, CapabilityLookup(r) PROVE Spenders'
  BY <1>13 DEF CapabilityLookup
<1>14. ASSUME NEW r \in Requests, CapabilityConsume(r) PROVE Spenders'
  BY <1>14 DEF CapabilityConsume
<1>15. ASSUME NEW r \in Requests, TokenVerify(r) PROVE Spenders'
  BY <1>15 DEF TokenVerify
<1>16. ASSUME NEW r \in Requests, EvaluatePolicy(r) PROVE Spenders'
  BY <1>16 DEF EvaluatePolicy
<1>17. ASSUME NEW r \in Requests, BudgetCheck(r) PROVE Spenders'
  BY <1>17 DEF BudgetCheck
<1>18. ASSUME NEW r \in Requests, SpendLimitExceeded(r) PROVE Spenders'
  BY <1>18 DEF SpendLimitExceeded, AuditEventTypes
<1>19. ASSUME NEW r \in Requests, ApprovalCheck(r) PROVE Spenders'
  BY <1>19 DEF ApprovalCheck, NeedsApproval, ApprovalStatuses
<1>20. ASSUME NEW r \in Requests, ApprovalRequested(r) PROVE Spenders'
  BY <1>20 DEF ApprovalRequested
<1>21. ASSUME NEW r \in Requests, Execute(r) PROVE Spenders'
  BY <1>21 DEF Execute
<1>22. ASSUME NEW r \in Requests, SaveDecision(r) PROVE Spenders'
  BY <1>22 DEF SaveDecision, Storable
<1>23. ASSUME NEW r \in Requests, DecisionMade(r) PROVE Spenders'
  BY <1>23 DEF DecisionMade, AfterDecision, AuditEventTypes
<1>24. ASSUME NEW r \in Requests, SaveResult(r) PROVE Spenders'
  BY <1>24 DEF SaveResult
<1>25. ASSUME NEW r \in Requests, ResultAudited(r) PROVE Spenders'
  BY <1>25 DEF ResultAudited, AuditEventTypes
<1>26. ASSUME NEW r \in Requests, Abort(r) PROVE Spenders'
  BY <1>26 DEF Abort
<1>27. ASSUME NEW a \in Requests, NEW v \in {"approved", "rejected"}, Review(a, v)
       PROVE  Spenders'
  BY <1>27 DEF Review, ApprovalStatuses
<1>28. ASSUME Untouched PROVE Spenders'
  BY <1>28 DEF Untouched
<1> QED BY NextCases, <1>1, <1>2, <1>3, <1>4, <1>5, <1>6, <1>7, <1>8, <1>9,
          <1>10, <1>11, <1>12, <1>13, <1>14, <1>15, <1>16, <1>17, <1>18,
          <1>19, <1>20, <1>21, <1>22, <1>23, <1>24, <1>25, <1>26, <1>27, <1>28

----------------------------------------------------------------------------
(* The step that spends a use counts it.                                    *)
LEMMA ConsumeCounts ==
  ASSUME IInv, NEW r \in Requests, CapabilityConsume(r)
  PROVE  Counted'
<1> USE DEF IInv, TypeOK, Counted
<1>1. PICK c \in Capabilities : c = req[r].token
  BY DEF CapabilityConsume, At, Stages
<1>0. r \notin spent /\ req' = req
  BY DEF CapabilityConsume, At, Spenders
<1>2. CASE ~Consumable(c)
  BY <1>0, <1>1, <1>2 DEF CapabilityConsume, SpentWith
<1>3. CASE Consumable(c)
  <2>1. /\ uses' = [uses EXCEPT ![c] = @ + 1]
        /\ spent' = spent \cup {r}
    BY <1>1, <1>3 DEF CapabilityConsume
  <2>2. IsFiniteSet(spent')
    BY <2>1, FS_AddElement
  <2>3. ASSUME NEW d \in Capabilities, d # c
        PROVE  uses'[d] = uses[d] /\ SpentWith(d)' = SpentWith(d)
    BY <1>0, <1>1, <2>1, <2>3 DEF SpentWith
  <2>4. Cardinality(SpentWith(c)') = Cardinality(SpentWith(c)) + 1
    <3>1. SpentWith(c)' = SpentWith(c) \cup {r} /\ r \notin SpentWith(c)
      BY <1>0, <1>1, <2>1 DEF SpentWith
    <3>2. IsFiniteSet(SpentWith(c))
      BY FS_Subset DEF SpentWith
    <3>3. Cardinality(SpentWith(c) \cup {r}) = Cardinality(SpentWith(c)) + 1
      BY <3>1, <3>2, FS_AddElement
    <3> QED BY <3>1, <3>3
  <2>5. uses'[c] = uses[c] + 1 /\ uses[c] < MaxUses[c]
    BY <1>0, <1>1, <1>3, <2>1 DEF Consumable
  <2>6. /\ uses'[c] = Cardinality(SpentWith(c)')
        /\ uses'[c] <= MaxUses[c]
    BY <1>0, <1>1, <2>4, <2>5, CapabilityAssumption
  <2> QED BY <2>2, <2>3, <2>6
<1> QED BY <1>2, <1>3

(* No other step touches the counter, the spenders or the parameters.       *)
LEMMA CountedStep == IInv /\ [Next]_vars => Counted'
<1> SUFFICES ASSUME IInv, [Next]_vars PROVE Counted'
  OBVIOUS
<1>1. CASE \E r \in Requests : CapabilityConsume(r)
  BY <1>1, ConsumeCounts
<1>2. CASE UNCHANGED <<uses, spent, req>>
  BY <1>2 DEF IInv, Counted, SpentWith
<1>3. (\E r \in Requests : CapabilityConsume(r)) \/ UNCHANGED <<uses, spent, req>>
  <2>1. ASSUME NEW r \in Requests, Step(r), ~CapabilityConsume(r)
        PROVE  UNCHANGED <<uses, spent, req>>
    BY <2>1 DEF Step, tables, world, Lookup, IdempotentReturn, SaveAction, Poll,
       ActionReceived, Scan, Resolve, PolicyEvaluated, PolicyFails,
       PolicyFailureAudited, KillCheck, CapabilityLookup, TokenVerify,
       EvaluatePolicy, BudgetCheck, SpendLimitExceeded, ApprovalCheck,
       ApprovalRequested, Execute, SaveDecision, DecisionMade, SaveResult,
       ResultAudited
  <2>2. ASSUME NEW r \in Requests, Enter(r) \/ Abort(r)
        PROVE  UNCHANGED <<uses, spent, req>>
    BY <2>2 DEF tables, world, Enter, Abort
  <2>3. ASSUME Environment PROVE UNCHANGED <<uses, spent, req>>
    BY <2>3 DEF Environment, Review, LoseCapability, ActivatePolicy, EnableKill,
       DisableKill, tables, world
  <2>4. ASSUME UNCHANGED vars PROVE UNCHANGED <<uses, spent, req>>
    BY <2>4 DEF vars, tables, world
  <2> QED BY <2>1, <2>2, <2>3, <2>4 DEF Next, AllDone
<1> QED BY <1>1, <1>2, <1>3

(* The stages beyond a row's own are kill stages behind the first.          *)
LEMMA BeyondType ==
  ASSUME NEW scope
  PROVE  Beyond(scope) \subseteq KillLabels \ {"global"}
BY DEF Beyond, KillLabels

(* Once a request is in, the rows in force for it only leave.               *)
LEMMA InForceShrinks ==
  ASSUME IInv, [Next]_vars, NEW r \in Requests, pc[r] # "idle"
  PROVE  InForce(r)' \subseteq InForce(r) /\ req' = req
<1> USE DEF IInv, TypeOK, InForce
<1>1. CASE UNCHANGED <<standing, req>>
  BY <1>1
<1>2. ASSUME NEW q \in Requests, Enter(q)
      PROVE InForce(r)' \subseteq InForce(r) /\ req' = req
  BY <1>2 DEF Enter, At
<1>3. ASSUME NEW row \in KillRows, DisableKill(row)
      PROVE  InForce(r)' \subseteq InForce(r) /\ req' = req
  BY <1>3 DEF DisableKill
<1>4. ASSUME NEW q \in Requests, Step(q) \/ Abort(q) PROVE UNCHANGED <<standing, req>>
  BY <1>4 DEF Step, tables, world, Abort, Lookup, IdempotentReturn, SaveAction, Poll,
       ActionReceived, Scan, Resolve, PolicyEvaluated, PolicyFails,
       PolicyFailureAudited, KillCheck, CapabilityLookup, CapabilityConsume, TokenVerify,
       EvaluatePolicy, BudgetCheck, SpendLimitExceeded, ApprovalCheck,
       ApprovalRequested, Execute, SaveDecision, DecisionMade, SaveResult,
       ResultAudited
<1>5. ASSUME Environment, ~ \E row \in KillRows : DisableKill(row)
      PROVE UNCHANGED <<standing, req>>
    BY <1>5 DEF Environment, Review, LoseCapability, ActivatePolicy, EnableKill,
       tables, world
<1> QED BY <1>1, <1>2, <1>3, <1>4, <1>5 DEF Next, AllDone, vars, world

(* A row still in force holds its request through any step but Enter.       *)
LEMMA HeldStep ==
  ASSUME IInv, [Next]_vars, NEW q \in Requests, pc[q] # "idle",
         NEW row \in InForce(q)
  PROVE  Held(q, row)'
<1> USE BeyondType, NullAssumption, RuleNames DEF IInv, TypeOK, Held, Switches, At,
   Goto, Decide, locals, tables, world, Terminal, KillLabels, Later, EarlyRules
<1>1. ASSUME NEW r \in Requests, Lookup(r) PROVE Held(q, row)'
  BY <1>1 DEF Lookup
<1>2. ASSUME NEW r \in Requests, IdempotentReturn(r) PROVE Held(q, row)'
  BY <1>2 DEF IdempotentReturn, Audit, AuditEventTypes
<1>3. ASSUME NEW r \in Requests, SaveAction(r) PROVE Held(q, row)'
  BY <1>3 DEF SaveAction
<1>4. ASSUME NEW r \in Requests, Poll(r) PROVE Held(q, row)'
  BY <1>4 DEF Poll
<1>5. ASSUME NEW r \in Requests, ActionReceived(r) PROVE Held(q, row)'
  BY <1>5 DEF ActionReceived, Audit, AuditEventTypes
<1>6. ASSUME NEW r \in Requests, Scan(r) PROVE Held(q, row)'
  BY <1>6 DEF Scan
<1>7. ASSUME NEW r \in Requests, Resolve(r) PROVE Held(q, row)'
  BY <1>7 DEF Resolve
<1>8. ASSUME NEW r \in Requests, PolicyEvaluated(r) PROVE Held(q, row)'
  BY <1>8, KillStagesType DEF PolicyEvaluated, Audit, AuditEventTypes
<1>9. ASSUME NEW r \in Requests, PolicyFails(r) PROVE Held(q, row)'
  BY <1>9 DEF PolicyFails
<1>10. ASSUME NEW r \in Requests, PolicyFailureAudited(r) PROVE Held(q, row)'
  BY <1>10 DEF PolicyFailureAudited
<1>11. ASSUME NEW r \in Requests, CapabilityLookup(r) PROVE Held(q, row)'
  BY <1>11 DEF CapabilityLookup
<1>12. ASSUME NEW r \in Requests, CapabilityConsume(r) PROVE Held(q, row)'
  BY <1>12 DEF CapabilityConsume
<1>13. ASSUME NEW r \in Requests, TokenVerify(r) PROVE Held(q, row)'
  BY <1>13 DEF TokenVerify
<1>14. ASSUME NEW r \in Requests, EvaluatePolicy(r) PROVE Held(q, row)'
  BY <1>14 DEF EvaluatePolicy
<1>15. ASSUME NEW r \in Requests, BudgetCheck(r) PROVE Held(q, row)'
  BY <1>15 DEF BudgetCheck
<1>16. ASSUME NEW r \in Requests, SpendLimitExceeded(r) PROVE Held(q, row)'
  BY <1>16 DEF SpendLimitExceeded, Audit, AuditEventTypes
<1>17. ASSUME NEW r \in Requests, ApprovalCheck(r) PROVE Held(q, row)'
  BY <1>17 DEF ApprovalCheck
<1>18. ASSUME NEW r \in Requests, ApprovalRequested(r) PROVE Held(q, row)'
  BY <1>18 DEF ApprovalRequested
<1>19. ASSUME NEW r \in Requests, Execute(r) PROVE Held(q, row)'
  BY <1>19 DEF Execute
<1>20. ASSUME NEW r \in Requests, SaveDecision(r) PROVE Held(q, row)'
  BY <1>20 DEF SaveDecision
<1>21. ASSUME NEW r \in Requests, DecisionMade(r) PROVE Held(q, row)'
  BY <1>21 DEF DecisionMade, Audit, AfterDecision, AuditEventTypes
<1>22. ASSUME NEW r \in Requests, SaveResult(r) PROVE Held(q, row)'
  BY <1>22 DEF SaveResult
<1>23. ASSUME NEW r \in Requests, ResultAudited(r) PROVE Held(q, row)'
  BY <1>23 DEF ResultAudited, Audit, AuditEventTypes
<1>24. ASSUME NEW r \in Requests, Abort(r) PROVE Held(q, row)'
  BY <1>24 DEF Abort
<1>25. ASSUME NEW r \in Requests, KillCheck(r) PROVE Held(q, row)'
  <2>0. DOMAIN KillStages = 1..8
    BY DEF KillStages
  <2>1. PICK i \in 1..8 :
          /\ At(r, KillStages[i])
          /\ IF KillHit(r, KillStages[i])
               THEN Decide(r, "kill_switch_active")
               ELSE /\ Goto(r, IF i < 8 THEN KillStages[i + 1] ELSE AfterKill(r))
                    /\ UNCHANGED rule
          /\ UNCHANGED <<decision, approval, ran, spent>>
    BY <1>25, <2>0 DEF KillCheck
  <2>2. CASE r # q
    BY <2>1, <2>2
  <2>3. CASE r = q /\ KillHit(r, KillStages[i])
    BY <2>1, <2>3
  <2>4. CASE r = q /\ ~KillHit(r, KillStages[i])
    <3>1. row \in kill /\ row.scope \in KillScopes
      BY ParamsAssumption DEF InForce
    <3>2. /\ pc[q] = KillStages[i]
          /\ pc'[q] = IF i < 8 THEN KillStages[i + 1] ELSE AfterKill(r)
      BY <2>1, <2>4
    <3>3. CASE row.scope = "global"
      <4>1. i = 1
        BY <2>4, <3>1, <3>2, <3>3 DEF KillHit, KillStages, Beyond, KillScopes
      <4> QED BY <2>1, <2>4, <3>2, <3>3, <4>1 DEF KillStages, Beyond
    <3>4. CASE row.scope # "global"
      <4>1. row.scope \in {"action", "resource", "actor"} /\ req[q].tenant \in {NONE, row.tenant}
        BY <3>4 DEF InForce
      <4>2. KillStages[i] # row.scope
        BY <2>4, <3>1, <4>1 DEF KillHit, KillScopes
      <4>3. i < 7 /\ (row.scope = "action" => i < 3) /\ (row.scope = "resource" => i < 5)
        BY <3>2, <4>1, <4>2 DEF KillStages, Beyond
      <4> QED BY <2>1, <2>4, <3>2, <4>1, <4>3 DEF KillStages, Beyond
    <3> QED BY <3>3, <3>4
  <2> QED BY <2>2, <2>3, <2>4
<1>26. ASSUME NEW r \in Requests, Enter(r) PROVE Held(q, row)'
  BY <1>26 DEF Enter
<1>27. ASSUME NEW a \in Requests, NEW v \in {"approved", "rejected"}, Review(a, v)
       PROVE  Held(q, row)'
  BY <1>27 DEF Review, ApprovalStatuses
<1>28. ASSUME Untouched PROVE Held(q, row)'
  BY <1>28 DEF Untouched
<1> QED BY NextCases, <1>1, <1>2, <1>3, <1>4, <1>5, <1>6, <1>7, <1>8, <1>9,
          <1>10, <1>11, <1>12, <1>13, <1>14, <1>15, <1>16, <1>17, <1>18,
          <1>19, <1>20, <1>21, <1>22, <1>23, <1>24, <1>25, <1>26, <1>27, <1>28

(* A call that was not made yet can only be made.                           *)
LEMMA EnterOnly ==
  ASSUME IInv, [Next]_vars, NEW q \in Requests, pc[q] = "idle"
  PROVE  pc'[q] \in {"idle", "lookup", "insert"}
<1> USE DEF IInv, TypeOK
<1>1. ASSUME NEW r \in Requests, Enter(r) PROVE pc'[q] \in {"idle", "lookup", "insert"}
  BY <1>1 DEF Enter, Goto
<1>2. ASSUME NEW r \in Requests, Step(r) \/ Abort(r) PROVE pc'[q] = pc[q]
  <2>1. pc[r] # "idle"
    BY <1>2, KillStagesType DEF Step, Abort, At, KillLabels, Lookup, IdempotentReturn,
       SaveAction, Poll, ActionReceived, Scan, Resolve, PolicyEvaluated, PolicyFails,
       PolicyFailureAudited, KillCheck, CapabilityLookup, CapabilityConsume, TokenVerify,
       EvaluatePolicy, BudgetCheck, SpendLimitExceeded, ApprovalCheck,
       ApprovalRequested, Execute, SaveDecision, DecisionMade, SaveResult,
       ResultAudited
  <2>2. pc' = pc \/ \E label : Goto(r, label)
    BY <1>2 DEF Step, Abort, Lookup, IdempotentReturn, Audit, Decide,
       SaveAction, Poll, ActionReceived, Scan, Resolve, PolicyEvaluated, PolicyFails,
       PolicyFailureAudited, KillCheck, CapabilityLookup, CapabilityConsume, TokenVerify,
       EvaluatePolicy, BudgetCheck, SpendLimitExceeded, ApprovalCheck,
       ApprovalRequested, Execute, SaveDecision, DecisionMade, SaveResult,
       ResultAudited
  <2> QED BY <2>1, <2>2 DEF Goto
<1>3. ASSUME Environment PROVE pc' = pc
  BY <1>3 DEF Environment, Review, LoseCapability, ActivatePolicy, EnableKill,
     DisableKill, locals
<1> QED BY <1>1, <1>2, <1>3 DEF Next, AllDone, vars, locals

(* Enter starts the history of standing rows; every later step keeps it.    *)
LEMMA SwitchesStep == IInv /\ [Next]_vars => Switches'
<1> SUFFICES ASSUME IInv, [Next]_vars, NEW q \in Requests
            
             PROVE  standing'[q] \subseteq kill' /\ \A row \in InForce(q)' : Held(q, row)'
  BY DEF Switches
<1>1. standing'[q] \subseteq kill'
  <2>1. ASSUME NEW r \in Requests, Enter(r) PROVE standing'[q] \subseteq kill'
    BY <2>1 DEF IInv, TypeOK, Switches, Enter
  <2>2. ASSUME NEW row \in KillRows, DisableKill(row) PROVE standing'[q] \subseteq kill'
    BY <2>2 DEF IInv, Switches, DisableKill
  <2>3. ASSUME NEW row \in KillRows, EnableKill(row) PROVE standing'[q] \subseteq kill'
    BY <2>3 DEF IInv, Switches, EnableKill
  <2>4. CASE UNCHANGED <<standing, kill>>
    BY <2>4 DEF IInv, Switches
  <2>5. ASSUME NEW r \in Requests, Step(r) \/ Abort(r)
        PROVE UNCHANGED <<standing, kill>>
    BY <2>5 DEF Step, world, Abort, Lookup, IdempotentReturn, SaveAction, Poll,
       ActionReceived, Scan, Resolve, PolicyEvaluated, PolicyFails,
       PolicyFailureAudited, KillCheck, CapabilityLookup, CapabilityConsume, TokenVerify,
       EvaluatePolicy, BudgetCheck, SpendLimitExceeded, ApprovalCheck,
       ApprovalRequested, Execute, SaveDecision, DecisionMade, SaveResult,
       ResultAudited
  <2>6. ASSUME NEW a \in Requests, NEW v \in {"approved", "rejected"}, Review(a, v)
        PROVE  UNCHANGED <<standing, kill>>
    BY <2>6 DEF Review, world
  <2> QED BY <2>1, <2>2, <2>3, <2>4, <2>5, <2>6 DEF Next, Environment, AllDone,
          LoseCapability, ActivatePolicy, vars, world
<1>2. ASSUME pc[q] # "idle" PROVE \A row \in InForce(q)' : Held(q, row)'
  BY <1>2, InForceShrinks, HeldStep
<1>3. ASSUME pc[q] = "idle" PROVE \A row \in InForce(q)' : Held(q, row)'
  <2>1. pc'[q] \in {"idle", "lookup", "insert"}
    BY <1>3, EnterOnly
  <2>2. /\ q \notin actions'
        /\ pc'[q] \notin Deciding \cup Decided
    BY <2>1, OwnershipStep DEF Ownership, BeforeInsert, Deciding, Decided, KillLabels
  <2>3. decision'[q] = NONE /\ approval'[q] = NONE /\ q \notin ran' /\ q \notin spent'
    BY <2>2, OwnershipStep DEF Ownership
  <2> QED BY <2>1, <2>3, BeyondType DEF Held, Later, KillLabels
<1> QED BY <1>1, <1>2, <1>3

----------------------------------------------------------------------------
(* The empty tables satisfy every part.                                     *)
LEMMA InitIInv == Init => IInv
<1> SUFFICES ASSUME Init PROVE IInv
  OBVIOUS
<1>1. TypeOK
  BY ParamsAssumption, BoundAssumption DEF Init, TypeOK, Labels
<1>2. Ownership /\ UniqueKeys /\ AuditIsBacked
  BY DEF Init, Ownership, UniqueKeys, AuditIsBacked, BeforeInsert, Deciding, Decided, KillLabels
<1>3. Decisions /\ Stages
  BY NullAssumption, RuleNames
  DEF Init, Decisions, Stages, Deciding, Decided, KillLabels, Executed
<1>4. Answers /\ Replays
  BY NullAssumption DEF Init, Answers, Replays
<1>5. Spenders
  BY DEF Init, Spenders
<1>6. Counted
  <2>1. \A c \in Capabilities : SpentWith(c) = {}
    BY DEF Init, SpentWith
  <2> QED BY <2>1, FS_EmptySet, CapabilityAssumption DEF Init, Counted
<1>7. Switches
  BY DEF Init, Switches, InForce
<1> QED BY <1>1, <1>2, <1>3, <1>4, <1>5, <1>6, <1>7 DEF IInv

(* IInv is inductive, and so holds in every reachable state.                *)
THEOREM Invariance == Spec => []IInv
<1>1. IInv /\ [Next]_vars => IInv'
  BY NextType, OwnershipStep, UniqueKeysStep, DecisionsStep, StagesStep,
     AnswersStep, ReplaysStep, AuditIsBackedStep, SpendersStep, CountedStep,
     SwitchesStep
  DEF IInv
<1> QED BY InitIInv, <1>1, PTL DEF Spec

=============================================================================
