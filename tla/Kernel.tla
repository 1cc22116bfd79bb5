------------------------------- MODULE Kernel -------------------------------
(***************************************************************************)
(* Kernel.handle of the Citadel runtime: concurrent requests, each of them *)
(* a coroutine that awaits one database statement after another, over the  *)
(* tables they share.  A step of a request is one such statement together  *)
(* with the local code up to the next await, so every interleaving the     *)
(* event loops of several API processes can produce is a behaviour.        *)
(*                                                                         *)
(* Abstractions.  A request is known by the action_id it was given.        *)
(* (actor_id, idempotency_key) is one value, `key'.  All requests name the *)
(* action, resource and actor that kill-switch rows of those scopes name.  *)
(* The active policy is what its rules do to these requests: "allow",      *)
(* "block", or "review" (some rule asks for an approval).  What the budget *)
(* service, the injection scanner and the token verifier answer is free.   *)
(* Resolve takes the resolver's reads and the INSERT of the snapshot as one *)
(* step: only tenant-scope policies change while requests run, and they    *)
(* are read once.                                                          *)
(***************************************************************************)
EXTENDS Naturals, FiniteSets

CONSTANTS
  Requests,      (* calls of handle, each with its own action_id            *)
  Keys,          (* (actor_id, idempotency_key) pairs                       *)
  Tenants,       (* tenant_id values                                        *)
  Capabilities,  (* rows of the capabilities table                          *)
  CapFit,        (* how a capability fits the requests' action and actor    *)
  MaxUses,       (* its max_uses column                                     *)
  Unknown,       (* an old-style token that names no row of capabilities    *)
  Gov,           (* a governance token (gt_cap_...), kept in another table  *)
  NONE,          (* SQL NULL / Python None                                  *)
  Params,        (* the request parameters an instance submits              *)
  Policies,      (* the policies that may be active in an instance          *)
  KillRows,      (* the kill_switches rows operators may enable             *)
  MaxPolls,      (* polls for the winner's decision; 50 in the code         *)
  Crashes        (* may a request die at an await (crash, lost connection)  *)

PolicyKinds == {"allow", "block", "review"}
KillScopes == {"global", "action", "resource", "actor", "tenant"}

Tokens == Capabilities \cup {Unknown, Gov, NONE}

ParamType == [key : Keys \cup {NONE}, tenant : Tenants \cup {NONE},
              token : Tokens, dry : BOOLEAN]

ASSUME ParamsAssumption ==
  /\ Params \subseteq ParamType
  /\ Policies \subseteq PolicyKinds
  /\ KillRows \subseteq [scope : KillScopes, tenant : Tenants]

ASSUME CapabilityAssumption ==
  /\ CapFit \in [Capabilities -> {"fits", "wrong_scope", "wrong_actor"}]
  /\ MaxUses \in [Capabilities -> Nat \ {0}]

ASSUME BoundAssumption == MaxPolls \in Nat \ {0} /\ Crashes \in BOOLEAN

VARIABLES
  \* locals of each handle() call
  pc,        (* where the call is suspended                                 *)
  req,       (* its parameters                                              *)
  snap,      (* the policy snapshot it resolved                             *)
  rule,      (* the winning rule of the decision it is about to write       *)
  polls,     (* polls that missed                                           *)
  answer,    (* the action whose decision it returns                        *)
  \* tables
  actions,   (* action_ids with a row in actions                            *)
  decision,  (* decisions: the winning_rule recorded for an action          *)
  approval,  (* approvals: the status of an action's approval row           *)
  uses,      (* capabilities.uses                                           *)
  live,      (* capabilities neither revoked nor expired                    *)
  audit,     (* audit_events, as the set of rows (AuditChain has the order) *)
  results,   (* execution_results                                           *)
  policy,    (* the policy that applies to the requests                     *)
  kill,      (* enabled rows of kill_switches                               *)
  \* the governed world, and histories the properties need
  ran,       (* actions whose governed function was invoked                 *)
  spent,     (* requests for which consume_capability succeeded             *)
  standing   (* kill rows enabled ever since the request entered            *)

locals == <<pc, snap, rule, polls, answer>>
tables == <<actions, decision, approval, uses, live, audit, results>>
world == <<policy, kill, ran, spent, standing>>
vars == <<locals, req, tables, world>>

----------------------------------------------------------------------------
(* What the schema accepts. *)

\* decision_status_enum
DecisionStatuses ==
  {"BLOCKED_SCHEMA", "BLOCKED_EMERGENCY", "BLOCKED_CAPABILITY",
   "BLOCKED_POLICY", "RATE_LIMITED", "PENDING_APPROVAL",
   "REJECTED_APPROVAL", "EXPIRED_APPROVAL", "ALLOWED", "EXECUTED",
   "FAILED_EXECUTION", "FAILED_AUDIT"}

\* the CHECK on audit_events.event_type
AuditEventTypes ==
  {"action_received", "policy_evaluated", "kill_switch_checked",
   "capability_checked", "risk_assessed", "approval_requested",
   "approval_granted", "approval_denied", "decision_made",
   "action_executed", "action_failed", "escalation_triggered",
   "kill_switch_activated"}

\* The status each winning rule of handle() is written with.
StatusOf ==
  [prompt_injection_detected |-> "BLOCKED_SCHEMA",
   policy_resolution_failed  |-> "BLOCKED_SCHEMA",
   kill_switch_active        |-> "BLOCKED_EMERGENCY",
   capability_invalid        |-> "BLOCKED_CAPABILITY",
   policy_block              |-> "BLOCKED_POLICY",
   spend_limit_exceeded      |-> "BLOCKED_POLICY",
   approval_required         |-> "PENDING_APPROVAL",
   dry_run                   |-> "DRY_RUN",
   execution_complete        |-> "EXECUTED",
   execution_failed          |-> "FAILED_EXECUTION"]

Rules == DOMAIN StatusOf
Executed == {"execution_complete", "execution_failed"}
ApprovalStatuses == {"pending", "approved", "rejected"}

ASSUME NullAssumption ==
  /\ NONE \notin Keys \cup Tenants \cup Capabilities \cup Requests
  /\ NONE \notin PolicyKinds \cup Rules \cup ApprovalStatuses
  /\ NONE \notin {"done", "withheld"}
  /\ {Unknown, Gov} \cap (Capabilities \cup {NONE}) = {}
  /\ Unknown # Gov

\* The decisions handle() writes without passing its capability_token on.
Tokenless == {"prompt_injection_detected", "policy_resolution_failed",
              "approval_required"}

\* The value of the foreign-key column decisions.capability_token.
StoredToken(r) ==
  IF rule[r] \in Tokenless \/ req[r].token = Gov THEN NONE ELSE req[r].token

\* save_decision's INSERT is accepted: enum, foreign key, unique action_id.
Storable(r) ==
  /\ StatusOf[rule[r]] \in DecisionStatuses
  /\ StoredToken(r) # Unknown
  /\ decision[r] = NONE

----------------------------------------------------------------------------
(* Control. *)

Terminal == {"answered", "conflict", "aborted"}
\* The eight SELECTs of _check_kill_switch: one scope, then any global row.
KillStages == <<"global", "any_1", "action", "any_2",
                "resource", "any_3", "actor", "any_4">>
KillLabels == {"global", "any_1", "action", "any_2",
               "resource", "any_3", "actor", "any_4"}
Labels == {"idle", "lookup", "replay", "insert", "poll", "receive", "scan",
           "resolve", "policy_audit", "policy_failed", "cap_lookup",
           "cap_consume", "cap_verify", "policy", "budget", "budget_audit",
           "approval", "approval_audit", "execute", "decide", "decide_audit",
           "result", "result_audit"} \cup KillLabels \cup Terminal

At(r, label) == pc[r] = label
Goto(r, label) == pc' = [pc EXCEPT ![r] = label]

\* Return from the checks with a decision to write.
Decide(r, w) == Goto(r, "decide") /\ rule' = [rule EXCEPT ![r] = w]

\* save_audit_event: the row, or the CHECK violation that ends the call.
Audit(r, a, type, next) ==
  IF type \in AuditEventTypes
    THEN /\ audit' = audit \cup {[by |-> r, action |-> a, type |-> type]}
         /\ Goto(r, next)
    ELSE Goto(r, "aborted") /\ UNCHANGED audit

----------------------------------------------------------------------------
(* What a request reads.  A definition with an underscore in its name is a  *)
(* mistake the code avoids, seeded to show that some property notices it.   *)

CachedActions_AnyTenant(r) ==
  {a \in actions : req[a].key = req[r].key /\ decision[a] # NONE}

\* The rows find_decision_by_idempotency joins and filters.
CachedActions(r) ==
  {a \in actions : /\ req[a].key = req[r].key
                   /\ req[r].tenant \in {NONE, req[a].tenant}
                   /\ decision[a] # NONE}

KeyTaken_OnceDecided(r) ==
  /\ req[r].key # NONE
  /\ \E a \in actions : req[a].key = req[r].key /\ decision[a] # NONE

\* uq_actions_actor_idempotency: an action row already holds r's key.
KeyTaken(r) ==
  /\ req[r].key # NONE
  /\ \E a \in actions : req[a].key = req[r].key

KillHit_NoFallback(r, stage) ==
  \E row \in kill : row.scope = stage /\ req[r].tenant \in {NONE, row.tenant}

\* check_kill_switch(scope, ., tenant): rows of that scope and tenant; if
\* there is none, a second SELECT for an enabled global row of any tenant.
KillHit(r, stage) ==
  \E row \in kill :
    IF stage \in KillScopes
      THEN row.scope = stage /\ req[r].tenant \in {NONE, row.tenant}
      ELSE row.scope = "global"

Consumable_CheckedEarlier(c) == CapFit[c] # "wrong_actor" /\ c \in live

\* consume_capability's checks under its row lock.
Consumable(c) ==
  /\ CapFit[c] # "wrong_actor"
  /\ c \in live
  /\ uses[c] < MaxUses[c]

----------------------------------------------------------------------------
Init ==
  /\ pc = [r \in Requests |-> "idle"]
  /\ req \in [Requests -> Params]
  /\ snap = [r \in Requests |-> NONE]
  /\ rule = [r \in Requests |-> NONE]
  /\ polls = [r \in Requests |-> 0]
  /\ answer = [r \in Requests |-> NONE]
  /\ actions = {}
  /\ decision = [r \in Requests |-> NONE]
  /\ approval = [r \in Requests |-> NONE]
  /\ uses = [c \in Capabilities |-> 0]
  /\ live = Capabilities
  /\ audit = {}
  /\ results = {}
  /\ policy \in Policies
  /\ kill = {}
  /\ ran = {}
  /\ spent = {}
  /\ standing = [r \in Requests |-> {}]

(* handle() is called; without a key it goes straight to save_action. *)
Enter(r) ==
  /\ At(r, "idle")
  /\ Goto(r, IF req[r].key = NONE THEN "insert" ELSE "lookup")
  /\ standing' = [standing EXCEPT ![r] = kill]
  /\ UNCHANGED <<req, snap, rule, polls, answer, tables, policy, kill, ran, spent>>

(* Step 1: a decision already recorded for the key is returned. *)
Lookup(r) ==
  /\ At(r, "lookup")
  /\ \/ \E a \in CachedActions(r) : answer' = [answer EXCEPT ![r] = a] /\ Goto(r, "replay")
     \/ CachedActions(r) = {} /\ Goto(r, "insert") /\ UNCHANGED answer
  /\ UNCHANGED <<req, snap, rule, polls, tables, world>>

IdempotentReturn(r) ==
  /\ At(r, "replay")
  /\ Audit(r, answer[r], "action_received", "answered")
  /\ UNCHANGED <<req, snap, rule, polls, answer, actions, decision, approval,
                 uses, live, results, world>>

(* Step 2: INSERT ... ON CONFLICT DO NOTHING. *)
SaveAction(r) ==
  /\ At(r, "insert")
  /\ IF KeyTaken(r)
       THEN Goto(r, "poll") /\ UNCHANGED actions
       ELSE Goto(r, "receive") /\ actions' = actions \cup {r}
  /\ UNCHANGED <<req, snap, rule, polls, answer, decision, approval, uses,
                 live, audit, results, world>>

PollsLeft_OffByOne(r) == polls[r] <= MaxPolls

\* for _ in range(50)
PollsLeft(r) == polls[r] < MaxPolls

PollForever(r) ==
  /\ At(r, "poll")
  /\ \E a \in CachedActions(r) : answer' = [answer EXCEPT ![r] = a]
  /\ Goto(r, "replay")
  /\ UNCHANGED <<req, snap, rule, polls, tables, world>>

(* The loser of the insert polls for the winner's decision, and gives up *)
(* after MaxPolls misses.                                                *)
Poll(r) ==
  /\ At(r, "poll")
  /\ \/ /\ PollsLeft(r)
        /\ \E a \in CachedActions(r) : answer' = [answer EXCEPT ![r] = a]
        /\ Goto(r, "replay")
        /\ UNCHANGED polls
     \/ /\ PollsLeft(r)
        /\ CachedActions(r) = {}
        /\ polls' = [polls EXCEPT ![r] = @ + 1]
        /\ UNCHANGED <<pc, answer>>
     \/ ~PollsLeft(r) /\ Goto(r, "conflict") /\ UNCHANGED <<polls, answer>>
  /\ UNCHANGED <<req, snap, rule, tables, world>>

ActionReceived(r) ==
  /\ At(r, "receive")
  /\ Audit(r, r, "action_received", "scan")
  /\ UNCHANGED <<req, snap, rule, polls, answer, actions, decision, approval,
                 uses, live, results, world>>

(* Step 2.5: the injection detector's verdict on the payload is free. *)
Scan(r) ==
  /\ At(r, "scan")
  /\ \/ Goto(r, "resolve") /\ UNCHANGED rule
     \/ Decide(r, "prompt_injection_detected")
  /\ UNCHANGED <<req, snap, polls, answer, tables, world>>

(* Step 3: the snapshot fixes the policy for the rest of the call.  A caught *)
(* error of resolve() or of its audit row ends in a BLOCKED_SCHEMA decision. *)
Resolve(r) ==
  /\ At(r, "resolve")
  /\ snap' = [snap EXCEPT ![r] = policy]
  /\ Goto(r, "policy_audit")
  /\ UNCHANGED <<req, rule, polls, answer, tables, world>>

PolicyEvaluated(r) ==
  /\ At(r, "policy_audit")
  /\ Audit(r, r, "policy_evaluated", KillStages[1])
  /\ UNCHANGED <<req, snap, rule, polls, answer, actions, decision, approval,
                 uses, live, results, world>>

PolicyFails(r) ==
  /\ pc[r] \in {"resolve", "policy_audit"}
  /\ Goto(r, "policy_failed")
  /\ UNCHANGED <<req, snap, rule, polls, answer, tables, world>>

PolicyFailureAudited(r) ==
  /\ At(r, "policy_failed")
  /\ audit' = audit \cup {[by |-> r, action |-> r, type |-> "action_failed"]}
  /\ Decide(r, "policy_resolution_failed")
  /\ UNCHANGED <<req, snap, polls, answer, actions, decision, approval, uses,
                 live, results, world>>

(* Step 4: Precedence.evaluate.  Kill-switch lookups, scope by scope. *)
AfterKill(r) ==
  CASE req[r].token = NONE -> "policy"
    [] req[r].token = Gov -> "cap_verify"
    [] OTHER -> "cap_lookup"

KillCheck(r) ==
  \E i \in DOMAIN KillStages :
    /\ At(r, KillStages[i])
    /\ IF KillHit(r, KillStages[i])
         THEN Decide(r, "kill_switch_active")
         ELSE /\ Goto(r, IF i < 8 THEN KillStages[i + 1] ELSE AfterKill(r))
              /\ UNCHANGED rule
    /\ UNCHANGED <<req, snap, polls, answer, tables, world>>

(* get_capability, then the scope match. *)
CapabilityLookup(r) ==
  /\ At(r, "cap_lookup")
  /\ IF req[r].token \in Capabilities /\ CapFit[req[r].token] # "wrong_scope"
       THEN Goto(r, "cap_consume") /\ UNCHANGED rule
       ELSE Decide(r, "capability_invalid")
  /\ UNCHANGED <<req, snap, polls, answer, tables, world>>

(* consume_capability(): check and increment under FOR UPDATE. *)
CapabilityConsume(r) ==
  LET c == req[r].token IN
  /\ At(r, "cap_consume")
  /\ IF Consumable(c)
       THEN /\ uses' = [uses EXCEPT ![c] = @ + 1]
            /\ spent' = spent \cup {r}
            /\ Goto(r, "policy")
            /\ UNCHANGED rule
       ELSE /\ Decide(r, "capability_invalid")
            /\ UNCHANGED <<uses, spent>>
  /\ UNCHANGED <<req, snap, polls, answer, actions, decision, approval, live,
                 audit, results, policy, kill, ran, standing>>

(* A governance token goes to the token verifier, whose verdict is free. *)
TokenVerify(r) ==
  /\ At(r, "cap_verify")
  /\ \/ Goto(r, "policy") /\ UNCHANGED rule
     \/ Decide(r, "capability_invalid")
  /\ UNCHANGED <<req, snap, polls, answer, tables, world>>

(* PolicyEvaluator on the snapshot: only BLOCK stops the request here. *)
EvaluatePolicy(r) ==
  /\ At(r, "policy")
  /\ IF snap[r] = "block"
       THEN Decide(r, "policy_block")
       ELSE /\ Goto(r, IF req[r].tenant = NONE THEN "approval" ELSE "budget")
            /\ UNCHANGED rule
  /\ UNCHANGED <<req, snap, polls, answer, tables, world>>

(* Step 4.5: within budget, exceeded with a softer enforcement, or a failed *)
(* check all let the request through; an exceeded `block' budget does not.  *)
BudgetCheck(r) ==
  /\ At(r, "budget")
  /\ \/ Goto(r, "approval")
     \/ Goto(r, "budget_audit")
  /\ UNCHANGED <<req, snap, rule, polls, answer, tables, world>>

(* The budget block is audited before its decision is written. *)
SpendLimitExceeded(r) ==
  /\ At(r, "budget_audit")
  /\ rule' = [rule EXCEPT ![r] = "spend_limit_exceeded"]
  /\ Audit(r, r, "spend_limit_exceeded", "decide")
  /\ UNCHANGED <<req, snap, polls, answer, actions, decision, approval, uses,
                 live, results, world>>

(* Steps 5 and 5.5: approval required, then dry run. *)
NeedsApproval_Reread(r) == policy = "review"

NeedsApproval(r) == snap[r] = "review"

ApprovalCheck(r) ==
  /\ At(r, "approval")
  /\ IF NeedsApproval(r)
       THEN /\ approval' = [approval EXCEPT ![r] = "pending"]
            /\ Goto(r, "approval_audit")
            /\ UNCHANGED rule
       ELSE /\ IF req[r].dry
                 THEN Decide(r, "dry_run")
                 ELSE Goto(r, "execute") /\ UNCHANGED rule
            /\ UNCHANGED approval
  /\ UNCHANGED <<req, snap, polls, answer, actions, decision, uses, live,
                 audit, results, world>>

ApprovalRequested(r) ==
  /\ At(r, "approval_audit")
  /\ audit' = audit \cup {[by |-> r, action |-> r, type |-> "approval_requested"]}
  /\ Decide(r, "approval_required")
  /\ UNCHANGED <<req, snap, polls, answer, actions, decision, approval, uses,
                 live, results, world>>

(* Step 6: the governed function runs, and returns, raises an exception the *)
(* kernel catches, or raises one it does not.                               *)
Execute(r) ==
  /\ At(r, "execute")
  /\ ran' = ran \cup {r}
  /\ \/ \E w \in Executed : Decide(r, w)
     \/ Crashes /\ Goto(r, "aborted") /\ UNCHANGED rule
  /\ UNCHANGED <<req, snap, polls, answer, tables, policy, kill, spent, standing>>

SaveDecision_Swallowed(r) ==
  /\ At(r, "decide")
  /\ Goto(r, "decide_audit")
  /\ IF Storable(r) THEN decision' = [decision EXCEPT ![r] = rule[r]]
                    ELSE UNCHANGED decision
  /\ UNCHANGED <<req, snap, rule, polls, answer, actions, approval, uses,
                 live, audit, results, world>>

(* _terminal_decision: save_decision, then the decision_made event.  An *)
(* INSERT the schema refuses raises, and nothing in handle() catches it. *)
SaveDecision(r) ==
  /\ At(r, "decide")
  /\ IF Storable(r)
       THEN decision' = [decision EXCEPT ![r] = rule[r]] /\ Goto(r, "decide_audit")
       ELSE Goto(r, "aborted") /\ UNCHANGED decision
  /\ UNCHANGED <<req, snap, rule, polls, answer, actions, approval, uses,
                 live, audit, results, world>>

AfterDecision_NoResult(r) ==
  IF rule[r] \in Executed \cup {"prompt_injection_detected"} THEN "result_audit"
                                                           ELSE "answered"

AfterDecision(r) ==
  CASE rule[r] \in Executed -> "result"
    [] rule[r] = "prompt_injection_detected" -> "result_audit"
    [] OTHER -> "answered"

DecisionMade(r) ==
  /\ At(r, "decide_audit")
  /\ answer' = [answer EXCEPT ![r] = r]
  /\ Audit(r, r, "decision_made", AfterDecision(r))
  /\ UNCHANGED <<req, snap, rule, polls, actions, decision, approval, uses,
                 live, results, world>>

(* Step 8, and the action_failed event of a rejected payload. *)
SaveResult(r) ==
  /\ At(r, "result")
  /\ results' = results \cup {r}
  /\ Goto(r, "result_audit")
  /\ UNCHANGED <<req, snap, rule, polls, answer, actions, decision, approval,
                 uses, live, audit, world>>

ResultAudited(r) ==
  /\ At(r, "result_audit")
  /\ Audit(r, r, IF rule[r] = "execution_complete" THEN "action_executed"
                                                   ELSE "action_failed",
           "answered")
  /\ UNCHANGED <<req, snap, rule, polls, answer, actions, decision, approval,
                 uses, live, results, world>>

----------------------------------------------------------------------------
(* The environment. *)

(* The process dies, the client disconnects, or a statement raises an *)
(* exception handle() does not catch.                                 *)
Abort(r) ==
  /\ Crashes
  /\ pc[r] \notin Terminal \cup {"idle"}
  /\ Goto(r, "aborted")
  /\ UNCHANGED <<req, snap, rule, polls, answer, tables, world>>

(* An operator approves or rejects a pending approval. *)
Review(a, verdict) ==
  /\ approval[a] = "pending"
  /\ approval' = [approval EXCEPT ![a] = verdict]
  /\ UNCHANGED <<locals, req, actions, decision, uses, live, audit, results, world>>

(* A capability is revoked or its expires_at passes. *)
LoseCapability(c) ==
  /\ c \in live
  /\ live' = live \ {c}
  /\ UNCHANGED <<locals, req, actions, decision, approval, uses, audit, results, world>>

(* A new policy version is activated. *)
ActivatePolicy(p) ==
  /\ p # policy
  /\ policy' = p
  /\ UNCHANGED <<locals, req, tables, kill, ran, spent, standing>>

(* Operators enable and disable kill-switch rows. *)
EnableKill(row) ==
  /\ row \notin kill
  /\ kill' = kill \cup {row}
  /\ UNCHANGED <<locals, req, tables, policy, ran, spent, standing>>

DisableKill(row) ==
  /\ row \in kill
  /\ kill' = kill \ {row}
  /\ standing' = [r \in Requests |-> standing[r] \ {row}]
  /\ UNCHANGED <<locals, req, tables, policy, ran, spent>>

Step(r) ==
  \/ Lookup(r) \/ IdempotentReturn(r) \/ SaveAction(r) \/ Poll(r)
  \/ ActionReceived(r) \/ Scan(r)
  \/ Resolve(r) \/ PolicyEvaluated(r) \/ PolicyFails(r) \/ PolicyFailureAudited(r)
  \/ KillCheck(r) \/ CapabilityLookup(r) \/ CapabilityConsume(r) \/ TokenVerify(r)
  \/ EvaluatePolicy(r) \/ BudgetCheck(r) \/ SpendLimitExceeded(r)
  \/ ApprovalCheck(r) \/ ApprovalRequested(r)
  \/ Execute(r) \/ SaveDecision(r) \/ DecisionMade(r)
  \/ SaveResult(r) \/ ResultAudited(r)

Environment ==
  \/ \E a \in Requests, v \in {"approved", "rejected"} : Review(a, v)
  \/ \E c \in Capabilities : LoseCapability(c)
  \/ \E p \in Policies : ActivatePolicy(p)
  \/ \E row \in KillRows : EnableKill(row) \/ DisableKill(row)

(* Every request has been answered or has failed. *)
AllDone ==
  /\ \A r \in Requests : pc[r] \in Terminal
  /\ UNCHANGED vars

Next ==
  \/ \E r \in Requests : Enter(r) \/ Step(r) \/ Abort(r)
  \/ Environment
  \/ AllDone

Spec == Init /\ [][Next]_vars

(* The event loop resumes every suspended call and every statement returns. *)
FairSpec == Spec /\ \A r \in Requests : WF_vars(Step(r))

----------------------------------------------------------------------------
(* Properties. *)

TypeOK ==
  /\ pc \in [Requests -> Labels]
  /\ req \in [Requests -> Params]
  /\ snap \in [Requests -> PolicyKinds \cup {NONE}]
  /\ rule \in [Requests -> Rules \cup {NONE}]
  /\ polls \in [Requests -> 0..MaxPolls]
  /\ answer \in [Requests -> Requests \cup {NONE}]
  /\ actions \subseteq Requests
  /\ decision \in [Requests -> Rules \cup {NONE}]
  /\ approval \in [Requests -> ApprovalStatuses \cup {NONE}]
  /\ uses \in [Capabilities -> Nat]
  /\ live \subseteq Capabilities
  /\ audit \subseteq [by : Requests, action : Requests, type : AuditEventTypes]
  /\ results \subseteq Requests
  /\ policy \in PolicyKinds
  /\ kill \subseteq KillRows
  /\ ran \subseteq Requests
  /\ spent \subseteq Requests
  /\ standing \in [Requests -> SUBSET KillRows]

SameKey(r, q) == req[r].key # NONE /\ req[r].key = req[q].key

(* KERNEL_GUARANTEES 3: however duplicates interleave, crash and retry, the *)
(* governed function is invoked for at most one submission of an            *)
(* (actor_id, idempotency_key) (kernel.py:76-117 over uq_actions_actor_      *)
(* idempotency).                                                            *)
AtMostOneExecution ==
  \A r, q \in ran : SameKey(r, q) => r = q

(* A request answered from another action's decision left no action row of  *)
(* its own and did nothing: it repeats the recorded decision of the same    *)
(* key and never shows one tenant the decision of another                   *)
(* (repository.py:123-142).                                                 *)
ReplayIsFaithful ==
  \A r \in Requests : answer[r] \notin {NONE, r} =>
    /\ SameKey(r, answer[r])
    /\ req[r].tenant \in {NONE, req[answer[r]].tenant}
    /\ decision[answer[r]] # NONE
    /\ r \notin actions \cup ran \cup spent
    /\ approval[r] = NONE

(* KERNEL_GUARANTEES 6: the uses counted are exactly the requests that      *)
(* passed on the token, never more than max_uses, and a request that        *)
(* presented an old-style token ran only on a use it consumed               *)
(* (precedence.py:207-233, schema.sql:805-855).                             *)
CapabilityAccounting ==
  /\ \A c \in Capabilities :
       /\ uses[c] = Cardinality({r \in spent : req[r].token = c})
       /\ uses[c] <= MaxUses[c]
  /\ \A r \in ran : req[r].token \in Capabilities \cup {Unknown} => r \in spent

(* The rows _check_kill_switch can find for a request. *)
InForce(r) ==
  {row \in standing[r] :
     \/ row.scope = "global"
     \/ /\ row.scope \in {"action", "resource", "actor"}
        /\ req[r].tenant \in {NONE, row.tenant}}

(* KERNEL_GUARANTEES 1: nothing bypasses a kill switch.  If a row stayed     *)
(* enabled from the moment the request entered, no later stage acts for the *)
(* request: no capability use is spent, no approval is opened, nothing runs, *)
(* no later stage decides it (precedence.py:84-93, 145-179).                *)
KillSwitchFirst ==
  \A r \in Requests : InForce(r) # {} =>
    /\ r \notin ran \cup spent
    /\ approval[r] = NONE
    /\ decision[r] \in {NONE, "kill_switch_active", "prompt_injection_detected",
                        "policy_resolution_failed"}

(* KERNEL_GUARANTEES 1: what ran passed every stage on its own snapshot,    *)
(* and an action waiting for, or refused by, a reviewer never runs          *)
(* (kernel.py:192-223).                                                     *)
NoStageBypassed ==
  \A r \in ran :
    /\ r \in actions
    /\ snap[r] = "allow"
    /\ ~req[r].dry
    /\ req[r].token # Unknown
    /\ approval[r] = NONE
    /\ decision[r] \in Executed \cup {NONE}

(* KERNEL_GUARANTEES 4 and `fails closed': each audit row is backed by what *)
(* it reports, at every moment and after any crash; no action is reported   *)
(* decided, executed or pending before the table that says so holds the row *)
(* (kernel.py:244-252, 292-326).                                            *)
AuditIsBacked ==
  \A e \in audit :
    /\ e.action \in actions
    /\ e.type = "decision_made" => decision[e.action] # NONE
    /\ e.type = "action_executed" =>
         /\ decision[e.action] = "execution_complete"
         /\ e.action \in ran \cap results
    /\ e.type = "approval_requested" => approval[e.action] # NONE
    /\ e.by # e.action =>
         e.type = "action_received" /\ decision[e.action] # NONE

(* What the caller is told is what the tables hold: an answer of its own    *)
(* has a recorded decision, an EXECUTED decision a run, and an answered     *)
(* execution its result row (kernel.py:236-260).                            *)
AnswerIsDurable ==
  \A r \in Requests :
    /\ answer[r] = r => decision[r] = rule[r] /\ r \in actions
    /\ decision[r] \in Executed => r \in ran
    /\ pc[r] = "answered" /\ answer[r] = r /\ r \in ran => r \in results

(* Every call that entered returns or fails: a duplicate of a request that  *)
(* died never waits for it forever (kernel.py:98-117).                      *)
EveryCallReturns ==
  \A r \in Requests : pc[r] # "idle" ~> pc[r] \in Terminal

(* The kernel implements Ledger: actions are accepted submissions, an        *)
(* invocation of the governed function is the effect, a decision row the    *)
(* verdict.                                                                 *)
KeyOf == [r \in Requests |-> req[r].key]
Verdict ==
  [r \in Requests |-> IF decision[r] = NONE THEN NONE
                      ELSE IF decision[r] \in Executed THEN "done" ELSE "withheld"]

L == INSTANCE Ledger WITH key <- KeyOf, accepted <- actions, effects <- ran,
                          verdict <- Verdict, told <- answer

(* Every step of the kernel, crashes and races included, is a step of the   *)
(* ledger or invisible to it: one acceptance per key, an effect only before *)
(* the decision, `done' only with an effect, answers only from decisions    *)
(* (kernel.py:64-260 as a whole).                                           *)
ImplementsLedger == L!Spec

(* KERNEL_GUARANTEES 2 says every action reaches one terminal state: when   *)
(* the call that inserted the action is over, its decision is recorded.     *)
TerminalDecision ==
  \A r \in actions : pc[r] \in Terminal => decision[r] # NONE

=============================================================================
