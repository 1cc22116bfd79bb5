---------------------------- MODULE CostControls ----------------------------
(***************************************************************************)
(* CostControlService: pre-request budget checks by the kernel, spend      *)
(* recorded after the call, and executive top-ups.  A check is a SELECT of *)
(* the budgets that match the call, one SELECT of the current spend per    *)
(* budget, the evaluation and the INSERT of the enforcement event; other   *)
(* callers spend, executives top up and a new period starts in between.    *)
(*                                                                         *)
(* Abstractions.  cost_spend_events is kept as the sum the SELECT of       *)
(* _current_spend returns for each budget.  A call costs what it projected.*)
(* Enforcement events are written for people and read by no operation.     *)
(***************************************************************************)
EXTENDS Integers, FiniteSets

CONSTANTS
  Callers,    (* requests in flight, one after the other from each caller   *)
  Executives, (* top-up requests                                            *)
  Budgets,    (* budget_id values                                           *)
  Priority,   (* SCOPE_PRIORITY of a budget: api_key 4 ... tenant 1         *)
  Enforces,   (* enforcement_action of a budget                             *)
  Limit,      (* amount_cents a budget is created with                      *)
  Matches,    (* the budgets whose scope value a caller's attribution has   *)
  Costs,      (* projected_cost_cents of a call                             *)
  TopUps,     (* amount_cents of a top-up                                   *)
  RlsModes,   (* whether the database role is subject to row-level security *)
  MaxCalls,   (* bound: checks begun                                        *)
  NONE        (* nobody, nothing                                            *)

Actions == {"block", "require_approval", "throttle"}

\* Rows of cost_budget_adjustments.
Adjustments == [budget : Budgets, previous : Nat, resulting : Nat]

ASSUME BudgetAssumption ==
  /\ Priority \in [Budgets -> 1..4]
  /\ Enforces \in [Budgets -> Actions]
  /\ Limit \in [Budgets -> Nat \ {0}]
  /\ IsFiniteSet(Callers)
  /\ Matches \in [Callers -> SUBSET Budgets]

ASSUME AmountAssumption ==
  /\ Costs \subseteq Nat
  /\ TopUps \subseteq Nat \ {0}
  /\ RlsModes \subseteq BOOLEAN
  /\ MaxCalls \in Nat
  /\ NONE \notin Executives \cup Actions \cup {"allow"}
  /\ NONE \notin Adjustments

VARIABLES
  amount,    (* amount_cents of cost_budgets; 0: the row does not exist yet *)
  spent,     (* sum of cost_spend_events a budget covers in its period      *)
  unchecked, (* history: the part of spent no allowing check of the budget
                preceded                                                    *)
  pc,        (* the statement a caller is at                                *)
  cost,      (* its projected cost                                          *)
  shown,     (* the amounts _matching_budgets returned to it                *)
  seen,      (* the spends it has read                                      *)
  verdict,   (* its BudgetDecision, NONE where the check failed             *)
  tpc,       (* where a top-up is                                           *)
  target,    (* its budget                                                  *)
  read,      (* previous_amount it read                                     *)
  owner,     (* who holds the row lock of a budget                          *)
  adjusted,  (* the row a top-up inserted into cost_budget_adjustments      *)
  calls,     (* checks begun                                                *)
  rls        (* does row-level security apply to the role                   *)

ledger == <<amount, spent, unchecked>>
checks == <<pc, cost, shown, seen, verdict, calls>>
topups == <<tpc, target, read, owner, adjusted>>
vars == <<ledger, checks, topups, rls>>

NoBudgets == [b \in {} |-> 0]

Init ==
  /\ \E S \in SUBSET Budgets : amount = [b \in Budgets |-> IF b \in S THEN Limit[b] ELSE 0]
  /\ spent = [b \in Budgets |-> 0]
  /\ unchecked = [b \in Budgets |-> 0]
  /\ pc = [c \in Callers |-> "idle"]
  /\ cost = [c \in Callers |-> 0]
  /\ shown = [c \in Callers |-> NoBudgets]
  /\ seen = [c \in Callers |-> NoBudgets]
  /\ verdict = [c \in Callers |-> NONE]
  /\ tpc = [x \in Executives |-> "idle"]
  /\ target = [x \in Executives |-> NONE]
  /\ read = [x \in Executives |-> 0]
  /\ owner = [b \in Budgets |-> NONE]
  /\ adjusted = [x \in Executives |-> NONE]
  /\ calls = 0
  /\ rls \in RlsModes

----------------------------------------------------------------------------
(* Budgets. *)

(* create_budget.  What was spent in the period before counts.             *)
CreateBudget(b) ==
  /\ amount[b] = 0
  /\ amount' = [amount EXCEPT ![b] = Limit[b]]
  /\ UNCHANGED <<spent, unchecked, checks, topups, rls>>

(* current_period_window moves on: earlier events no longer count.  A day  *)
(* may end without the month, and a week without either; that the month    *)
(* takes the day with it is left out.                                      *)
NewPeriod(b) ==
  /\ spent[b] > 0
  /\ spent' = [spent EXCEPT ![b] = 0]
  /\ unchecked' = [unchecked EXCEPT ![b] = 0]
  /\ UNCHANGED <<amount, checks, topups, rls>>

----------------------------------------------------------------------------
(* A check, as Kernel._check_spend_budget makes it.                        *)

Begin(c) ==
  /\ pc[c] = "idle" /\ calls < MaxCalls
  /\ \E p \in Costs : cost' = [cost EXCEPT ![c] = p]
  /\ pc' = [pc EXCEPT ![c] = "select"]
  /\ calls' = calls + 1
  /\ UNCHANGED <<ledger, shown, seen, verdict, topups, rls>>

\* The call is over and its locals are gone.
Return(c) ==
  /\ pc' = [pc EXCEPT ![c] = "idle"]
  /\ cost' = [cost EXCEPT ![c] = 0]
  /\ shown' = [shown EXCEPT ![c] = NoBudgets]
  /\ seen' = [seen EXCEPT ![c] = NoBudgets]
  /\ verdict' = [verdict EXCEPT ![c] = NONE]

Matching_AnyScope(c) == {b \in Budgets : amount[b] > 0}

\* The tenant set by the statement before is gone when _matching_budgets
\* reads: under row-level security it finds nothing.
Matching(c) == IF rls THEN {} ELSE {b \in Matches[c] : amount[b] > 0}

(* _matching_budgets.  No budget, no check and no enforcement event.       *)
Select(c) ==
  /\ pc[c] = "select"
  /\ shown' = [shown EXCEPT ![c] = [b \in Matching(c) |-> amount[b]]]
  /\ IF Matching(c) = {}
       THEN /\ verdict' = [verdict EXCEPT ![c] = "allow"]
            /\ pc' = [pc EXCEPT ![c] = "run"]
       ELSE /\ pc' = [pc EXCEPT ![c] = "read"]
            /\ UNCHANGED verdict
  /\ UNCHANGED <<ledger, cost, seen, calls, topups, rls>>

\* The budgets of S that SCOPE_PRIORITY puts first.
MostSpecific(S) == {b \in S : \A d \in S : Priority[d] <= Priority[b]}

(* _current_spend of the next budget.                                      *)
ReadSpend(c) ==
  /\ pc[c] = "read"
  /\ LET todo == DOMAIN shown[c] \ DOMAIN seen[c] IN
     \E b \in MostSpecific(todo) :
       /\ seen' = [seen EXCEPT ![c] = [d \in DOMAIN seen[c] \cup {b} |->
                                        IF d = b THEN spent[b] ELSE seen[c][d]]]
       /\ pc' = [pc EXCEPT ![c] = IF todo = {b} THEN "evaluate" ELSE "read"]
  /\ UNCHANGED <<ledger, cost, shown, verdict, calls, topups, rls>>

Exceeded_AtLimit(c) == {b \in DOMAIN seen[c] : seen[c][b] > shown[c][b]}

\* The budgets that cost[c] would exceed.
Exceeded(c) == {b \in DOMAIN seen[c] : seen[c][b] + cost[c] > shown[c][b]}

\* evaluate_budget_set: the first exceeded budget decides.
Decisions(c) == IF Exceeded(c) = {} THEN {"allow"}
                ELSE {Enforces[b] : b \in MostSpecific(Exceeded(c))}

(* The decision and record_enforcement; the kernel stops the call only if  *)
(* the decision is to block.                                               *)
Evaluate(c) ==
  /\ pc[c] = "evaluate"
  /\ \E d \in Decisions(c) :
       \/ /\ d = "block"
          /\ Return(c)
       \/ /\ d # "block"
          /\ verdict' = [verdict EXCEPT ![c] = d]
          /\ pc' = [pc EXCEPT ![c] = "run"]
          /\ UNCHANGED <<cost, shown, seen>>
  /\ UNCHANGED <<ledger, calls, topups, rls>>

(* ConnectionError or TimeoutError: "Fail open on infrastructure errors".  *)
CheckFails(c) ==
  /\ pc[c] \in {"select", "read", "evaluate"}
  /\ pc' = [pc EXCEPT ![c] = "run"]
  /\ UNCHANGED <<ledger, cost, shown, seen, verdict, calls, topups, rls>>

(* Any other exception leaves handle; or the call runs and fails, or its   *)
(* cost is never reported.                                                 *)
Abandon(c) ==
  /\ pc[c] # "idle"
  /\ Return(c)
  /\ UNCHANGED <<ledger, calls, topups, rls>>

(* record_spend: one event, which every budget of its labels covers.       *)
RecordSpend(c) ==
  /\ pc[c] = "run"
  /\ spent' = [b \in Budgets |-> IF b \in Matches[c] THEN spent[b] + cost[c] ELSE spent[b]]
  /\ unchecked' =
       [b \in Budgets |->
          IF b \in Matches[c] /\ ~(verdict[c] = "allow" /\ b \in DOMAIN seen[c])
          THEN unchecked[b] + cost[c] ELSE unchecked[b]]
  /\ Return(c)
  /\ UNCHANGED <<amount, calls, topups, rls>>

----------------------------------------------------------------------------
(* top_up_tenant_budget, one transaction.                                  *)

RowFree_NoLock(b) == TRUE

\* FOR UPDATE waits for the transaction that holds the row.
RowFree(b) == owner[b] = NONE

(* SELECT ... FOR UPDATE; only tenant-scope budgets can be topped up.      *)
LockBudget(x, b) ==
  /\ tpc[x] = "idle"
  /\ amount[b] > 0 /\ Priority[b] = 1
  /\ RowFree(b)
  /\ owner' = [owner EXCEPT ![b] = x]
  /\ target' = [target EXCEPT ![x] = b]
  /\ read' = [read EXCEPT ![x] = amount[b]]
  /\ tpc' = [tpc EXCEPT ![x] = "locked"]
  /\ UNCHANGED <<ledger, checks, adjusted, rls>>

(* UPDATE, the adjustment, its audit event, COMMIT.                        *)
CommitTopUp(x) ==
  /\ tpc[x] = "locked"
  /\ \E a \in TopUps :
       /\ amount' = [amount EXCEPT ![target[x]] = read[x] + a]
       /\ adjusted' = [adjusted EXCEPT ![x] = [budget |-> target[x], previous |-> read[x],
                                               resulting |-> read[x] + a]]
  /\ owner' = [owner EXCEPT ![target[x]] = NONE]
  /\ tpc' = [tpc EXCEPT ![x] = "done"]
  /\ UNCHANGED <<spent, unchecked, checks, target, read, rls>>

(* A statement is refused or the connection lost: nothing happened.        *)
RollbackTopUp(x) ==
  /\ tpc[x] = "locked"
  /\ owner' = [owner EXCEPT ![target[x]] = NONE]
  /\ tpc' = [tpc EXCEPT ![x] = "done"]
  /\ UNCHANGED <<ledger, checks, target, read, adjusted, rls>>

Next ==
  \/ \E b \in Budgets : CreateBudget(b) \/ NewPeriod(b)
  \/ \E c \in Callers : \/ Begin(c) \/ Select(c) \/ ReadSpend(c) \/ Evaluate(c)
                        \/ CheckFails(c) \/ Abandon(c) \/ RecordSpend(c)
  \/ \E x \in Executives : \/ \E b \in Budgets : LockBudget(x, b)
                           \/ CommitTopUp(x) \/ RollbackTopUp(x)

Spec == Init /\ [][Next]_vars

----------------------------------------------------------------------------
(* Properties. *)

TopUpType ==
  /\ amount \in [Budgets -> Nat]
  /\ tpc \in [Executives -> {"idle", "locked", "done"}]
  /\ target \in [Executives -> Budgets \cup {NONE}]
  /\ read \in [Executives -> Nat]
  /\ owner \in [Budgets -> Executives \cup {NONE}]
  /\ adjusted \in [Executives -> Adjustments \cup {NONE}]

IsReading(f) == DOMAIN f \subseteq Budgets /\ f \in [DOMAIN f -> Nat]

CheckType ==
  /\ spent \in [Budgets -> Nat]
  /\ unchecked \in [Budgets -> Nat]
  /\ pc \in [Callers -> {"idle", "select", "read", "evaluate", "run"}]
  /\ cost \in [Callers -> Costs \cup {0}]
  /\ DOMAIN shown = Callers /\ DOMAIN seen = Callers
  /\ \A c \in Callers : /\ IsReading(shown[c]) /\ IsReading(seen[c])
                        /\ DOMAIN seen[c] \subseteq DOMAIN shown[c]
                        /\ DOMAIN shown[c] \subseteq Matches[c]
                        /\ pc[c] = "evaluate" => DOMAIN seen[c] = DOMAIN shown[c]
  /\ verdict \in [Callers -> Actions \cup {"allow", NONE}]
  /\ calls \in 0..MaxCalls
  /\ rls \in BOOLEAN

(* Every variable holds what its column or local can hold: amounts and     *)
(* spends are never negative, a caller is shown only budgets its labels    *)
(* match, and has a spend only for those (spend_by_budget_id of            *)
(* check_budget).                                                          *)
TypeOK == TopUpType /\ CheckType

\* How many callers can have a passed check of b in hand at once.
Rivals(b) == Cardinality({c \in Callers : b \in Matches[c]})

(* check_budget and record_spend are separate, so a budget that blocks can *)
(* be overrun; this is by how much.  Whatever checks, records, top-ups and *)
(* period changes interleave, what the calls that passed a check of it     *)
(* have spent exceeds its amount by at most one call of every other        *)
(* caller: each caller's next check sees what it recorded before.  What no *)
(* passed check of the budget preceded comes on top of it.                 *)
Overrun ==
  \A b \in Budgets, m \in Costs :
    Rivals(b) > 0 /\ (\A p \in Costs : p <= m)
      => spent[b] <= amount[b] + unchecked[b] + (Rivals(b) - 1) * m

Adjusted(b) == {x \in Executives : adjusted[x] # NONE /\ adjusted[x].budget = b}

(* top_up_tenant_budget reads the amount, adds to it in Python and writes  *)
(* it back.  No concurrent top-up is lost: the adjustments of a budget     *)
(* form one chain from the amount it was created with to the amount it     *)
(* has, so that the audited history explains cost_budgets.amount_cents.    *)
TopUpsChain ==
  \A b \in Budgets :
    /\ \A x, y \in Adjusted(b) :
         adjusted[x].previous = adjusted[y].previous => x = y
    /\ \A x \in Adjusted(b) :
         /\ adjusted[x].previous < adjusted[x].resulting
         /\ adjusted[x].resulting <= amount[b]
         /\ \/ adjusted[x].previous = Limit[b]
            \/ \E y \in Adjusted(b) : adjusted[y].resulting = adjusted[x].previous
    /\ \/ amount[b] \in {0, Limit[b]}
       \/ \E x \in Adjusted(b) : adjusted[x].resulting = amount[b]

(* "Any exceeded budget can enforce." (evaluate_budget_set) and "BLOCK     *)
(* before any LLM/API call if a budget is exceeded" (Kernel.handle): no    *)
(* call goes ahead after a completed check in which a blocking budget was  *)
(* exceeded.                                                               *)
ExceededBlocks ==
  \A c \in Callers :
    pc[c] = "run" /\ verdict[c] # NONE => \A b \in Exceeded(c) : Enforces[b] # "block"
=============================================================================
