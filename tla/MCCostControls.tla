--------------------------- MODULE MCCostControls ---------------------------
(* CostControls for TLC: an agent budget and a tenant budget over it.  Two *)
(* agents of the tenant, the first with a budget of its own.               *)
EXTENDS CostControls

CONSTANTS c1, c2, agent, tenant

ScopePriority == [b \in Budgets |-> IF b = agent THEN 3 ELSE 1]
AgentThrottles == [b \in Budgets |-> IF b = agent THEN "throttle" ELSE "block"]
AllBlock == [b \in Budgets |-> "block"]
Limits == [b \in Budgets |-> 2]
Scopes == [c \in Callers |-> IF c = c1 THEN Budgets ELSE Budgets \ {agent}]
=============================================================================
