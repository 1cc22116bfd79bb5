SPECIFICATION Spec
CONSTANTS
  c1 = c1
  c2 = c2
  agent = agent
  tenant = tenant
  NONE = NONE
  Callers = {c1}
  Executives = {}
  Budgets = {agent, tenant}
  Priority <- ScopePriority
  Enforces <- AgentThrottles
  Limit <- Limits
  Matches <- Scopes
  Costs = {1, 2}
  TopUps = {1}
  RlsModes = {FALSE}
  MaxCalls = 3
INVARIANT ExceededBlocks
\* Behaviours end: MaxCalls checks, one top-up per executive, no budget removed.
CHECK_DEADLOCK FALSE
