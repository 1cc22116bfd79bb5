SPECIFICATION Spec
CONSTANTS
  c1 = c1
  c2 = c2
  agent = agent
  tenant = tenant
  NONE = NONE
  Callers = {c1, c2}
  Executives = {x1, x2}
  Budgets = {agent, tenant}
  Priority <- ScopePriority
  Enforces <- AllBlock
  Limit <- Limits
  Matches <- Scopes
  Costs = {1, 2}
  TopUps = {1}
  RlsModes = {TRUE, FALSE}
  MaxCalls = 3
INVARIANT TypeOK
INVARIANT Overrun
INVARIANT TopUpsChain
\* Behaviours end: MaxCalls checks, one top-up per executive, no budget removed.
CHECK_DEADLOCK FALSE
