SPECIFICATION Spec
CONSTANTS
  r1 = r1 r2 = r2 r3 = r3
  k1 = k1 t1 = t1 t2 = t2 c1 = c1 c2 = c2 c3 = c3
  Requests = {r1}
  Keys = {k1}
  Tenants = {t1, t2}
  Capabilities = {c1, c2, c3}
  CapFit <- MCFitMixed
  MaxUses <- MCMaxUses
  Unknown = Unknown
  Gov = Gov
  NONE = NONE
  Params <- BudgetParams
  Policies = {"allow"}
  KillRows = {}
  MaxPolls = 1
  Crashes = FALSE
INVARIANT TerminalDecision
