SPECIFICATION FairSpec
CONSTANTS
  r1 = r1 r2 = r2 r3 = r3
  k1 = k1 t1 = t1 t2 = t2 c1 = c1 c2 = c2 c3 = c3
  Requests = {r1, r2}
  Keys = {k1}
  Tenants = {t1, t2}
  Capabilities = {c1}
  CapFit <- MCFitAll
  MaxUses <- MCMaxUses
  Unknown = Unknown
  Gov = Gov
  NONE = NONE
  Params <- LedgerParams
  Policies = {"allow", "review"}
  KillRows = {}
  MaxPolls = 2
  Crashes = TRUE
PROPERTIES ImplementsLedger EveryCallReturns
