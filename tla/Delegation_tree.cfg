SPECIFICATION Spec
CONSTANTS
  c1 = c1 c2 = c2
  d1 = d1 d2 = d2 d3 = d3 d4 = d4 d5 = d5
  Calls = {c1, c2}
  Roots = {d1}
  Grants = {d2, d3}
  Actions = {"read", "write"}
  JobsOf <- TreeJobs
  Creates <- TreeCreates
  Changes = {"revoke", "revoke_token", "expire", "expire_token", "kill"}
  MaxChanges = 1
  KernelAnswers = {"ALLOWED", "EXECUTED", "BLOCKED"}
  NONE = NONE
INVARIANTS TypeOK ActionsAttenuate OneRoot StandingDenial TokensDieWithDecision NoOrphanGrant
PROPERTIES RevocationLeavesMark ImplementsAuthority
SYMMETRY Symmetry
