SPECIFICATION Spec
CONSTANTS
  c1 = c1 c2 = c2
  d1 = d1 d2 = d2 d3 = d3 d4 = d4 d5 = d5
  Calls = {c1}
  Roots = {d1}
  Grants = {d2, d3, d4, d5}
  Actions = {"read", "write"}
  JobsOf <- ChainJobs
  Creates <- ChainCreates
  Changes = {"revoke"}
  MaxChanges = 1
  KernelAnswers = {"ALLOWED"}
  NONE = NONE
INVARIANT AncestorsActive
SYMMETRY Symmetry
