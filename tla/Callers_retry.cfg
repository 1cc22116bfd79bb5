SPECIFICATION Spec
CONSTANTS
  c1 = c1 c2 = c2 k = k
  Calls = {c1, c2}
  Guards = {c2}
  KeyOfCall <- MCKeyOfCall
  MaxRetries = 1
  NONE = NONE
  Requests = 2
  Window = 3
  Burst = 1
INVARIANTS TypeOK KeyedAnswerIsTrue GuardIsBacked LazyIsEager RetryAfterSuffices
PROPERTY EveryCallEnds
CHECK_DEADLOCK FALSE
