SPECIFICATION FairSpec
CONSTANTS
  Applies = {a1, a2, a3}
  Calls = {c1}
  Names = {n1, n2, n3}
  NONE = NONE
INVARIANTS TypeOK NoStaleVersion ResolvesCurrent
PROPERTIES ImplementsRegister EveryApplyEnds
CHECK_DEADLOCK FALSE
