SPECIFICATION FairRunSpec
CONSTANTS
  Procs = {p1, p2, p3}
  Nobody = Nobody
  CanCrash = {p1}
INVARIANTS RunTypeOK MutualExclusion PassIsEarned MarkerIsOwn
PROPERTIES OnlyTornRefuses LockFreed
CHECK_DEADLOCK FALSE
