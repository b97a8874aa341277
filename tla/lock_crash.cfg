SPECIFICATION Spec
CONSTANTS
  Procs = {p1, p2, p3}
  Nobody = Nobody
  CanCrash = {p1}
INVARIANTS MutualExclusion
CHECK_DEADLOCK FALSE
