SPECIFICATION Spec
CONSTANTS
  Trees = {"t0", "t1"}
  Details = {"d0"}
  MaxAttempts = 3
  MaxConsecutive = 2
  RetryMax = 1
  HintMax = 1
  TriageMax = 2
  TriageRetryMax = 1
  ReplanMax = 1
  TriageOn = TRUE
  ReplanCapable = TRUE
  RequiresVerifier = TRUE
  GateOnly = FALSE
  Adaptive = TRUE
  Approved <- OneApproved
  Protected <- NoPairs
  WorkerOutcomes <- ThreeWorkers
  GateOutcomes <- PassOrFail
  VerifierOutcomes <- PassOrFail
  ReadOnlyEnforced = TRUE
  CallsCanFail = FALSE
  OperatorTargets = {}
  CrashPoints = {"verdict"}
  MaxEdits = 1
  MaxPauses = 0
  MaxCrashes = 1
  MaxOps = 0
INVARIANTS TypeOK DoneByLatest RetryBudget WorkersBounded GuardNeverNeeded
PROPERTIES PassIsFinal
