SPECIFICATION FairSpec
CONSTANTS
  Trees = {"t0", "t1"}
  Details = {"d0"}
  MaxAttempts = 2
  MaxConsecutive = 2
  RetryMax = 0
  HintMax = 1
  TriageMax = 1
  TriageRetryMax = 1
  ReplanMax = 1
  TriageOn = TRUE
  ReplanCapable = FALSE
  RequiresVerifier = TRUE
  GateOnly = FALSE
  Adaptive = FALSE
  Approved <- OneApproved
  Protected <- NoPairs
  WorkerOutcomes <- TwoWorkers
  GateOutcomes <- Passes
  VerifierOutcomes <- PassOrFail
  ReadOnlyEnforced = TRUE
  CallsCanFail = TRUE
  OperatorTargets = {}
  CrashPoints = {}
  MaxEdits = 1
  MaxPauses = 0
  MaxCrashes = 0
  MaxOps = 0
PROPERTIES ExecutionStops
