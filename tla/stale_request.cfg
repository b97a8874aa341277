SPECIFICATION Spec
CONSTANTS
  Trees = {"t0", "t1"}
  Details = {"d0"}
  MaxAttempts = 3
  MaxConsecutive = 2
  RetryMax = 1
  HintMax = 2
  TriageMax = 1
  TriageRetryMax = 1
  ReplanMax = 1
  TriageOn = TRUE
  ReplanCapable = FALSE
  RequiresVerifier = TRUE
  GateOnly = FALSE
  Adaptive = FALSE
  Approved <- NoPairs
  Protected <- NoPairs
  WorkerOutcomes <- ThreeWorkers
  GateOutcomes <- Passes
  VerifierOutcomes <- Passes
  ReadOnlyEnforced = TRUE
  CallsCanFail = FALSE
  OperatorTargets = {}
  CrashPoints = {"worker"}
  MaxEdits = 0
  MaxPauses = 0
  MaxCrashes = 1
  MaxOps = 0
PROPERTIES AppliesNewest
