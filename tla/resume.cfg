SPECIFICATION ResumeSpec
CONSTANTS
  Trees = {"t0", "t1"}
  Details = {"d0"}
  MaxAttempts = 3
  MaxConsecutive = 2
  RetryMax = 1
  HintMax = 2
  TriageMax = 0
  TriageRetryMax = 1
  ReplanMax = 1
  TriageOn = FALSE
  ReplanCapable = FALSE
  RequiresVerifier = TRUE
  GateOnly = FALSE
  Adaptive = FALSE
  Approved <- NoPairs
  Protected <- NoPairs
  WorkerOutcomes <- GoodWorkers
  GateOutcomes <- Passes
  VerifierOutcomes <- Passes
  ReadOnlyEnforced = FALSE
  CallsCanFail = FALSE
  OperatorTargets = {}
  CrashPoints <- Resumable
  MaxEdits = 0
  MaxPauses = 0
  MaxCrashes = 3
  MaxOps = 0
PROPERTIES EventuallyDone
