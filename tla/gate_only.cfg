SPECIFICATION Spec
CONSTANTS
  Trees = {"t0"}
  Details = {"d0"}
  MaxAttempts = 1
  MaxConsecutive = 2
  RetryMax = 1
  HintMax = 2
  TriageMax = 8
  TriageRetryMax = 1
  ReplanMax = 1
  TriageOn = TRUE
  ReplanCapable = FALSE
  RequiresVerifier = FALSE
  GateOnly = TRUE
  Adaptive = FALSE
  Approved <- NoPairs
  Protected <- NoPairs
  WorkerOutcomes <- TwoWorkers
  GateOutcomes <- FewGates
  VerifierOutcomes <- Passes
  ReadOnlyEnforced = TRUE
  CallsCanFail = FALSE
  OperatorTargets = {}
  CrashPoints = {"verdict"}
  MaxEdits = 0
  MaxPauses = 0
  MaxCrashes = 1
  MaxOps = 0
INVARIANTS DoneByLatest TicksBounded
